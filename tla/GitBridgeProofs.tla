--------------------------- MODULE GitBridgeProofs ---------------------------
(***************************************************************************)
(* Theorems of GitBridge: a request is made at most once and its outcome   *)
(* claims no more than what became of it, and no bridge is left behind,    *)
(* for any number of requests, URLs, keys, bridges, sessions and changes.  *)
(***************************************************************************)
EXTENDS GitBridge, FiniteSetTheorems, TLAPS

Ends == Sessions \cup {None}
Frame(kind, r, s) == RequestFrame(kind, r, s) \in frames
Sent(r) == \E s \in Ends : Frame("request", r, s)

\* A request's frame is sent once, to one session, and after that no outcome
\* claims that it was not; what is answered was made.
RequestInv ==
    \A r \in Requests :
        /\ req[r].outcome = "none" <=> req[r].pc # "done"
        /\ Sent(r) => req[r].pc \in {"pending", "done"} /\ req[r].outcome # "notDispatched"
        /\ \A s, t \in Ends : Frame("request", r, s) /\ Frame("request", r, t) => s = t
        /\ started[r] \in {0, 1}
        /\ started[r] = 1 => Sent(r)
        /\ req[r].outcome = "response" => started[r] = 1
        /\ \A f \in frames : f.kind = "response" /\ f.req = r => started[r] = 1

\* Where a session stands with a request that it has been sent.
ScriptInv ==
    \A s \in Sessions, r \in Requests :
        /\ Frame("request", r, s) /\ r \notin scripts[s].seen => started[r] = 0
        /\ scripts[s].stage[r] = "token" =>
              Frame("request", r, s) /\ started[r] = 0 /\ r \in scripts[s].seen
        /\ scripts[s].stage[r] = "active" => started[r] = 1

\* A cancellation is remembered, or nothing can be remembered any more.
MemoryInv ==
    \A s \in Sessions :
        /\ IsFiniteSet(scripts[s].seen)
        /\ \A r \in Requests : scripts[s].stage[r] = "cancelled" =>
              r \in scripts[s].seen \/ Cardinality(scripts[s].seen) >= MaxSeen

\* Whoever awaits a bridge of this configuration awaits the one that is being
\* connected, and none is kept meanwhile.
ManagerInv ==
    /\ manager.connecting # None => manager.kept = None
    /\ \A r \in Requests : req[r].generation <= manager.generation
    /\ \A r \in Requests :
          req[r].pc = "connecting" /\ req[r].generation = manager.generation =>
              manager.kept = None /\ manager.connecting = req[r].bridge

GInv == TypeOK /\ RequestInv /\ ScriptInv /\ MemoryInv /\ ManagerInv /\ BridgesAreOwned

Unsent == {"idle", "secret", "connecting", "check", "encoding"}

-----------------------------------------------------------------------------
(* Initially. *)

LEMMA BridgeInit == Init => GInv
  <1> SUFFICES ASSUME Init
               PROVE  GInv
    OBVIOUS
  <1> USE BridgeAssumption
  <1>1. TypeOK
    BY DEF Init, TypeOK, Calls, Scripts, Stages
  <1>2. RequestInv
    BY DEF Init, RequestInv, Sent, Frame
  <1>3. ScriptInv
    BY DEF Init, ScriptInv, Frame
  <1>4. MemoryInv
    BY FS_EmptySet DEF Init, MemoryInv
  <1>5. ManagerInv /\ BridgesAreOwned
    BY DEF Init, ManagerInv, BridgesAreOwned
  <1> QED
    BY <1>1, <1>2, <1>3, <1>4, <1>5 DEF GInv

-----------------------------------------------------------------------------
(* Types. *)

\* What Ended makes of a request's record.
LEMMA CallTypes ==
    ASSUME TypeOK, NEW r \in Requests, NEW o \in {"response", "failed", "notDispatched"}
    PROVE  /\ Ended(r, o) \in Calls
           /\ Ended(r, o).pc = "done" /\ Ended(r, o).outcome = o
           /\ Ended(r, o).generation = req[r].generation
  <1>1. req[r] \in Calls
    BY DEF TypeOK
  <1> QED
    BY <1>1 DEF Calls, Ended

LEMMA StepTypes ==
    ASSUME TypeOK, NEW r \in Requests, NEW at \in Calls, Step(r, at),
           at.pc = "connecting" => at.bridge \in Bridges
    PROVE  /\ req' \in [Requests -> Calls]
           /\ \A q \in Requests : req'[q] = IF q = r THEN at ELSE req[q]
           /\ \A q \in Requests : req'[q].pc = "connecting" => req'[q].bridge \in Bridges
  BY DEF TypeOK, Step

LEMMA DisposeTypes ==
    ASSUME TypeOK, NEW b \in Bridges \cup {None}, Dispose(b)
    PROVE  /\ req' \in [Requests -> Calls]
           /\ \A q \in Requests : req'[q].pc = "connecting" => req'[q].bridge \in Bridges
           /\ bridges' \in [Bridges -> [state : {"unused", "connecting", "open", "failed", "closed"},
                                key : Keys \cup {None}, session : Sessions \cup {None}]]
  <1>1. \A q \in Requests : Ended(q, "failed") \in Calls /\ Ended(q, "failed").pc = "done"
    BY CallTypes
  <1>2. \A q \in Requests : req[q] \in Calls
    BY DEF TypeOK
  <1>4. req' \in [Requests -> Calls]
    BY <1>1, <1>2 DEF Dispose
  <1>5. \A q \in Requests : req'[q].pc = "connecting" => req'[q].bridge \in Bridges
    BY <1>1 DEF Dispose, TypeOK
  <1> QED
    BY <1>4, <1>5 DEF Dispose, TypeOK

\* The requests' own steps.
LEMMA RequestTypes ==
    ASSUME TypeOK, NEW r \in Requests, Manager(r) \/ Bridge(r) \/ Abort(r),
           ~ \E k \in {req[r].pairing, settings.pairing}, b \in Bridges : Connect(r, k, b)
    PROVE  TypeOK'
  <1> USE BridgeAssumption
  <1>c. req[r] \in Calls /\ manager \in [kept : Bridges \cup {None}, pairing : Keys \cup {None},
             url : Urls \cup {None}, connecting : Bridges \cup {None}, generation : Nat]
    BY DEF TypeOK
  <1>n. NotDispatched(r) \in Calls /\ NotDispatched(r).pc = "done"
    BY CallTypes DEF NotDispatched
  <1>s. ASSUME NEW at \in Calls, Step(r, at), at.pc = "connecting" => at.bridge \in Bridges,
               UNCHANGED <<settings, manager, bridges, page>>
        PROVE  TypeOK'
    <2>1. /\ req' \in [Requests -> Calls]
          /\ \A q \in Requests : req'[q].pc = "connecting" => req'[q].bridge \in Bridges
      BY <1>s, StepTypes
    <2> QED
      BY <1>s, <2>1 DEF TypeOK, page
  <1>1. ASSUME NEW u \in Urls, Get(r, u)
        PROVE  TypeOK'
    <2> DEFINE at == [req[r] EXCEPT !.pc = "secret", !.url = u, !.pairing = settings.pairing,
                                    !.generation = manager.generation]
    <2>1. settings.pairing \in Keys
      BY DEF TypeOK
    <2>2. at \in Calls /\ at.pc # "connecting"
      BY <1>c, <2>1 DEF Calls
    <2> QED
      BY <1>1, <1>n, <1>s, <2>2 DEF Get
  <1>2. ASSUME SecretFails(r)
        PROVE  TypeOK'
    <2>1. PICK o \in {"failed", "notDispatched"} : Step(r, Ended(r, o))
      BY <1>2 DEF SecretFails
    <2>2. Ended(r, o) \in Calls /\ Ended(r, o).pc = "done"
      BY CallTypes
    <2> QED
      BY <1>2, <1>s, <2>1, <2>2 DEF SecretFails
  <1>3. ASSUME SecretOutdated(r)
        PROVE  TypeOK'
    BY <1>3, <1>n, <1>s DEF SecretOutdated
  <1>4. ASSUME NEW k \in {req[r].pairing, settings.pairing}, UseKept(r, k)
        PROVE  TypeOK'
    <2> DEFINE at == [req[r] EXCEPT !.pc = "check", !.bridge = manager.kept]
    <2>1. at \in Calls /\ at.pc # "connecting"
      BY <1>c DEF Calls
    <2> QED
      BY <1>4, <1>s, <2>1 DEF UseKept
  <1>5. ASSUME NEW k \in {req[r].pairing, settings.pairing}, ShareConnection(r, k)
        PROVE  TypeOK'
    <2> DEFINE at == Connecting(r, manager.connecting, k, manager.generation)
    <2>1. k \in Keys \cup {None} /\ manager.connecting \in Bridges
      BY <1>5, <1>c DEF TypeOK, Calls, ShareConnection
    <2>2. at \in Calls /\ at.bridge \in Bridges
      BY <1>c, <2>1 DEF Calls, Connecting
    <2> QED
      BY <1>5, <1>s, <2>2 DEF ShareConnection
  <1>6. ASSUME Check(r)
        PROVE  TypeOK'
    <2>1. [req[r] EXCEPT !.pc = "encoding"] \in Calls
      BY <1>c DEF Calls
    <2>2. [req[r] EXCEPT !.pc = "encoding"].pc = "encoding"
      BY <1>c DEF Calls
    <2>3. PICK at \in {NotDispatched(r), [req[r] EXCEPT !.pc = "encoding"]} : Step(r, at)
      BY <1>6 DEF Check
    <2> QED
      BY <1>6, <1>n, <1>s, <2>1, <2>2, <2>3 DEF Check
  <1>7. ASSUME Dispatch(r)
        PROVE  TypeOK'
    <2>1. [req[r] EXCEPT !.pc = "pending"] \in Calls
      BY <1>c DEF Calls
    <2>2. [req[r] EXCEPT !.pc = "pending"].pc = "pending"
      BY <1>c DEF Calls
    <2>3. PICK at \in {NotDispatched(r), [req[r] EXCEPT !.pc = "pending"]} : Step(r, at)
      BY <1>7 DEF Dispatch
    <2> QED
      BY <1>7, <1>n, <1>s, <2>1, <2>2, <2>3 DEF Dispatch
  <1>8. ASSUME DispatchFails(r)
        PROVE  TypeOK'
    BY <1>8, <1>n, <1>s DEF DispatchFails
  <1>9. ASSUME TimesOut(r) \/ Answered(r)
        PROVE  TypeOK'
    <2>1. PICK o \in {"response", "failed", "notDispatched"} : Step(r, Ended(r, o))
      BY <1>9 DEF TimesOut, Answered, Decoded
    <2>2. Ended(r, o) \in Calls /\ Ended(r, o).pc = "done"
      BY CallTypes
    <2> QED
      BY <1>9, <1>s, <2>1, <2>2 DEF TimesOut, Answered
  <1>10. ASSUME Abort(r)
         PROVE  TypeOK'
    <2>1. Ended(r, "failed") \in Calls /\ Ended(r, "failed").pc = "done"
      BY CallTypes
    <2>2. /\ [Ended(r, "failed") EXCEPT !.aborted = TRUE] \in Calls
          /\ [Ended(r, "failed") EXCEPT !.aborted = TRUE].pc = "done"
          /\ [req[r] EXCEPT !.aborted = TRUE] \in Calls
      BY <1>c, <2>1 DEF Calls
    <2>3. [req[r] EXCEPT !.aborted = TRUE].pc = "connecting"
             => [req[r] EXCEPT !.aborted = TRUE].bridge \in Bridges
      BY <1>c DEF Calls, TypeOK
    <2>4. PICK at \in {[Ended(r, "failed") EXCEPT !.aborted = TRUE], [req[r] EXCEPT !.aborted = TRUE]} :
             Step(r, at)
      BY <1>10 DEF Abort
    <2> QED
      BY <1>10, <1>s, <2>2, <2>3, <2>4 DEF Abort
  <1> QED
    BY <1>1, <1>2, <1>3, <1>4, <1>5, <1>6, <1>7, <1>8, <1>9, <1>10 DEF Manager, Bridge

LEMMA InvalidatedTypes ==
    ASSUME TypeOK
    PROVE  /\ Invalidated \in [kept : Bridges \cup {None}, pairing : Keys \cup {None},
                    url : Urls \cup {None}, connecting : Bridges \cup {None}, generation : Nat]
           /\ Invalidated.kept = None /\ Invalidated.connecting = None
           /\ Invalidated.generation = manager.generation + 1
  BY DEF TypeOK, Invalidated

LEMMA UnsharedTypes ==
    ASSUME TypeOK, NEW b \in Bridges
    PROVE  /\ Unshared(b) \in [kept : Bridges \cup {None}, pairing : Keys \cup {None},
                    url : Urls \cup {None}, connecting : Bridges \cup {None}, generation : Nat]
           /\ Unshared(b).kept = manager.kept /\ Unshared(b).generation = manager.generation
           /\ Unshared(b).connecting = IF manager.connecting = b THEN None ELSE manager.connecting
  <1>1. manager \in [kept : Bridges \cup {None}, pairing : Keys \cup {None},
                    url : Urls \cup {None}, connecting : Bridges \cup {None}, generation : Nat]
    BY DEF TypeOK
  <1> QED
    BY <1>1 DEF Unshared

\* The steps of the manager that are not one request's, and of the bridges.
LEMMA BridgeTypes ==
    ASSUME TypeOK,
           \/ Configure \/ Invalidate
           \/ \E r \in Requests, b \in Bridges :
                 \E k \in {req[r].pairing, settings.pairing} : Connect(r, k, b)
           \/ \E b \in Bridges :
                 ConnectFails(b) \/ Connected(b) \/ HandshakeFails(b) \/ \E s \in Sessions : Hello(b, s)
    PROVE  TypeOK'
  <1> USE BridgeAssumption
  <1>n. \A r \in Requests : /\ NotDispatched(r) \in Calls /\ NotDispatched(r).pc = "done"
                            /\ Ended(r, "failed") \in Calls /\ Ended(r, "failed").pc = "done"
                            /\ req[r] \in Calls
    BY CallTypes DEF NotDispatched, TypeOK
  <1>1. CASE Configure
    BY <1>1 DEF Configure, TypeOK, web, page
  <1>2. CASE Invalidate
    <2>1. manager.kept \in Bridges \cup {None}
      BY DEF TypeOK
    <2> QED
      BY <1>2, <2>1, DisposeTypes, InvalidatedTypes DEF Invalidate, TypeOK, page
  <1>3. ASSUME NEW r \in Requests, NEW b \in Bridges,
               NEW k \in {req[r].pairing, settings.pairing}, Connect(r, k, b)
        PROVE  TypeOK'
    <2>k. k \in Keys \cup {None}
      BY <1>n DEF TypeOK, Calls
    <2> DEFINE m == IF manager.kept = None THEN manager ELSE Invalidated
    <2>m. m \in [kept : Bridges \cup {None}, pairing : Keys \cup {None},
                url : Urls \cup {None}, connecting : Bridges \cup {None}, generation : Nat]
      BY InvalidatedTypes DEF TypeOK
    <2>1. manager' \in [kept : Bridges \cup {None}, pairing : Keys \cup {None},
                url : Urls \cup {None}, connecting : Bridges \cup {None}, generation : Nat]
      BY <1>3, <2>m DEF Connect
    <2>g. \A g \in Nat : Connecting(r, b, k, g) \in Calls /\ Connecting(r, b, k, g).bridge = b
      <3> HIDE DEF m
      <3>1. req[r] \in Calls
        BY <1>n
      <3> QED
        BY <2>k, <3>1 DEF Calls, Connecting
    <2>h. m.generation \in Nat
      BY <2>m
    <2>2. Connecting(r, b, k, m.generation) \in Calls /\ Connecting(r, b, k, m.generation).bridge = b
      BY <2>g, <2>h
    <2>3. req' = [q \in Requests |->
                        CASE q = r -> Connecting(r, b, k, m.generation)
                          [] q # r /\ q \in PendingOn(manager.kept) -> Ended(q, "failed")
                          [] OTHER -> req[q]]
      BY <1>3 DEF Connect
    <2>4. req' \in [Requests -> Calls]
      BY <1>n, <2>2, <2>3
    <2>5. \A q \in Requests : req'[q].pc = "connecting" => req'[q].bridge \in Bridges
      BY <1>n, <2>2, <2>3 DEF TypeOK
    <2>6. bridges' \in [Bridges -> [state : {"unused", "connecting", "open", "failed", "closed"},
                                   key : Keys \cup {None}, session : Sessions \cup {None}]]
      <3> DEFINE x == [state |-> "connecting", key |-> k, session |-> None]
      <3>1. bridges \in [Bridges -> [state : {"unused", "connecting", "open", "failed", "closed"},
                                    key : Keys \cup {None}, session : Sessions \cup {None}]]
        BY DEF TypeOK
      <3>2. x \in [state : {"unused", "connecting", "open", "failed", "closed"},
                   key : Keys \cup {None}, session : Sessions \cup {None}]
        BY <2>k
      <3>3. \A q \in Bridges : [bridges[q] EXCEPT !.state = "closed"]
               \in [state : {"unused", "connecting", "open", "failed", "closed"},
                   key : Keys \cup {None}, session : Sessions \cup {None}]
        BY <3>1
      <3>4. bridges' = [c \in Bridges |->
                          CASE c = b -> x
                            [] c = manager.kept -> [bridges[c] EXCEPT !.state = "closed"]
                            [] OTHER -> bridges[c]]
        BY <1>3 DEF Connect
      <3> HIDE DEF x
      <3> QED
        BY <3>1, <3>2, <3>3, <3>4
    <2> QED
      BY <1>3, <2>1, <2>4, <2>5, <2>6 DEF Connect, TypeOK, page
  <1>4. ASSUME NEW b \in Bridges, ConnectFails(b)
        PROVE  TypeOK'
    <2>1. req' \in [Requests -> Calls]
      BY <1>4, <1>n DEF ConnectFails
    <2>2. \A q \in Requests : req'[q].pc = "connecting" => req'[q].bridge \in Bridges
      BY <1>4, <1>n DEF ConnectFails, TypeOK
    <2> QED
      BY <1>4, <2>1, <2>2, UnsharedTypes DEF ConnectFails, TypeOK, page
  <1>5. ASSUME NEW b \in Bridges, Connected(b)
        PROVE  TypeOK'
    <2>1. \A r \in Requests : /\ [req[r] EXCEPT !.pc = "check"] \in Calls
                              /\ [req[r] EXCEPT !.pc = "check"].pc = "check"
      BY <1>n DEF Calls
    <2>2. req' = [r \in Requests |->
                  CASE r \in Awaiting(b) /\ Outdated(r) -> NotDispatched(r)
                    [] r \in Awaiting(b) /\ ~Outdated(r) -> [req[r] EXCEPT !.pc = "check"]
                    [] OTHER -> req[r]]
      BY <1>5 DEF Connected
    <2>3. req' \in [Requests -> Calls]
      BY <1>n, <2>1, <2>2
    <2>4. \A q \in Requests : req'[q].pc = "connecting" => req'[q].bridge \in Bridges
      BY <1>n, <2>1, <2>2 DEF TypeOK
    <2>5. manager' \in [kept : Bridges \cup {None}, pairing : Keys \cup {None},
                url : Urls \cup {None}, connecting : Bridges \cup {None}, generation : Nat]
      <3>1. CASE manager' = Unshared(b)
        BY <3>1, UnsharedTypes
      <3>2. ASSUME NEW r \in Requests,
                   manager' = [Unshared(b) EXCEPT !.kept = b, !.pairing = req[r].pairing,
                                                  !.url = req[r].url]
            PROVE  manager' \in [kept : Bridges \cup {None}, pairing : Keys \cup {None},
                url : Urls \cup {None}, connecting : Bridges \cup {None}, generation : Nat]
        <4>1. req[r].pairing \in Keys \cup {None} /\ req[r].url \in Urls \cup {None}
          BY <1>n DEF Calls
        <4>2. Unshared(b) \in [kept : Bridges \cup {None}, pairing : Keys \cup {None},
                url : Urls \cup {None}, connecting : Bridges \cup {None}, generation : Nat]
          BY UnsharedTypes
        <4> QED
          BY <3>2, <4>1, <4>2
      <3> QED
        BY <1>5, <3>1, <3>2 DEF Connected, Awaiting
    <2>6. bridges' \in [Bridges -> [state : {"unused", "connecting", "open", "failed", "closed"},
                                   key : Keys \cup {None}, session : Sessions \cup {None}]]
      <3>1. bridges' = bridges \/ bridges' = [bridges EXCEPT ![b].state = "closed"]
        BY <1>5 DEF Connected, GiveUp
      <3>2. bridges \in [Bridges -> [state : {"unused", "connecting", "open", "failed", "closed"},
                                    key : Keys \cup {None}, session : Sessions \cup {None}]]
        BY DEF TypeOK
      <3>3. [bridges[b] EXCEPT !.state = "closed"]
               \in [state : {"unused", "connecting", "open", "failed", "closed"},
                   key : Keys \cup {None}, session : Sessions \cup {None}]
        BY <3>2
      <3>4. bridges' = bridges \/ bridges' = [bridges EXCEPT ![b] = [bridges[b] EXCEPT !.state = "closed"]]
        BY <3>1
      <3> QED
        BY <3>2, <3>3, <3>4
    <2> QED
      BY <1>5, <2>3, <2>4, <2>5, <2>6 DEF Connected, TypeOK, page
  <1>6. ASSUME NEW b \in Bridges, HandshakeFails(b)
        PROVE  TypeOK'
    BY <1>6 DEF HandshakeFails, TypeOK, page
  <1>7. ASSUME NEW b \in Bridges, NEW s \in Sessions, Hello(b, s)
        PROVE  TypeOK'
    <2>1. bridges' \in [Bridges -> [state : {"unused", "connecting", "open", "failed", "closed"},
                                   key : Keys \cup {None}, session : Sessions \cup {None}]]
      <3> DEFINE x == [bridges[b] EXCEPT !.state = "open", !.session = s]
      <3>1. bridges \in [Bridges -> [state : {"unused", "connecting", "open", "failed", "closed"},
                                    key : Keys \cup {None}, session : Sessions \cup {None}]]
        BY DEF TypeOK
      <3>2. x \in [state : {"unused", "connecting", "open", "failed", "closed"},
                   key : Keys \cup {None}, session : Sessions \cup {None}]
        BY <3>1
      <3>3. bridges' = [bridges EXCEPT ![b] = x]
        BY <1>7 DEF Hello
      <3> HIDE DEF x
      <3> QED
        BY <3>1, <3>2, <3>3
    <2> QED
      BY <1>7, <2>1 DEF Hello, TypeOK, page
  <1> QED
    BY <1>1, <1>2, <1>3, <1>4, <1>5, <1>6, <1>7

LEMMA ScriptTypes ==
    ASSUME TypeOK, NEW s \in Sessions, Userscript(s)
    PROVE  TypeOK'
  <1>s. scripts \in [Sessions -> Scripts] /\ scripts[s] \in Scripts
    BY DEF TypeOK
  <1>t. \A r \in Requests, st \in Stages :
           /\ [scripts EXCEPT ![s].stage[r] = st] \in [Sessions -> Scripts]
           /\ Takes(s, r, st) => scripts' \in [Sessions -> Scripts]
    BY <1>s DEF Scripts, Takes
  <1>1. ASSUME NEW k \in Keys, Start(s, k)
        PROVE  TypeOK'
    BY <1>1, <1>s DEF Start, TypeOK, Scripts, web
  <1>2. ASSUME NEW b \in Bridges, SendHello(s, b)
        PROVE  TypeOK'
    BY <1>2 DEF SendHello, TypeOK, web, page
  <1>3. CASE PageHide(s)
    BY <1>3, <1>s DEF PageHide, TypeOK, Scripts, web
  <1>4. ASSUME NEW r \in Requests, Receive(s, r)
        PROVE  TypeOK'
    BY <1>4, <1>s, <1>t DEF Receive, NotAllowed, TypeOK, web, Stages
  <1>5. ASSUME NEW r \in Requests, Token(s, r)
        PROVE  TypeOK'
    <2>1. scripts' \in [Sessions -> Scripts]
      BY <1>5, <1>t DEF Token, Stages
    <2>2. started' \in [Requests -> Nat]
      BY <1>5 DEF Token, TypeOK
    <2> QED
      BY <1>5, <2>1, <2>2 DEF Token, TypeOK, web
  <1>6. ASSUME NEW r \in Requests, Complete(s, r)
        PROVE  TypeOK'
    BY <1>6, <1>t DEF Complete, TypeOK, web, Stages
  <1>7. ASSUME NEW r \in Requests, RecordCancellation(s, r)
        PROVE  TypeOK'
    <2> DEFINE seen == IF Cardinality(scripts[s].seen) < MaxSeen
                       THEN scripts[s].seen \cup {r} ELSE scripts[s].seen
               st == CASE scripts[s].stage[r] = "active" -> "over"
                       [] scripts[s].stage[r] = "none" -> "cancelled"
                       [] OTHER -> scripts[s].stage[r]
    <2>1. seen \in SUBSET Requests /\ st \in Stages
      BY <1>s DEF Scripts, Stages
    <2>2. scripts' = [scripts EXCEPT ![s].seen = seen, ![s].stage[r] = st]
      BY <1>7 DEF RecordCancellation
    <2> HIDE DEF seen, st
    <2>3. scripts' \in [Sessions -> Scripts]
      BY <1>s, <2>1, <2>2 DEF Scripts
    <2> QED
      BY <1>7, <2>3 DEF RecordCancellation, TypeOK, web
  <1> QED
    BY <1>1, <1>2, <1>3, <1>4, <1>5, <1>6, <1>7 DEF Userscript

LEMMA TypeStep ==
    ASSUME TypeOK, [Next]_vars
    PROVE  TypeOK'
  <1>1. CASE UNCHANGED vars
    BY <1>1 DEF vars, TypeOK
  <1> QED
    BY <1>1, RequestTypes, BridgeTypes, ScriptTypes DEF Next

-----------------------------------------------------------------------------
(* Who may use a bridge. *)

\* A step that leaves the manager alone, opens no bridge and moves nobody to or
\* from one that is being connected.
Steady ==
    /\ manager' = manager
    /\ \A b \in Bridges : bridges'[b].state \in {"connecting", "open"}
           => bridges[b].state \in {"connecting", "open"}
    /\ \A r \in Requests :
           /\ req'[r].generation <= manager.generation
           /\ req[r].pc = "connecting" =>
                 req'[r].pc = "connecting" /\ req'[r].bridge = req[r].bridge
           /\ req'[r].pc = "connecting" =>
                 /\ req[r].pc = "connecting" /\ req'[r].bridge = req[r].bridge
                 /\ req'[r].generation = req[r].generation

LEMMA SteadyStep ==
    ASSUME ManagerInv, BridgesAreOwned, Steady
    PROVE  ManagerInv' /\ BridgesAreOwned'
  BY DEF ManagerInv, BridgesAreOwned, Steady

\* What a single request does with a bridge at hand is steady.
LEMMA SteadyRequest ==
    ASSUME TypeOK, ManagerInv, NEW r \in Requests, NEW at, Step(r, at),
           UNCHANGED <<manager, bridges>>,
           at.generation <= manager.generation,
           req[r].pc # "connecting" /\ at.pc # "connecting"
    PROVE  Steady
  BY DEF TypeOK, ManagerInv, Steady, Step

LEMMA OwnershipRequests ==
    ASSUME TypeOK, ManagerInv, BridgesAreOwned, NEW r \in Requests,
           Manager(r) \/ Bridge(r) \/ Abort(r),
           ~ \E k \in {req[r].pairing, settings.pairing}, b \in Bridges : Connect(r, k, b)
    PROVE  ManagerInv' /\ BridgesAreOwned'
  <1>c. /\ req[r] \in Calls /\ req[r].generation <= manager.generation
        /\ manager.generation \in Nat
    BY DEF TypeOK, ManagerInv
  <1>n. \A o \in {"response", "failed", "notDispatched"} :
           Ended(r, o).pc = "done" /\ Ended(r, o).generation = req[r].generation
    BY CallTypes
  <1>1. ASSUME NEW u \in Urls, Get(r, u)
        PROVE  Steady
    <2> DEFINE at == [req[r] EXCEPT !.pc = "secret", !.url = u, !.pairing = settings.pairing,
                                    !.generation = manager.generation]
    <2>1. at.generation = manager.generation /\ at.pc = "secret"
      BY <1>c DEF Calls
    <2>2. NotDispatched(r).generation <= manager.generation /\ NotDispatched(r).pc = "done"
      BY <1>c, <1>n DEF NotDispatched
    <2>3. PICK x \in {at, NotDispatched(r)} : Step(r, x)
      BY <1>1 DEF Get
    <2>4. req[r].pc = "idle" /\ UNCHANGED <<manager, bridges>>
      BY <1>1 DEF Get
    <2> HIDE DEF at
    <2> QED
      BY <1>c, <2>1, <2>2, <2>3, <2>4, SteadyRequest
  <1>2. ASSUME SecretFails(r) \/ SecretOutdated(r) \/ DispatchFails(r) \/ TimesOut(r) \/ Answered(r)
        PROVE  Steady
    <2>1. PICK o \in {"response", "failed", "notDispatched"} : Step(r, Ended(r, o))
      BY <1>2 DEF SecretFails, SecretOutdated, DispatchFails, TimesOut, Answered, Decoded, NotDispatched
    <2>2. Ended(r, o).pc = "done" /\ Ended(r, o).generation <= manager.generation
      BY <1>c, <1>n
    <2>3. req[r].pc # "connecting" /\ UNCHANGED <<manager, bridges>>
      BY <1>2 DEF SecretFails, SecretOutdated, DispatchFails, TimesOut, Answered
    <2> QED
      BY <2>1, <2>2, <2>3, SteadyRequest
  <1>3. ASSUME NEW k \in {req[r].pairing, settings.pairing}, UseKept(r, k)
        PROVE  Steady
    <2> DEFINE at == [req[r] EXCEPT !.pc = "check", !.bridge = manager.kept]
    <2>1. at.generation = req[r].generation /\ at.pc = "check"
      BY <1>c DEF Calls
    <2>2. Step(r, at) /\ req[r].pc = "secret" /\ UNCHANGED <<manager, bridges>>
      BY <1>3 DEF UseKept
    <2> HIDE DEF at
    <2> QED
      BY <1>c, <2>1, <2>2, SteadyRequest
  <1>4. ASSUME Check(r) \/ Dispatch(r)
        PROVE  Steady
    <2>1. \A pc \in {"encoding", "pending"} :
             /\ [req[r] EXCEPT !.pc = pc].generation = req[r].generation
             /\ [req[r] EXCEPT !.pc = pc].pc = pc
      BY <1>c DEF Calls
    <2>2. PICK x \in {NotDispatched(r), [req[r] EXCEPT !.pc = "encoding"],
                      [req[r] EXCEPT !.pc = "pending"]} : Step(r, x)
      BY <1>4 DEF Check, Dispatch
    <2>3. x.generation <= manager.generation /\ x.pc # "connecting"
      BY <1>c, <1>n, <2>1 DEF NotDispatched
    <2>4. req[r].pc # "connecting" /\ UNCHANGED <<manager, bridges>>
      BY <1>4 DEF Check, Dispatch
    <2> QED
      BY <2>2, <2>3, <2>4, SteadyRequest
  <1>5. ASSUME Abort(r)
        PROVE  Steady
    <2>1. CASE req[r].pc = "pending"
      <3>1. /\ [Ended(r, "failed") EXCEPT !.aborted = TRUE].pc = "done"
            /\ [Ended(r, "failed") EXCEPT !.aborted = TRUE].generation = req[r].generation
        BY <1>c, CallTypes DEF Calls
      <3> QED
        BY <1>5, <1>c, <2>1, <3>1, SteadyRequest DEF Abort
    <2>2. CASE req[r].pc # "pending"
      <3>1. /\ [req[r] EXCEPT !.aborted = TRUE].pc = req[r].pc
            /\ [req[r] EXCEPT !.aborted = TRUE].bridge = req[r].bridge
            /\ [req[r] EXCEPT !.aborted = TRUE].generation = req[r].generation
        BY <1>c DEF Calls
      <3>2. req' = [req EXCEPT ![r] = [req[r] EXCEPT !.aborted = TRUE]]
        BY <1>5, <2>2 DEF Abort, Step
      <3> QED
        BY <1>5, <3>1, <3>2 DEF Abort, Steady, ManagerInv, TypeOK
    <2> QED
      BY <2>1, <2>2
  <1>6. ASSUME NEW k \in {req[r].pairing, settings.pairing}, ShareConnection(r, k)
        PROVE  ManagerInv' /\ BridgesAreOwned'
    <2> DEFINE at == Connecting(r, manager.connecting, k, manager.generation)
    <2>1. /\ at.pc = "connecting" /\ at.bridge = manager.connecting
          /\ at.generation = manager.generation
      BY <1>c DEF Calls, Connecting
    <2>2. req' = [req EXCEPT ![r] = at] /\ UNCHANGED <<manager, bridges>>
      BY <1>6 DEF ShareConnection, Step
    <2>3. req[r].pc = "secret" /\ manager.kept = None /\ manager.connecting # None
      BY <1>6 DEF ShareConnection
    <2> HIDE DEF at
    <2>4. ManagerInv'
      BY <1>c, <2>1, <2>2, <2>3 DEF ManagerInv, TypeOK
    <2>5. BridgesAreOwned'
      BY <2>1, <2>2, <2>3 DEF BridgesAreOwned, TypeOK
    <2> QED
      BY <2>4, <2>5
  <1> QED
    BY <1>1, <1>2, <1>3, <1>4, <1>5, <1>6, SteadyStep DEF Manager, Bridge

\* What the records of the requests are made into.
LEMMA EndedFacts ==
    ASSUME TypeOK
    PROVE  \A r \in Requests : \A o \in {"response", "failed", "notDispatched"} :
              /\ Ended(r, o).pc = "done" /\ Ended(r, o).outcome = o
              /\ Ended(r, o).generation = req[r].generation
  BY CallTypes

LEMMA OwnershipInvalidate ==
    ASSUME TypeOK, ManagerInv, BridgesAreOwned, Invalidate
    PROVE  ManagerInv' /\ BridgesAreOwned'
  <1> USE BridgeAssumption
  <1>1. \A r \in Requests :
           /\ req'[r].generation = req[r].generation
           /\ req[r].pc = "connecting" => req'[r] = req[r]
           /\ req'[r].pc = "connecting" => req'[r] = req[r]
    BY EndedFacts DEF Invalidate, Dispose, PendingOn
  <1>2. manager' = Invalidated /\ manager'.generation = manager.generation + 1
    BY InvalidatedTypes DEF Invalidate
  <1>3. manager.generation \in Nat /\ \A r \in Requests : req[r].generation \in Nat
    BY DEF TypeOK, Calls
  <1>4. ManagerInv'
    BY <1>1, <1>2, <1>3, InvalidatedTypes DEF ManagerInv
  <1>5. \A b \in Bridges : bridges'[b].state \in {"connecting", "open"} =>
           b # manager.kept /\ bridges'[b] = bridges[b]
    BY DEF Invalidate, Dispose, TypeOK
  <1> QED
    BY <1>1, <1>4, <1>5 DEF BridgesAreOwned

LEMMA OwnershipConnect ==
    ASSUME TypeOK, ManagerInv, BridgesAreOwned, NEW r \in Requests, NEW b \in Bridges,
           NEW k \in {req[r].pairing, settings.pairing}, Connect(r, k, b)
    PROVE  ManagerInv' /\ BridgesAreOwned'
  <1> USE BridgeAssumption
  <1>c. manager \in [kept : Bridges \cup {None}, pairing : Keys \cup {None},
                url : Urls \cup {None}, connecting : Bridges \cup {None}, generation : Nat]
    BY DEF TypeOK
  <1>r. req[r].pc = "secret" /\ \A q \in Requests : req[q] \in Calls
    BY DEF Connect, TypeOK
  <1> DEFINE m == IF manager.kept = None THEN manager ELSE Invalidated
  <1>m. /\ m \in [kept : Bridges \cup {None}, pairing : Keys \cup {None},
                url : Urls \cup {None}, connecting : Bridges \cup {None}, generation : Nat]
        /\ m.kept = None /\ m.connecting = None
        /\ m.generation = IF manager.kept = None THEN manager.generation
                          ELSE manager.generation + 1
    BY <1>c, InvalidatedTypes DEF Connect
  <1>1. manager' = [m EXCEPT !.connecting = b]
    BY DEF Connect
  <1>2. req' = [q \in Requests |->
                   CASE q = r -> Connecting(r, b, k, m.generation)
                     [] q # r /\ q \in PendingOn(manager.kept) -> Ended(q, "failed")
                     [] OTHER -> req[q]]
    BY DEF Connect
  <1> HIDE DEF m
  <1>3. manager'.kept = None /\ manager'.connecting = b /\ manager'.generation = m.generation
    BY <1>m, <1>1
  <1>4. /\ req'[r].pc = "connecting" /\ req'[r].bridge = b
        /\ req'[r].generation = m.generation
    BY <1>r, <1>2 DEF Connecting, Calls
  <1>5. \A q \in Requests \ {r} :
           /\ req'[q].generation = req[q].generation
           /\ req[q].pc = "connecting" => req'[q] = req[q]
           /\ req'[q].pc = "connecting" => req'[q] = req[q]
    BY <1>2, EndedFacts DEF PendingOn
  <1>6. \A q \in Requests \ {r} : req[q].pc = "connecting" => req[q].generation # m.generation
    BY <1>c, <1>m, <1>r DEF ManagerInv, TypeOK, Connect, Calls
  <1>7. ManagerInv'
    BY <1>c, <1>m, <1>r, <1>3, <1>4, <1>5, <1>6 DEF ManagerInv, Calls
  <1>8. \A c \in Bridges \ {b} : bridges'[c].state \in {"connecting", "open"} =>
           c # manager.kept /\ bridges'[c] = bridges[c]
    BY DEF Connect, TypeOK
  <1> QED
    BY <1>r, <1>4, <1>5, <1>7, <1>8 DEF BridgesAreOwned

LEMMA OwnershipConnectFails ==
    ASSUME TypeOK, ManagerInv, BridgesAreOwned, NEW b \in Bridges, ConnectFails(b)
    PROVE  ManagerInv' /\ BridgesAreOwned'
  <1> USE BridgeAssumption
  <1>1. manager' = Unshared(b) /\ bridges' = bridges
    BY DEF ConnectFails
  <1>2. \A r \in Requests :
           /\ req'[r].generation = req[r].generation
           /\ req[r].pc = "connecting" /\ req[r].bridge # b => req'[r] = req[r]
           /\ req'[r].pc = "connecting" => req'[r] = req[r] /\ req[r].bridge # b
    BY EndedFacts DEF ConnectFails, NotDispatched, Awaiting
  <1>3. ManagerInv'
    BY <1>1, <1>2, UnsharedTypes DEF ManagerInv
  <1>4. BridgesAreOwned'
    BY <1>1, <1>2, UnsharedTypes DEF BridgesAreOwned, ConnectFails
  <1> QED
    BY <1>3, <1>4

LEMMA OwnershipConnected ==
    ASSUME TypeOK, ManagerInv, BridgesAreOwned, NEW b \in Bridges, Connected(b)
    PROVE  ManagerInv' /\ BridgesAreOwned'
  <1> USE BridgeAssumption
  <1>c. /\ \A r \in Requests : req[r] \in Calls
        /\ Unshared(b) \in [kept : Bridges \cup {None}, pairing : Keys \cup {None},
                url : Urls \cup {None}, connecting : Bridges \cup {None}, generation : Nat]
    BY UnsharedTypes DEF TypeOK
  <1>1. \A r \in Requests :
           /\ req'[r].generation = req[r].generation
           /\ req[r].pc = "connecting" /\ req[r].bridge # b => req'[r] = req[r]
           /\ req'[r].pc = "connecting" => req'[r] = req[r] /\ req[r].bridge # b
    <2>1. req' = [r \in Requests |->
                  CASE r \in Awaiting(b) /\ Outdated(r) -> NotDispatched(r)
                    [] r \in Awaiting(b) /\ ~Outdated(r) -> [req[r] EXCEPT !.pc = "check"]
                    [] OTHER -> req[r]]
      BY DEF Connected
    <2>2. \A r \in Requests : /\ [req[r] EXCEPT !.pc = "check"].pc = "check"
                              /\ [req[r] EXCEPT !.pc = "check"].generation = req[r].generation
      BY <1>c DEF Calls
    <2>3. \A r \in Requests : /\ NotDispatched(r).pc = "done"
                              /\ NotDispatched(r).generation = req[r].generation
      BY EndedFacts DEF NotDispatched
    <2>4. \A r \in Requests : r \in Awaiting(b) <=> req[r].pc = "connecting" /\ req[r].bridge = b
      BY DEF Awaiting
    <2> QED
      BY <2>1, <2>2, <2>3, <2>4
  <1>2. \A c \in Bridges \ {b} : bridges'[c] = bridges[c]
    BY DEF Connected, GiveUp, TypeOK
  <1>3. CASE manager' = Unshared(b) /\ \A r \in Awaiting(b) : Outdated(r)
    <2>1. bridges'[b].state = "closed"
      BY <1>3 DEF Connected, GiveUp, TypeOK
    <2>2. ManagerInv'
      BY <1>1, <1>3, UnsharedTypes DEF ManagerInv
    <2>3. BridgesAreOwned'
      BY <1>1, <1>2, <1>3, <2>1, UnsharedTypes DEF BridgesAreOwned
    <2> QED
      BY <2>2, <2>3
  <1>4. ASSUME NEW r \in Awaiting(b), ~Outdated(r),
               manager' = [Unshared(b) EXCEPT !.kept = b, !.pairing = req[r].pairing,
                                              !.url = req[r].url]
        PROVE  ManagerInv' /\ BridgesAreOwned'
    <2>1. manager.kept = None /\ manager.connecting = b
      BY <1>4 DEF ManagerInv, Awaiting, Outdated
    <2>2. /\ manager'.kept = b /\ manager'.connecting = None
          /\ manager'.generation = manager.generation
      BY <1>c, <1>4, <2>1, UnsharedTypes
    <2>3. ManagerInv'
      BY <1>1, <2>1, <2>2 DEF ManagerInv
    <2>4. BridgesAreOwned'
      BY <1>1, <1>2, <2>1, <2>2 DEF BridgesAreOwned
    <2> QED
      BY <2>3, <2>4
  <1> QED
    BY <1>3, <1>4 DEF Connected

LEMMA OwnershipStep ==
    ASSUME TypeOK, ManagerInv, BridgesAreOwned, [Next]_vars
    PROVE  ManagerInv' /\ BridgesAreOwned'
  <1>1. CASE UNCHANGED vars
    BY <1>1 DEF vars, ManagerInv, BridgesAreOwned
  <1>2. CASE Configure \/ \E s \in Sessions : Userscript(s)
    <2>1. UNCHANGED web
      <3>1. CASE Configure
        BY <3>1 DEF Configure
      <3>2. ASSUME NEW s \in Sessions, Userscript(s)
            PROVE  UNCHANGED web
        <4>1. ASSUME NEW k \in Keys, Start(s, k)
              PROVE  UNCHANGED web
          BY <4>1 DEF Start
        <4>2. ASSUME NEW b \in Bridges, SendHello(s, b)
              PROVE  UNCHANGED web
          BY <4>2 DEF SendHello
        <4>3. CASE PageHide(s)
          BY <4>3 DEF PageHide
        <4>4. ASSUME NEW r \in Requests,
                     Receive(s, r) \/ Token(s, r) \/ Complete(s, r) \/ RecordCancellation(s, r)
              PROVE  UNCHANGED web
          BY <4>4 DEF Receive, Token, Complete, RecordCancellation
        <4> QED
          BY <3>2, <4>1, <4>2, <4>3, <4>4 DEF Userscript
      <3> QED
        BY <1>2, <3>1, <3>2
    <2> QED
      BY <2>1 DEF web, ManagerInv, BridgesAreOwned
  <1>3. ASSUME NEW b \in Bridges, HandshakeFails(b) \/ \E s \in Sessions : Hello(b, s)
        PROVE  Steady
    BY <1>3 DEF HandshakeFails, Hello, Steady, TypeOK, ManagerInv
  <1>4. ASSUME NEW r \in Requests, Manager(r) \/ Bridge(r) \/ Abort(r)
        PROVE  ManagerInv' /\ BridgesAreOwned'
    BY <1>4, OwnershipRequests, OwnershipConnect
  <1>5. ASSUME NEW b \in Bridges, ConnectFails(b) \/ Connected(b)
        PROVE  ManagerInv' /\ BridgesAreOwned'
    BY <1>5, OwnershipConnectFails, OwnershipConnected
  <1> QED
    BY <1>1, <1>2, <1>3, <1>4, <1>5, SteadyStep, OwnershipInvalidate DEF Next

-----------------------------------------------------------------------------
(* What becomes of a request. *)

CallInv == RequestInv /\ ScriptInv /\ MemoryInv

\* A step of a request as AdapterCall allows it, once the invariant holds
\* after it: it settles, or it is made for the first time.
Once(r) ==
    \/ /\ started'[r] = started[r]
       /\ req'[r].outcome = req[r].outcome \/ req[r].outcome = "none"
    \/ started[r] = 0 /\ started'[r] = 1 /\ req'[r].outcome = req[r].outcome

Remembers ==
    \A s \in Sessions, r \in Requests :
        scripts[s].stage[r] = "cancelled" => scripts'[s].stage[r] = "cancelled"

Kept == CallInv' /\ Remembers /\ \A r \in Requests : Once(r)

\* A request moves on before it is sent, or is given up.
Moves(r) ==
    \/ req'[r].pc = req[r].pc /\ req'[r].outcome = req[r].outcome
    \/ /\ req[r].pc \in Unsent /\ req'[r].pc \in Unsent \cup {"pending"}
       /\ req'[r].outcome = req[r].outcome
    \/ /\ req[r].pc \in Unsent /\ req'[r].pc = "done"
       /\ req'[r].outcome \in {"notDispatched", "failed"}
    \/ req[r].pc = "pending" /\ req'[r].pc = "done" /\ req'[r].outcome = "failed"

\* The frames that an invariant speaks of.
SameFrames ==
    /\ \A r \in Requests, s \in Ends :
           RequestFrame("request", r, s) \in frames' <=> RequestFrame("request", r, s) \in frames
    /\ \A f \in frames' : f.kind = "response" => f \in frames \/ started[f.req] = 1

SameScripts ==
    \A s \in Sessions :
        scripts'[s].seen = scripts[s].seen /\ scripts'[s].stage = scripts[s].stage

LEMMA QuietStep ==
    ASSUME CallInv, \A r \in Requests : Moves(r), SameFrames, SameScripts, UNCHANGED started
    PROVE  Kept
  <1>1. Remembers
    BY DEF Remembers, SameScripts
  <1>2. \A r \in Requests : Once(r)
    BY DEF CallInv, RequestInv, Once, Moves, Unsent
  <1>3. RequestInv'
    BY DEF CallInv, RequestInv, Sent, Frame, Moves, SameFrames, Unsent
  <1>4. ScriptInv'
    BY DEF CallInv, ScriptInv, Frame, SameFrames, SameScripts, Ends
  <1>5. MemoryInv'
    BY DEF CallInv, MemoryInv, SameScripts
  <1> QED
    BY <1>1, <1>2, <1>3, <1>4, <1>5 DEF Kept, CallInv

LEMMA FrameFacts ==
    /\ \A k, l, r, q, s, t : RequestFrame(k, r, s) = RequestFrame(l, q, t) <=> k = l /\ r = q /\ s = t
    /\ \A k, r, s, b, t : k # "hello" =>
          RequestFrame(k, r, s) # [kind |-> "hello", bridge |-> b, session |-> t]
    /\ \A k, r, s : RequestFrame(k, r, s).kind = k /\ RequestFrame(k, r, s).req = r
  BY DEF RequestFrame

\* A single request's step before the request is sent.
LEMMA QuietRequest ==
    ASSUME TypeOK, CallInv, NEW r \in Requests, NEW at, Step(r, at), SameFrames, UNCHANGED page,
           \/ at.pc = req[r].pc /\ at.outcome = req[r].outcome
           \/ /\ req[r].pc \in Unsent /\ at.pc \in Unsent \cup {"pending"}
              /\ at.outcome = req[r].outcome
           \/ req[r].pc \in Unsent /\ at.pc = "done" /\ at.outcome \in {"notDispatched", "failed"}
           \/ req[r].pc = "pending" /\ at.pc = "done" /\ at.outcome = "failed"
    PROVE  Kept
  <1>1. \A q \in Requests : Moves(q)
    BY DEF Moves, Step, TypeOK
  <1> QED
    BY <1>1, QuietStep DEF SameScripts, page

\* The caller's side of a request, up to its being sent.
LEMMA CallerSteps ==
    ASSUME TypeOK, CallInv, NEW r \in Requests,
           \/ \E u \in Urls : Get(r, u)
           \/ SecretFails(r) \/ SecretOutdated(r) \/ Check(r) \/ DispatchFails(r) \/ TimesOut(r)
           \/ Abort(r)
           \/ \E k \in {req[r].pairing, settings.pairing} : UseKept(r, k) \/ ShareConnection(r, k)
    PROVE  Kept
  <1>c. req[r] \in Calls
    BY DEF TypeOK
  <1>e. \A o \in {"response", "failed", "notDispatched"} :
           Ended(r, o) \in Calls /\ Ended(r, o).pc = "done" /\ Ended(r, o).outcome = o
    BY CallTypes
  <1>f. UNCHANGED frames => SameFrames
    BY DEF SameFrames
  <1>1. ASSUME NEW u \in Urls, Get(r, u)
        PROVE  Kept
    <2> DEFINE at == [req[r] EXCEPT !.pc = "secret", !.url = u, !.pairing = settings.pairing,
                                    !.generation = manager.generation]
    <2>1. at.outcome = req[r].outcome /\ at.pc = "secret"
      BY <1>c DEF Calls
    <2>2. PICK x \in {at, NotDispatched(r)} : Step(r, x)
      BY <1>1 DEF Get
    <2>3. req[r].pc = "idle" /\ UNCHANGED page /\ UNCHANGED frames
      BY <1>1 DEF Get
    <2> HIDE DEF at
    <2> QED
      BY <1>e, <1>f, <2>1, <2>2, <2>3, QuietRequest DEF NotDispatched, Unsent
  <1>2. ASSUME SecretFails(r) \/ SecretOutdated(r) \/ DispatchFails(r)
        PROVE  Kept
    <2>1. PICK o \in {"failed", "notDispatched"} : Step(r, Ended(r, o))
      BY <1>2 DEF SecretFails, SecretOutdated, DispatchFails, NotDispatched
    <2>2. req[r].pc \in Unsent /\ UNCHANGED page /\ UNCHANGED frames
      BY <1>2 DEF SecretFails, SecretOutdated, DispatchFails, Unsent
    <2> QED
      BY <1>e, <1>f, <2>1, <2>2, QuietRequest
  <1>3. ASSUME TimesOut(r)
        PROVE  Kept
    BY <1>3, <1>e, <1>f, QuietRequest DEF TimesOut
  <1>4. ASSUME Check(r)
        PROVE  Kept
    <2>1. PICK x \in {NotDispatched(r), [req[r] EXCEPT !.pc = "encoding"]} : Step(r, x)
      BY <1>4 DEF Check
    <2>2. /\ [req[r] EXCEPT !.pc = "encoding"].pc = "encoding"
          /\ [req[r] EXCEPT !.pc = "encoding"].outcome = req[r].outcome
      BY <1>c DEF Calls
    <2>3. req[r].pc = "check" /\ UNCHANGED page /\ UNCHANGED frames
      BY <1>4 DEF Check
    <2> QED
      BY <1>e, <1>f, <2>1, <2>2, <2>3, QuietRequest DEF NotDispatched, Unsent
  <1>5. ASSUME Abort(r)
        PROVE  Kept
    <2>1. SameFrames /\ UNCHANGED page
      BY <1>5, FrameFacts DEF Abort, SameFrames
    <2>2. /\ [Ended(r, "failed") EXCEPT !.aborted = TRUE].pc = "done"
          /\ [Ended(r, "failed") EXCEPT !.aborted = TRUE].outcome = "failed"
          /\ [req[r] EXCEPT !.aborted = TRUE].pc = req[r].pc
          /\ [req[r] EXCEPT !.aborted = TRUE].outcome = req[r].outcome
      BY <1>c, <1>e DEF Calls
    <2>3. CASE req[r].pc = "pending"
      BY <1>5, <2>1, <2>2, <2>3, QuietRequest DEF Abort
    <2>4. CASE req[r].pc # "pending"
      BY <1>5, <2>1, <2>2, <2>4, QuietRequest DEF Abort
    <2> QED
      BY <2>3, <2>4
  <1>6. ASSUME NEW k \in {req[r].pairing, settings.pairing}, UseKept(r, k) \/ ShareConnection(r, k)
        PROVE  Kept
    <2>1. /\ [req[r] EXCEPT !.pc = "check", !.bridge = manager.kept].pc = "check"
          /\ [req[r] EXCEPT !.pc = "check", !.bridge = manager.kept].outcome = req[r].outcome
      BY <1>c DEF Calls
    <2>2. /\ Connecting(r, manager.connecting, k, manager.generation).pc = "connecting"
          /\ Connecting(r, manager.connecting, k, manager.generation).outcome = req[r].outcome
      BY <1>c DEF Calls, Connecting
    <2>3. PICK x \in {[req[r] EXCEPT !.pc = "check", !.bridge = manager.kept],
                      Connecting(r, manager.connecting, k, manager.generation)} : Step(r, x)
      BY <1>6 DEF UseKept, ShareConnection
    <2>4. req[r].pc = "secret" /\ UNCHANGED page /\ UNCHANGED frames
      BY <1>6 DEF UseKept, ShareConnection
    <2> QED
      BY <1>f, <2>1, <2>2, <2>3, <2>4, QuietRequest DEF Unsent
  <1> QED
    BY <1>1, <1>2, <1>3, <1>4, <1>5, <1>6

\* The manager's side, of which several requests may hear.
LEMMA ManagerSteps ==
    ASSUME TypeOK, CallInv,
           \/ Configure \/ Invalidate
           \/ \E r \in Requests, b \in Bridges :
                 \E k \in {req[r].pairing, settings.pairing} : Connect(r, k, b)
           \/ \E b \in Bridges :
                 ConnectFails(b) \/ Connected(b) \/ HandshakeFails(b) \/ \E s \in Sessions : Hello(b, s)
    PROVE  Kept
  <1>c. \A r \in Requests : req[r] \in Calls
    BY DEF TypeOK
  <1>e. \A r \in Requests : NotDispatched(r).pc = "done" /\ NotDispatched(r).outcome = "notDispatched"
    BY EndedFacts DEF NotDispatched
  <1>f. UNCHANGED frames => SameFrames
    BY DEF SameFrames
  <1>p. UNCHANGED page => SameScripts /\ UNCHANGED started
    BY DEF page, SameScripts
  <1>1. ASSUME Configure \/ \E b \in Bridges : HandshakeFails(b) \/ \E s \in Sessions : Hello(b, s)
        PROVE  Kept
    <2>1. UNCHANGED <<req, frames, page>>
      BY <1>1 DEF Configure, HandshakeFails, Hello, web
    <2>2. \A r \in Requests : Moves(r)
      BY <2>1 DEF Moves
    <2> QED
      BY <1>f, <1>p, <2>1, <2>2, QuietStep
  <1>2. ASSUME Invalidate
        PROVE  Kept
    <2>1. \A r \in Requests : Moves(r)
      BY <1>2, EndedFacts DEF Invalidate, Dispose, PendingOn, Moves
    <2> QED
      BY <1>2, <1>f, <1>p, <2>1, QuietStep DEF Invalidate
  <1>3. ASSUME NEW r \in Requests, NEW b \in Bridges,
               NEW k \in {req[r].pairing, settings.pairing}, Connect(r, k, b)
        PROVE  Kept
    <2>1. PICK g : req' = [q \in Requests |->
                        CASE q = r -> Connecting(r, b, k, g)
                          [] q # r /\ q \in PendingOn(manager.kept) -> Ended(q, "failed")
                          [] OTHER -> req[q]]
      BY <1>3 DEF Connect
    <2>2. /\ Connecting(r, b, k, g).pc = "connecting"
          /\ Connecting(r, b, k, g).outcome = req[r].outcome
      BY <1>c DEF Calls, Connecting
    <2>3. req[r].pc = "secret"
      BY <1>3 DEF Connect
    <2>4. Moves(r)
      BY <2>1, <2>2, <2>3 DEF Moves, Unsent
    <2>5. \A q \in Requests \ {r} : Moves(q)
      BY <2>1, EndedFacts DEF Moves, PendingOn
    <2>6. SameFrames
      BY <1>3, FrameFacts DEF Connect, SameFrames
    <2>7. UNCHANGED page
      BY <1>3 DEF Connect
    <2> QED
      BY <1>p, <2>4, <2>5, <2>6, <2>7, QuietStep
  <1>4. ASSUME NEW b \in Bridges, ConnectFails(b)
        PROVE  Kept
    <2>1. \A r \in Requests : Moves(r)
      BY <1>4, <1>e DEF ConnectFails, Awaiting, Moves, Unsent
    <2> QED
      BY <1>4, <1>f, <1>p, <2>1, QuietStep DEF ConnectFails
  <1>5. ASSUME NEW b \in Bridges, Connected(b)
        PROVE  Kept
    <2>1. req' = [r \in Requests |->
                  CASE r \in Awaiting(b) /\ Outdated(r) -> NotDispatched(r)
                    [] r \in Awaiting(b) /\ ~Outdated(r) -> [req[r] EXCEPT !.pc = "check"]
                    [] OTHER -> req[r]]
      BY <1>5 DEF Connected
    <2>2. \A r \in Requests : /\ [req[r] EXCEPT !.pc = "check"].pc = "check"
                              /\ [req[r] EXCEPT !.pc = "check"].outcome = req[r].outcome
      BY <1>c DEF Calls
    <2>3. \A r \in Requests : r \in Awaiting(b) => req[r].pc = "connecting"
      BY DEF Awaiting
    <2>4. \A r \in Requests : Moves(r)
      BY <1>e, <2>1, <2>2, <2>3 DEF Moves, Unsent
    <2> QED
      BY <1>5, <1>f, <1>p, <2>4, QuietStep DEF Connected
  <1> QED
    BY <1>1, <1>2, <1>3, <1>4, <1>5

\* The request is sent: to one session, which had not been sent it before.
LEMMA DispatchStep ==
    ASSUME TypeOK, CallInv, NEW r \in Requests, Dispatch(r)
    PROVE  Kept
  <1>c. req[r] \in Calls /\ req[r].pc = "encoding"
    BY DEF TypeOK, Dispatch
  <1>p. UNCHANGED page
    BY DEF Dispatch
  <1>1. CASE Step(r, NotDispatched(r)) /\ UNCHANGED frames
    <2>1. NotDispatched(r).pc = "done" /\ NotDispatched(r).outcome = "notDispatched"
      BY EndedFacts DEF NotDispatched
    <2>2. SameFrames
      BY <1>1 DEF SameFrames
    <2> QED
      BY <1>1, <1>c, <1>p, <2>1, <2>2, QuietRequest DEF Unsent
  <1>2. ASSUME NEW t, Step(r, [req[r] EXCEPT !.pc = "pending"]),
               frames' = frames \cup {RequestFrame("request", r, t)}
        PROVE  Kept
    <2>1. /\ req'[r].pc = "pending" /\ req'[r].outcome = req[r].outcome
          /\ \A q \in Requests \ {r} : req'[q] = req[q]
      BY <1>2, <1>c DEF Step, TypeOK, Calls
    <2>2. \A s \in Ends : ~Frame("request", r, s)
      BY <1>c DEF CallInv, RequestInv, Sent
    <2>3. started[r] = 0
      BY <2>2 DEF CallInv, RequestInv, Sent
    <2>4. \A q \in Requests, s \in Ends :
             RequestFrame("request", q, s) \in frames' <=>
                 RequestFrame("request", q, s) \in frames \/ (q = r /\ s = t)
      BY <1>2, FrameFacts
    <2>5. \A f \in frames' : f.kind = "response" => f \in frames
      BY <1>2, FrameFacts
    <2>6. scripts' = scripts /\ started' = started
      BY <1>p DEF page
    <2>7. RequestInv'
      BY <1>c, <2>1, <2>2, <2>3, <2>4, <2>5, <2>6 DEF CallInv, RequestInv, Sent, Frame
    <2>8. ScriptInv'
      BY <2>3, <2>4, <2>6 DEF CallInv, ScriptInv, Frame, Ends
    <2>9. MemoryInv'
      BY <2>6 DEF CallInv, MemoryInv
    <2>10. Remembers /\ \A q \in Requests : Once(q)
      BY <2>1, <2>6 DEF Remembers, Once
    <2> QED
      BY <2>7, <2>8, <2>9, <2>10 DEF Kept, CallInv
  <1> QED
    BY <1>1, <1>2 DEF Dispatch

\* A response that was sent settles the request.
LEMMA AnsweredStep ==
    ASSUME TypeOK, CallInv, NEW r \in Requests, Answered(r)
    PROVE  Kept
  <1>1. PICK o \in {"response", "failed"} : Step(r, Ended(r, o)) /\
             (o = "response" =>
                 RequestFrame("response", r, bridges[req[r].bridge].session) \in frames)
    BY DEF Answered, Decoded
  <1>2. /\ req'[r].pc = "done" /\ req'[r].outcome = o
        /\ \A q \in Requests \ {r} : req'[q] = req[q]
    BY <1>1, EndedFacts DEF Step, TypeOK
  <1>3. req[r].pc = "pending" /\ scripts' = scripts /\ started' = started /\ frames' = frames
    BY DEF Answered, page
  <1>4. o = "response" => started[r] = 1
    BY <1>1, FrameFacts DEF CallInv, RequestInv
  <1>5. RequestInv'
    BY <1>2, <1>3, <1>4 DEF CallInv, RequestInv, Sent, Frame
  <1>6. ScriptInv' /\ MemoryInv'
    BY <1>3 DEF CallInv, ScriptInv, MemoryInv, Frame
  <1>7. Remembers /\ \A q \in Requests : Once(q)
    BY <1>2, <1>3 DEF Remembers, Once, CallInv, RequestInv
  <1> QED
    BY <1>5, <1>6, <1>7 DEF Kept, CallInv

-----------------------------------------------------------------------------
(* The userscript. *)

LEMMA MoreSeen ==
    ASSUME NEW S, IsFiniteSet(S), NEW x
    PROVE  /\ IsFiniteSet(S \cup {x})
           /\ Cardinality(S) \in Nat /\ Cardinality(S \cup {x}) \in Nat
           /\ Cardinality(S) <= Cardinality(S \cup {x})
  <1>1. Cardinality(S) \in Nat
    BY FS_CardinalityType
  <1>2. IsFiniteSet(S \cup {x})
    BY FS_AddElement
  <1>3. Cardinality(S \cup {x}) = IF x \in S THEN Cardinality(S) ELSE Cardinality(S) + 1
    BY FS_AddElement
  <1> QED
    BY <1>1, <1>2, <1>3

\* A session remembers sn and stands at st with a request; nothing else changes.
Goes(s, r, sn, st) ==
    /\ scripts'[s].seen = sn
    /\ scripts'[s].stage[r] = st
    /\ \A q \in Requests \ {r} : scripts'[s].stage[q] = scripts[s].stage[q]
    /\ \A t \in Sessions \ {s} : scripts'[t] = scripts[t]

\* A session goes on with a request, which is not made by that.
LEMMA StageStep ==
    ASSUME TypeOK, CallInv, NEW s \in Sessions, NEW r \in Requests, NEW sn, NEW st,
           Goes(s, r, sn, st),
           sn \in {scripts[s].seen, scripts[s].seen \cup {r}},
           SameFrames, UNCHANGED <<req, started>>,
           st = "token" => Frame("request", r, s) /\ started[r] = 0 /\ r \in sn,
           st = "active" => started[r] = 1,
           st = "cancelled" => r \in sn \/ Cardinality(sn) >= MaxSeen,
           scripts[s].stage[r] = "cancelled" => st = "cancelled"
    PROVE  Kept
  <1> USE BridgeAssumption
  <1>2. /\ scripts'[s].seen = sn
        /\ scripts'[s].stage[r] = st
        /\ \A q \in Requests \ {r} : scripts'[s].stage[q] = scripts[s].stage[q]
        /\ \A t \in Sessions \ {s} : scripts'[t] = scripts[t]
    BY DEF Goes
  <1>3. \A q \in Requests : Moves(q) /\ Once(q)
    BY DEF Moves, Once
  <1>4. RequestInv'
    BY DEF CallInv, RequestInv, Sent, Frame, SameFrames
  <1>5. ScriptInv'
    <2>1. \A t \in Sessions, q \in Requests : Frame("request", q, t)' <=> Frame("request", q, t)
      BY DEF SameFrames, Ends, Frame
    <2>2. scripts[s].seen \subseteq sn
      OBVIOUS
    <2>3. ASSUME NEW t \in Sessions, NEW q \in Requests
          PROVE  /\ Frame("request", q, t) /\ q \notin scripts'[t].seen => started[q] = 0
                 /\ scripts'[t].stage[q] = "token" =>
                       Frame("request", q, t) /\ started[q] = 0 /\ q \in scripts'[t].seen
                 /\ scripts'[t].stage[q] = "active" => started[q] = 1
      <3>1. CASE t = s /\ q = r
        BY <1>2, <2>2, <3>1 DEF CallInv, ScriptInv
      <3>2. CASE t = s /\ q # r
        BY <1>2, <2>2, <3>2 DEF CallInv, ScriptInv
      <3>3. CASE t # s
        <4>1. scripts'[t] = scripts[t]
          BY <1>2, <3>3
        <4>2. /\ Frame("request", q, t) /\ q \notin scripts[t].seen => started[q] = 0
              /\ scripts[t].stage[q] = "token" =>
                    Frame("request", q, t) /\ started[q] = 0 /\ q \in scripts[t].seen
              /\ scripts[t].stage[q] = "active" => started[q] = 1
          BY DEF CallInv, ScriptInv
        <4> QED
          BY <4>1, <4>2
      <3> QED
        BY <3>1, <3>2, <3>3
    <2> QED
      BY <2>1, <2>3 DEF ScriptInv
  <1>6. MemoryInv'
    <2>1. /\ IsFiniteSet(scripts[s].seen) /\ IsFiniteSet(sn)
          /\ Cardinality(scripts[s].seen) \in Nat /\ Cardinality(sn) \in Nat
          /\ Cardinality(scripts[s].seen) <= Cardinality(sn)
      <3>1. IsFiniteSet(scripts[s].seen)
        BY DEF CallInv, MemoryInv
      <3> QED
        <4>1. /\ IsFiniteSet(scripts[s].seen \cup {r})
              /\ Cardinality(scripts[s].seen) \in Nat
              /\ Cardinality(scripts[s].seen \cup {r}) \in Nat
              /\ Cardinality(scripts[s].seen) <= Cardinality(scripts[s].seen \cup {r})
          BY <3>1, MoreSeen
        <4>2. CASE sn = scripts[s].seen
          BY <3>1, <4>1, <4>2
        <4>3. CASE sn = scripts[s].seen \cup {r}
          BY <3>1, <4>1, <4>3
        <4> QED
          BY <4>2, <4>3
    <2>2. \A q \in Requests : scripts'[s].stage[q] = "cancelled" =>
             q \in sn \/ Cardinality(sn) >= MaxSeen
      BY <1>2, <2>1 DEF CallInv, MemoryInv
    <2> QED
      BY <1>2, <2>1, <2>2 DEF CallInv, MemoryInv
  <1>7. Remembers
    BY <1>2 DEF Remembers
  <1> QED
    BY <1>3, <1>4, <1>5, <1>6, <1>7 DEF Kept, CallInv

\* The request is made, by the session that was sent it and for the first time.
LEMMA MadeStep ==
    ASSUME TypeOK, CallInv, NEW s \in Sessions, NEW r \in Requests,
           scripts[s].stage[r] = "token",
           scripts' = [scripts EXCEPT ![s].stage[r] = "active"],
           started' = [started EXCEPT ![r] = @ + 1], UNCHANGED <<req, frames>>
    PROVE  Kept
  <1>1. scripts \in [Sessions -> Scripts] /\ scripts[s] \in Scripts /\ started \in [Requests -> Nat]
    BY DEF TypeOK
  <1>2. /\ scripts'[s].seen = scripts[s].seen
        /\ scripts'[s].stage[r] = "active"
        /\ \A q \in Requests \ {r} : scripts'[s].stage[q] = scripts[s].stage[q]
        /\ \A t \in Sessions \ {s} : scripts'[t] = scripts[t]
    BY <1>1 DEF Scripts
  <1>3. Frame("request", r, s) /\ started[r] = 0 /\ r \in scripts[s].seen
    BY DEF CallInv, ScriptInv
  <1>4. started'[r] = 1 /\ \A q \in Requests \ {r} : started'[q] = started[q]
    BY <1>1, <1>3
  <1>5. \A t \in Sessions \ {s} : ~Frame("request", r, t)
    BY <1>3 DEF CallInv, RequestInv, Ends
  <1>6. RequestInv'
    BY <1>3, <1>4 DEF CallInv, RequestInv, Sent, Frame, Ends
  <1>7. ScriptInv'
    BY <1>2, <1>3, <1>4, <1>5 DEF CallInv, ScriptInv, Frame
  <1>8. MemoryInv'
    BY <1>2 DEF CallInv, MemoryInv
  <1>9. Remembers /\ \A q \in Requests : Once(q)
    BY <1>2, <1>3, <1>4 DEF Remembers, Once
  <1> QED
    BY <1>6, <1>7, <1>8, <1>9 DEF Kept, CallInv

LEMMA UserscriptSteps ==
    ASSUME TypeOK, CallInv, NEW s \in Sessions, Userscript(s)
    PROVE  Kept
  <1> USE BridgeAssumption
  <1>s. scripts \in [Sessions -> Scripts] /\ scripts[s] \in Scripts
    BY DEF TypeOK
  <1>m. \A q \in Requests : UNCHANGED req => Moves(q)
    BY DEF Moves
  <1>f. UNCHANGED frames => SameFrames
    BY DEF SameFrames
  <1>g. \A q : Fail(s, q) => SameFrames
    BY FrameFacts DEF Fail, SameFrames
  <1>1. ASSUME (\E k \in Keys : Start(s, k)) \/ PageHide(s) \/ \E b \in Bridges : SendHello(s, b)
        PROVE  Kept
    <2>1. SameScripts
      BY <1>1, <1>s DEF Start, PageHide, SendHello, SameScripts, Scripts, page
    <2>2. SameFrames
      BY <1>1, FrameFacts DEF Start, PageHide, SendHello, SameFrames
    <2>3. UNCHANGED <<req, started>>
      BY <1>1 DEF Start, PageHide, SendHello, web, page
    <2> QED
      BY <1>m, <2>1, <2>2, <2>3, QuietStep
  <1>2. ASSUME NEW r \in Requests, Receive(s, r)
        PROVE  Kept
    <2>1. UNCHANGED <<req, started>>
      BY <1>2 DEF Receive, web
    <2>2. Frame("request", r, s) /\ r \notin scripts[s].seen /\ started[r] = 0
      BY <1>2 DEF Receive, Frame, CallInv, ScriptInv
    <2>3. CASE Full(s)
      <3>1. Fail(s, r) /\ UNCHANGED scripts
        BY <1>2, <2>3 DEF Receive
      <3>2. SameScripts
        BY <3>1 DEF SameScripts
      <3> QED
        BY <1>g, <1>m, <2>1, <3>1, <3>2, QuietStep
    <2>4. ASSUME ~Full(s), NEW st \in {"over", "token"}, Takes(s, r, st), SameFrames
          PROVE  Kept
      <3>1. scripts[s].stage[r] # "cancelled"
        BY <2>2, <2>4 DEF Full, CallInv, MemoryInv
      <3>2. Goes(s, r, scripts[s].seen \cup {r}, st)
        BY <1>s, <2>4 DEF Takes, Goes, Scripts
      <3> QED
        BY <2>1, <2>2, <2>4, <3>1, <3>2, StageStep
    <2> QED
      BY <1>2, <1>f, <1>g, <2>3, <2>4 DEF Receive, NotAllowed
  <1>3. ASSUME NEW r \in Requests, Token(s, r)
        PROVE  Kept
    <2>1. UNCHANGED req /\ scripts[s].stage[r] = "token"
      BY <1>3 DEF Token, web
    <2>2. CASE scripts' = [scripts EXCEPT ![s].stage[r] = "active"] /\
               started' = [started EXCEPT ![r] = @ + 1] /\ UNCHANGED frames
      BY <2>1, <2>2, MadeStep
    <2>3. CASE scripts' = [scripts EXCEPT ![s].stage[r] = "over"] /\ Fail(s, r) /\ UNCHANGED started
      <3>1. Goes(s, r, scripts[s].seen, "over")
        BY <1>s, <2>3 DEF Goes, Scripts
      <3> QED
        BY <1>g, <2>1, <2>3, <3>1, StageStep
    <2> QED
      BY <1>3, <2>2, <2>3 DEF Token
  <1>4. ASSUME NEW r \in Requests, Complete(s, r)
        PROVE  Kept
    <2>1. UNCHANGED <<req, started>> /\ scripts[s].stage[r] = "active" /\ started[r] = 1
      BY <1>4 DEF Complete, web, CallInv, ScriptInv
    <2>2. SameFrames
      BY <1>4, <2>1, FrameFacts DEF Complete, SameFrames
    <2>3. Goes(s, r, scripts[s].seen, "over")
      BY <1>4, <1>s DEF Complete, Goes, Scripts
    <2> QED
      BY <2>1, <2>2, <2>3, StageStep
  <1>5. ASSUME NEW r \in Requests, RecordCancellation(s, r)
        PROVE  Kept
    <2> DEFINE sn == IF Cardinality(scripts[s].seen) < MaxSeen
                     THEN scripts[s].seen \cup {r} ELSE scripts[s].seen
               st == CASE scripts[s].stage[r] = "active" -> "over"
                       [] scripts[s].stage[r] = "none" -> "cancelled"
                       [] OTHER -> scripts[s].stage[r]
    <2>1. scripts' = [scripts EXCEPT ![s].seen = sn, ![s].stage[r] = st]
      BY <1>5 DEF RecordCancellation
    <2>2. UNCHANGED <<req, started>> /\ SameFrames
      BY <1>5, <1>f, <1>g DEF RecordCancellation, web
    <2>3. Cardinality(scripts[s].seen) \in Nat
      BY FS_CardinalityType DEF CallInv, MemoryInv
    <2>4. r \in sn \/ Cardinality(sn) >= MaxSeen
      BY <2>3
    <2>5. st = "token" => Frame("request", r, s) /\ started[r] = 0 /\ r \in sn
      BY DEF CallInv, ScriptInv
    <2>6. st = "active" => started[r] = 1
      BY DEF CallInv, ScriptInv
    <2>7. scripts[s].stage[r] = "cancelled" => st = "cancelled"
      OBVIOUS
    <2>8. sn \in {scripts[s].seen, scripts[s].seen \cup {r}}
      OBVIOUS
    <2> HIDE DEF sn, st
    <2>9. Goes(s, r, sn, st)
      BY <1>s, <2>1 DEF Goes, Scripts
    <2> QED
      BY <2>2, <2>4, <2>5, <2>6, <2>7, <2>8, <2>9, StageStep
  <1> QED
    BY <1>1, <1>2, <1>3, <1>4, <1>5 DEF Userscript

LEMMA CallStep ==
    ASSUME TypeOK, CallInv, [Next]_vars
    PROVE  Kept
  <1>1. CASE UNCHANGED vars
    BY <1>1, QuietStep DEF vars, Moves, SameFrames, SameScripts
  <1>2. ASSUME NEW r \in Requests, Manager(r) \/ Bridge(r) \/ Abort(r)
        PROVE  Kept
    BY <1>2, CallerSteps, ManagerSteps, DispatchStep, AnsweredStep DEF Manager, Bridge
  <1>3. ASSUME \/ Configure \/ Invalidate
               \/ \E b \in Bridges :
                     ConnectFails(b) \/ Connected(b) \/ HandshakeFails(b)
                     \/ \E s \in Sessions : Hello(b, s)
        PROVE  Kept
    BY <1>3, ManagerSteps
  <1> QED
    BY <1>1, <1>2, <1>3, UserscriptSteps DEF Next

-----------------------------------------------------------------------------
(* The theorems. *)

\* The inductive invariant: what each session was sent and did with a request,
\* what its outcome claims, and who may still use which bridge.
THEOREM BridgeInvariant == Spec => []GInv
  <1>1. GInv /\ [Next]_vars => GInv'
    BY TypeStep, OwnershipStep, CallStep DEF GInv, Kept, CallInv
  <1> QED
    BY <1>1, BridgeInit, PTL DEF Spec

\* The types of the state, whatever is sent, repeated or withheld.
THEOREM BridgeTypeCorrect == Spec => []TypeOK
  <1>1. GInv => TypeOK
    BY DEF GInv
  <1> QED
    BY <1>1, BridgeInvariant, PTL

\* A request is made at most once, however often its frame is repeated and
\* however many userscripts share the key.
THEOREM RequestsStartOnce == Spec => []StartedOnce
  <1>1. GInv => StartedOnce
    BY DEF GInv, RequestInv, StartedOnce
  <1> QED
    BY <1>1, BridgeInvariant, PTL

\* No bridge stays open that the manager does not keep and nobody awaits.
THEOREM NoBridgeIsLeftOpen == Spec => []BridgesAreOwned
  <1>1. GInv => BridgesAreOwned
    BY DEF GInv
  <1> QED
    BY <1>1, BridgeInvariant, PTL

\* What arrived cancelled is never made.
THEOREM CancellationsAreRemembered == Spec => CancelledStaysCancelled
  <1>1. GInv /\ [Next]_vars => Remembers
    BY CallStep DEF GInv, CallInv, Kept
  <1>2. GInv /\ [Next]_vars =>
           [\A s \in Sessions, r \in Requests :
              scripts[s].stage[r] = "cancelled" => scripts'[s].stage[r] = "cancelled"]_vars
    BY <1>1 DEF Remembers
  <1> QED
    BY <1>2, BridgeInvariant, PTL DEF Spec, CancelledStaysCancelled

\* What RemotishWorkspace may conclude from the outcome of a request holds:
\* a response comes after it was made, GitHttpNotDispatchedError when it never
\* will be.
THEOREM BridgeImplementsCall == Spec => ImplementsCall
  <1>1. Init => \A r \in Requests : CallOf(r)!Init
    BY DEF Init, CallOf!Init, Outcome
  <1>2. ASSUME GInv, [Next]_vars, NEW r \in Requests
        PROVE  [CallOf(r)!Next]_(CallOf(r)!vars)
    <2>1. Once(r) /\ RequestInv' /\ TypeOK'
      BY <1>2, CallStep, TypeStep DEF GInv, CallInv, Kept
    <2>2. /\ req[r].outcome \in {"none", "response", "failed", "notDispatched"}
          /\ req'[r].outcome \in {"none", "response", "failed", "notDispatched"}
      BY <1>2, <2>1 DEF GInv, TypeOK, Calls
    <2>3. /\ started[r] \in {0, 1} /\ started'[r] \in {0, 1}
          /\ req[r].outcome = "response" => started[r] = 1
          /\ req'[r].outcome = "response" => started'[r] = 1
          /\ req'[r].outcome = "notDispatched" => started'[r] = 0
      BY <1>2, <2>1 DEF GInv, RequestInv
    <2>4. CASE /\ started'[r] = started[r]
               /\ req'[r].outcome = req[r].outcome \/ req[r].outcome = "none"
      BY <2>2, <2>3, <2>4 DEF CallOf!Next, CallOf!Answer, CallOf!Outcomes, CallOf!vars, Outcome
    <2>5. CASE started[r] = 0 /\ started'[r] = 1 /\ req'[r].outcome = req[r].outcome
      BY <2>2, <2>3, <2>5 DEF CallOf!Next, CallOf!Apply, CallOf!vars, Outcome
    <2> QED
      BY <2>1, <2>4, <2>5 DEF Once
  <1>3. GInv /\ [Next]_vars => [\A r \in Requests : [CallOf(r)!Next]_(CallOf(r)!vars)]_vars
    BY <1>2
  <1> QED
    BY <1>1, <1>3, BridgeInvariant, PTL DEF Spec, ImplementsCall
=============================================================================
