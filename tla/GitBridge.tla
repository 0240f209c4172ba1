----------------------------- MODULE GitBridge ------------------------------
(***************************************************************************)
(* How the Git HTTP adapter reaches a server from a web window             *)
(* (src/extensions/git-http-provider): GitHttpBridgeManager keeps one      *)
(* GitHttpWebBridge to a userscript of the same page, which makes the      *)
(* requests.  Frames go over a BroadcastChannel on which page scripts may  *)
(* repeat or withhold them; they are decrypted asynchronously, so in any   *)
(* order.  Settings and secrets are shared with other windows.             *)
(***************************************************************************)
EXTENDS Naturals, FiniteSets

CONSTANTS
    Requests, Urls, Keys, \* requests of adapters, clone URLs, pairing keys
    Bridges, Sessions,    \* instances of GitHttpWebBridge and UserscriptBridge
    None,
    MaxPending, MaxActive, MaxSeen,
    MaxChanges            \* bounds changes of the settings and invalidations

ASSUME BridgeAssumption ==
    /\ None \notin Bridges \cup Sessions \cup Urls \cup Keys
    /\ MaxPending \in Nat /\ MaxActive \in Nat /\ MaxSeen \in Nat
    /\ MaxChanges \in Nat

VARIABLES
    settings, \* url and pairing, and how often they were changed
    manager,  \* GitHttpBridgeManager
    bridges,  \* state, key and session of each bridge
    req,      \* where a request stands and what it holds across awaits
    scripts,  \* the userscript sessions
    frames,   \* frames ever sent
    started   \* how often a request was made at the server

vars == <<settings, manager, bridges, req, scripts, frames, started>>
web == <<manager, bridges, req>>
page == <<scripts, started>>

\* Where a session stands with a request: "cancelled" when the cancellation came first.
Stages == {"none", "cancelled", "token", "active", "over"}

Init ==
    /\ settings \in [url : Urls, pairing : Keys, changes : {0}]
    /\ manager = [kept |-> None, pairing |-> None, url |-> None,
                  connecting |-> None, generation |-> 0]
    /\ bridges = [b \in Bridges |-> [state |-> "unused", key |-> None, session |-> None]]
    /\ req = [r \in Requests |->
                 [pc |-> "idle", url |-> None, pairing |-> None, generation |-> 0,
                  bridge |-> None, aborted |-> FALSE, outcome |-> "none"]]
    /\ scripts = [s \in Sessions |->
                     [state |-> "unstarted", key |-> None, seen |-> {},
                      stage |-> [r \in Requests |-> "none"]]]
    /\ frames = {}
    /\ started = [r \in Requests |-> 0]

-----------------------------------------------------------------------------
(* The manager. *)

Ended(r, o) == [req[r] EXCEPT !.pc = "done", !.outcome = o, !.bridge = None]
NotDispatched(r) == Ended(r, "notDispatched")
PendingOn(b) == {r \in Requests : req[r].pc = "pending" /\ req[r].bridge = b}

\* dispose: the bridge is closed and its pending requests fail.
Dispose(b) ==
    /\ bridges' = IF b = None THEN bridges ELSE [bridges EXCEPT ![b].state = "closed"]
    /\ req' = [r \in Requests |-> IF r \in PendingOn(b) THEN Ended(r, "failed") ELSE req[r]]

Step(r, at) == req' = [req EXCEPT ![r] = at]

Invalidated == [kept |-> None, pairing |-> None, url |-> None, connecting |-> None,
                generation |-> manager.generation + 1]

\* configure ends with it, and so does the extension.
Invalidate ==
    /\ manager.generation < MaxChanges
    /\ manager' = Invalidated
    /\ Dispose(manager.kept)
    /\ UNCHANGED <<settings, frames, page>>

\* configure stores one setting after the other; so do other windows, which
\* invalidate nothing here.
Configure ==
    /\ settings.changes < MaxChanges
    /\ settings' \in [url : Urls, pairing : Keys, changes : {settings.changes + 1}]
    /\ UNCHANGED <<web, frames, page>>

Get(r, u) ==
    /\ req[r].pc = "idle"
    /\ Step(r, IF settings.url # u THEN NotDispatched(r)
               ELSE [req[r] EXCEPT !.pc = "secret", !.url = u,
                         !.pairing = settings.pairing,
                         !.generation = manager.generation])
    /\ UNCHANGED <<settings, manager, bridges, frames, page>>

\* secrets.get rejects, or there is no pairing key.
SecretFails(r) ==
    /\ req[r].pc = "secret"
    /\ \E o \in {"failed", "notDispatched"} : Step(r, Ended(r, o))
    /\ UNCHANGED <<settings, manager, bridges, frames, page>>

\* The configuration changed while get or connect awaited something.
Outdated(r) ==
    req[r].generation # manager.generation \/ settings.url # req[r].url

SecretOutdated(r) ==
    /\ req[r].pc = "secret" /\ Outdated(r)
    /\ Step(r, NotDispatched(r))
    /\ UNCHANGED <<settings, manager, bridges, frames, page>>

\* The kept bridge, when it was made for the pairing key that was read.
UseKept(r, pairing) ==
    /\ req[r].pc = "secret" /\ ~Outdated(r)
    /\ manager.kept # None
    /\ manager.pairing = pairing /\ manager.url = req[r].url
    /\ Step(r, [req[r] EXCEPT !.pc = "check", !.bridge = manager.kept])
    /\ UNCHANGED <<settings, manager, bridges, frames, page>>

\* A bridge that nobody refers to any more has its place taken by a new one.
Free == {b \in Bridges :
            /\ bridges[b].state \in {"unused", "closed", "failed"}
            /\ b \notin {manager.kept, manager.connecting}
            /\ \A r \in Requests : req[r].bridge # b}

Connecting(r, b, pairing, generation) ==
    [req[r] EXCEPT !.pc = "connecting", !.bridge = b, !.pairing = pairing,
                   !.generation = generation]

\* connect: another caller's attempt is shared.
ShareConnection(r, pairing) ==
    /\ req[r].pc = "secret" /\ ~Outdated(r)
    /\ manager.kept = None /\ manager.connecting # None
    /\ Step(r, Connecting(r, manager.connecting, pairing, manager.generation))
    /\ UNCHANGED <<settings, manager, bridges, frames, page>>

\* connect: a bridge for another key or URL is given up, and a new one made.
Connect(r, pairing, b) ==
    /\ req[r].pc = "secret" /\ ~Outdated(r) /\ b \in Free
    /\ IF manager.kept = None THEN manager.connecting = None
       ELSE manager.pairing # pairing \/ manager.url # req[r].url
    /\ LET m == IF manager.kept = None THEN manager ELSE Invalidated
       IN /\ manager' = [m EXCEPT !.connecting = b]
          /\ req' = [q \in Requests |->
                        CASE q = r -> Connecting(r, b, pairing, m.generation)
                          [] q # r /\ q \in PendingOn(manager.kept) -> Ended(q, "failed")
                          [] OTHER -> req[q]]
    /\ bridges' = [c \in Bridges |->
                      CASE c = b -> [state |-> "connecting", key |-> pairing, session |-> None]
                        [] c = manager.kept -> [bridges[c] EXCEPT !.state = "closed"]
                        [] OTHER -> bridges[c]]
    /\ frames' = {f \in frames : f.kind = "hello" => f.bridge # b}
    /\ UNCHANGED <<settings, page>>

\* connect goes on, for all who share the attempt: their continuations run one
\* after the other, without an event in between.
Awaiting(b) == {r \in Requests : req[r].pc = "connecting" /\ req[r].bridge = b}

\* The attempt is not shared any more.
Unshared(b) ==
    IF manager.connecting = b THEN [manager EXCEPT !.connecting = None] ELSE manager

\* A mutant: a failed handshake is not reported.
ConnectFailsQuietly(b) ==
    /\ bridges[b].state = "failed" /\ Awaiting(b) # {}
    /\ manager' = Unshared(b)
    /\ UNCHANGED <<settings, bridges, req, frames, page>>

ConnectFails(b) ==
    /\ bridges[b].state = "failed" /\ Awaiting(b) # {}
    /\ manager' = Unshared(b)
    /\ req' = [r \in Requests |-> IF r \in Awaiting(b) THEN NotDispatched(r) ELSE req[r]]
    /\ UNCHANGED <<settings, bridges, frames, page>>

\* A mutant: a bridge of an earlier configuration is left open.
GiveUpNothing(b) == UNCHANGED bridges

\* The configuration of a caller changed: it gives the bridge up, also when
\* others keep it.
GiveUp(b) ==
    bridges' = IF \E r \in Awaiting(b) : Outdated(r)
               THEN [bridges EXCEPT ![b].state = "closed"] ELSE bridges

\* The last of the others keeps the bridge, for the pairing key that it read,
\* which a shared attempt need not have used.
Connected(b) ==
    /\ bridges[b].state = "open" /\ Awaiting(b) # {}
    /\ req' = [r \in Requests |->
                  CASE r \in Awaiting(b) /\ Outdated(r) -> NotDispatched(r)
                    [] r \in Awaiting(b) /\ ~Outdated(r) -> [req[r] EXCEPT !.pc = "check"]
                    [] OTHER -> req[r]]
    /\ GiveUp(b)
    /\ \/ /\ \A r \in Awaiting(b) : Outdated(r)
          /\ manager' = Unshared(b)
       \/ \E r \in Awaiting(b) :
             /\ ~Outdated(r)
             /\ manager' = [Unshared(b) EXCEPT !.kept = b, !.pairing = req[r].pairing,
                                              !.url = req[r].url]
    /\ UNCHANGED <<settings, frames, page>>

-----------------------------------------------------------------------------
(* The bridge. *)

\* The first hello for it is its session.
Hello(b, s) ==
    /\ bridges[b].state = "connecting"
    /\ [kind |-> "hello", bridge |-> b, session |-> s] \in frames
    /\ bridges' = [bridges EXCEPT ![b].state = "open", ![b].session = s]
    /\ UNCHANGED <<settings, manager, req, frames, page>>

\* No answer in 5 s, or the hello-request was not sent.
HandshakeFails(b) ==
    /\ bridges[b].state = "connecting"
    /\ bridges' = [bridges EXCEPT ![b].state = "failed"]
    /\ UNCHANGED <<settings, manager, req, frames, page>>

\* requireSession and validateRequest.
Check(r) ==
    /\ req[r].pc = "check"
    /\ Step(r, IF \/ bridges[req[r].bridge].state = "closed"
                  \/ Cardinality(PendingOn(req[r].bridge)) >= MaxPending
                  \/ req[r].aborted
               THEN NotDispatched(r) ELSE [req[r] EXCEPT !.pc = "encoding"])
    /\ UNCHANGED <<settings, manager, bridges, frames, page>>

RequestFrame(kind, r, s) == [kind |-> kind, req |-> r, session |-> s]

\* encodeRequest, validateDispatchState and dispatch.
Dispatch(r) ==
    /\ req[r].pc = "encoding"
    /\ IF req[r].aborted \/ bridges[req[r].bridge].state = "closed"
       THEN Step(r, NotDispatched(r)) /\ UNCHANGED frames
       ELSE /\ Step(r, [req[r] EXCEPT !.pc = "pending"])
            /\ frames' = frames \cup
                   {RequestFrame("request", r, bridges[req[r].bridge].session)}
    /\ UNCHANGED <<settings, manager, bridges, page>>

\* It cannot be encoded or posted.
DispatchFails(r) ==
    /\ req[r].pc = "encoding"
    /\ Step(r, NotDispatched(r))
    /\ UNCHANGED <<settings, manager, bridges, frames, page>>

\* The caller's signal.  Of a pending request the userscript is told, unless
\* the bridge closes before the frame is encoded.
Abort(r) ==
    /\ req[r].pc \notin {"idle", "done"} /\ ~req[r].aborted
    /\ IF req[r].pc = "pending"
       THEN /\ Step(r, [Ended(r, "failed") EXCEPT !.aborted = TRUE])
            /\ frames' \in {frames, frames \cup
                   {RequestFrame("cancel", r, bridges[req[r].bridge].session)}}
       ELSE Step(r, [req[r] EXCEPT !.aborted = TRUE]) /\ UNCHANGED frames
    /\ UNCHANGED <<settings, manager, bridges, page>>

\* A mutant: the time limit counts as not sent.
TimesOutUnsent(r) ==
    /\ req[r].pc = "pending"
    /\ Step(r, NotDispatched(r))
    /\ UNCHANGED <<settings, manager, bridges, frames, page>>

TimesOut(r) ==
    /\ req[r].pc = "pending"
    /\ Step(r, Ended(r, "failed"))
    /\ UNCHANGED <<settings, manager, bridges, frames, page>>

\* A response whose body cannot be decoded is a failure.
Decoded(kind) == IF kind = "response" THEN {"response", "failed"} ELSE {"failed"}

\* receive: only a frame of the bridge's session settles a request.
Answered(r) ==
    /\ req[r].pc = "pending"
    /\ \E kind \in {"response", "failure"} :
          /\ RequestFrame(kind, r, bridges[req[r].bridge].session) \in frames
          /\ \E o \in Decoded(kind) : Step(r, Ended(r, o))
    /\ UNCHANGED <<settings, manager, bridges, frames, page>>

-----------------------------------------------------------------------------
(* The userscript. *)

\* After it has proved that the handler does not follow redirects.
Start(s, k) ==
    /\ scripts[s].state = "unstarted"
    /\ scripts' = [scripts EXCEPT ![s].state = "alive", ![s].key = k]
    /\ UNCHANGED <<settings, web, frames, started>>

SendHello(s, b) ==
    /\ scripts[s].state = "alive"
    /\ bridges[b].state = "connecting" /\ bridges[b].key = scripts[s].key
    /\ frames' = frames \cup {[kind |-> "hello", bridge |-> b, session |-> s]}
    /\ UNCHANGED <<settings, web, page>>

\* pagehide: running requests are aborted, wherever the server is with them.
PageHide(s) ==
    /\ scripts[s].state = "alive"
    /\ scripts' = [scripts EXCEPT ![s].state = "gone"]
    /\ UNCHANGED <<settings, web, frames, started>>

Active(s) == {r \in Requests : scripts[s].stage[r] = "active"}

Full(s) ==
    \/ Cardinality(scripts[s].seen) >= MaxSeen
    \/ Cardinality(Active(s)) >= MaxActive

Fail(s, r) == frames' = frames \cup {RequestFrame("failure", r, s)}

\* A mutant: a repeated frame is taken up again.
ReceiveAgain(s, r) ==
    /\ scripts[s].state = "alive" /\ RequestFrame("request", r, s) \in frames
    /\ scripts[s].stage[r] # "cancelled"
    /\ scripts' = [scripts EXCEPT ![s].seen = @ \cup {r}, ![s].stage[r] = "token"]
    /\ UNCHANGED <<settings, web, frames, started>>

Takes(s, r, stage) ==
    scripts' = [scripts EXCEPT ![s].seen = @ \cup {r}, ![s].stage[r] = stage]

\* Its URL, method, headers or body are not allowed.
NotAllowed(s, r) == Takes(s, r, "over") /\ Fail(s, r)

\* handleMessage and handleRequest: a request that was not seen before.
Receive(s, r) ==
    /\ scripts[s].state = "alive" /\ RequestFrame("request", r, s) \in frames
    /\ r \notin scripts[s].seen
    /\ IF Full(s) THEN Fail(s, r) /\ UNCHANGED scripts
       ELSE NotAllowed(s, r) \/ (Takes(s, r, "token") /\ UNCHANGED frames)
    /\ UNCHANGED <<settings, web, started>>

\* GM_getValue has returned: the request is made, or there is no usable token.
\* Nothing is looked at again, neither cancellations nor how many are active.
Token(s, r) ==
    /\ scripts[s].state = "alive" /\ scripts[s].stage[r] = "token"
    /\ \/ /\ scripts' = [scripts EXCEPT ![s].stage[r] = "active"]
          /\ started' = [started EXCEPT ![r] = @ + 1] /\ UNCHANGED frames
       \/ /\ scripts' = [scripts EXCEPT ![s].stage[r] = "over"]
          /\ Fail(s, r) /\ UNCHANGED started
    /\ UNCHANGED <<settings, web>>

\* onload, or what ends the request otherwise.
Complete(s, r) ==
    /\ scripts[s].state = "alive" /\ scripts[s].stage[r] = "active"
    /\ scripts' = [scripts EXCEPT ![s].stage[r] = "over"]
    /\ \E kind \in {"response", "failure"} :
          frames' = frames \cup {RequestFrame(kind, r, s)}
    /\ UNCHANGED <<settings, web, started>>

\* A mutant: a cancellation of what does not run leaves no trace.
CancelActiveOnly(s, r) ==
    /\ scripts[s].state = "alive" /\ RequestFrame("cancel", r, s) \in frames
    /\ scripts' = [scripts EXCEPT
           ![s].stage[r] = CASE @ = "active" -> "over" [] @ = "none" -> "cancelled"
                             [] OTHER -> @]
    /\ IF scripts[s].stage[r] = "active" THEN Fail(s, r) ELSE UNCHANGED frames
    /\ UNCHANGED <<settings, web, started>>

\* The cancellation frame: a running request is aborted, and an unseen one is
\* counted as seen, when there is room; without room it will be refused anyway.
RecordCancellation(s, r) ==
    /\ scripts[s].state = "alive" /\ RequestFrame("cancel", r, s) \in frames
    /\ scripts' = [scripts EXCEPT
           ![s].seen = IF Cardinality(@) < MaxSeen THEN @ \cup {r} ELSE @,
           ![s].stage[r] = CASE @ = "active" -> "over" [] @ = "none" -> "cancelled"
                             [] OTHER -> @]
    /\ IF scripts[s].stage[r] = "active" THEN Fail(s, r) ELSE UNCHANGED frames
    /\ UNCHANGED <<settings, web, started>>

-----------------------------------------------------------------------------

Manager(r) ==
    \/ \E u \in Urls : Get(r, u)
    \/ SecretFails(r) \/ SecretOutdated(r)
    \/ \E k \in {req[r].pairing, settings.pairing} :
          UseKept(r, k) \/ ShareConnection(r, k) \/ \E b \in Bridges : Connect(r, k, b)

Bridge(r) == Check(r) \/ Dispatch(r) \/ DispatchFails(r) \/ TimesOut(r) \/ Answered(r)

Userscript(s) ==
    \/ \E k \in Keys : Start(s, k)
    \/ \E b \in Bridges : SendHello(s, b)
    \/ PageHide(s)
    \/ \E r \in Requests :
          Receive(s, r) \/ Token(s, r) \/ Complete(s, r) \/ RecordCancellation(s, r)

Next ==
    \/ Configure \/ Invalidate
    \/ \E r \in Requests : Manager(r) \/ Bridge(r) \/ Abort(r)
    \/ \E b \in Bridges :
          \/ ConnectFails(b) \/ Connected(b) \/ HandshakeFails(b)
          \/ \E s \in Sessions : Hello(b, s)
    \/ \E s \in Sessions : Userscript(s)

\* Secrets and encryption settle, promises go on, and the two timers fire; the
\* userscript need not be there.
Fairness ==
    /\ \A r \in Requests :
          WF_vars(Manager(r) /\ req[r].pc # "idle") /\ WF_vars(Bridge(r))
    /\ \A b \in Bridges : WF_vars(HandshakeFails(b)) /\ WF_vars(ConnectFails(b) \/ Connected(b))

Spec == Init /\ [][Next]_vars /\ Fairness

-----------------------------------------------------------------------------
(* Properties. *)

Calls == [pc : {"idle", "secret", "connecting", "check", "encoding", "pending", "done"},
          url : Urls \cup {None}, pairing : Keys \cup {None}, generation : Nat,
          bridge : Bridges \cup {None}, aborted : BOOLEAN,
          outcome : {"none", "response", "failed", "notDispatched"}]
Scripts == [state : {"unstarted", "alive", "gone"}, key : Keys \cup {None},
            seen : SUBSET Requests, stage : [Requests -> Stages]]

TypeOK ==
    /\ settings \in [url : Urls, pairing : Keys, changes : 0..MaxChanges]
    /\ manager \in [kept : Bridges \cup {None}, pairing : Keys \cup {None},
                    url : Urls \cup {None}, connecting : Bridges \cup {None},
                    generation : Nat]
    /\ bridges \in [Bridges -> [state : {"unused", "connecting", "open", "failed", "closed"},
                                key : Keys \cup {None}, session : Sessions \cup {None}]]
    /\ req \in [Requests -> Calls]
    /\ \A r \in Requests : req[r].pc = "connecting" => req[r].bridge \in Bridges
    /\ scripts \in [Sessions -> Scripts]
    /\ started \in [Requests -> Nat]

\* What the Git publisher makes of the outcome of a request is right: a
\* response comes only after the request was made, and GitHttpNotDispatchedError
\* only when it never will be, whatever is reconfigured, reloaded, cancelled or
\* repeated meanwhile.
Outcome(r) == CASE req[r].outcome = "response" -> "success"
                [] req[r].outcome = "notDispatched" -> "rejected"
                [] req[r].outcome = "failed" -> "thrown"
                [] OTHER -> "none"
CallOf(r) == INSTANCE AdapterCall WITH outcome <- Outcome(r), applied <- started[r] > 0
ImplementsCall ==
    /\ \A r \in Requests : CallOf(r)!Init
    /\ [][\A r \in Requests : [CallOf(r)!Next]_(CallOf(r)!vars)]_vars

\* A request is made at most once, by one session, though its frame may be
\* repeated and other userscripts with the same key listen (seen, sessionId).
StartedOnce == \A r \in Requests : started[r] <= 1

\* A request whose cancellation arrived first is never made, also when the
\* session remembers as many requests as it may (recordCancellation).
CancelledStaysCancelled ==
    [][\A s \in Sessions, r \in Requests :
          scripts[s].stage[r] = "cancelled" => scripts'[s].stage[r] = "cancelled"]_vars

\* No bridge is left open that nobody will use or close: an open channel that
\* still decrypts with an old key is kept, or somebody is about to look at it.
BridgesAreOwned ==
    \A b \in Bridges :
        bridges[b].state \in {"connecting", "open"} =>
            \/ b = manager.kept
            \/ \E r \in Requests : req[r].pc = "connecting" /\ req[r].bridge = b

\* Every request of an adapter settles, also without a userscript.
RequestsSettle ==
    \A r \in Requests : req[r].pc # "idle" ~> req[r].pc = "done"
=============================================================================
