----------------------------- MODULE BrowserRpc -----------------------------
(***************************************************************************)
(* The Browser RPC transport between one BrowserRpcHostTransport, in the   *)
(* extension host, and the BrowserRpcUserscriptEndpoints of SCM tabs       *)
(* (extensions/browser-rpc-provider/src).  The host's broker gives the     *)
(* calls of an adapter a registered endpoint of the repository's target;   *)
(* every endpoint here has that target.                                    *)
(*                                                                         *)
(* Frames pass a BroadcastChannel, the relays of all Code-OSS tabs, and    *)
(* mailboxes in shared storage: they are delayed, overtake each other, are *)
(* lost, and arrive again when two relays forward them.  net holds what    *)
(* was sent; receiving a frame leaves it there.  hello is sent every five  *)
(* seconds, so that it can be received at any time.                        *)
(***************************************************************************)
EXTENDS Naturals, FiniteSets

CONSTANTS
    Endpoints,   \* tabs; a reloaded tab is another endpoint
    Calls,       \* requests of an adapter, each with its own requestId
    None,        \* no endpoint
    MaxEndpoints, MaxSessionIds, MaxPending,  \* limits of the host
    MaxActive, MaxRequestIds,                 \* limits of an endpoint
    MaxCounter   \* bound: frames with a counter that an endpoint sends

ASSUME BrowserRpcAssumption ==
    /\ None \notin Endpoints
    /\ {MaxEndpoints, MaxSessionIds, MaxPending, MaxActive, MaxRequestIds,
        MaxCounter} \subseteq Nat \ {0}

VARIABLES
    up,          \* the host is not disposed
    registered,  \* endpoint -> the counter the host has for it; 0: none
    sessionIds,  \* seenEndpointIds
    scheduled,   \* the broker has queued the microtask that looks at waiters
    call,        \* call -> its state at the host and the endpoint it was given
    tab,         \* endpoint -> BrowserRpcUserscriptEndpoint
    net,         \* frames
    starts,      \* history: call -> how often a handler was started for it
    finished,    \* history: calls whose handler returned in time
    farewells,   \* history: endpoints whose disconnect the host received
    cancels      \* history: calls whose cancel an endpoint accepted

history == <<starts, finished, farewells, cancels>>
hostVars == <<up, registered, sessionIds, scheduled>>
vars == <<hostVars, call, tab, net, history>>

CallStates == {"unused", "waiting", "selected", "encrypting", "posted",
               "answered", "refused", "failed"}
Counter == 0 .. MaxCounter + 1
Tab == [status: {"live", "disposing", "disposed"}, counter: Counter,
        seen: SUBSET Calls, active: SUBSET Calls, late: SUBSET Calls]
Frame ==
    [kind: {"register", "heartbeat", "disconnect"}, endpoint: Endpoints, counter: Counter]
    \cup [kind: {"request", "cancel"}, endpoint: Endpoints, call: Calls]
    \cup [kind: {"response"}, endpoint: Endpoints, call: Calls, answer: {"answered", "refused"}]

TypeOK ==
    /\ up \in BOOLEAN /\ scheduled \in BOOLEAN
    /\ registered \in [Endpoints -> Counter]
    /\ sessionIds \subseteq Endpoints
    /\ call \in [Calls -> [state: CallStates, endpoint: Endpoints \cup {None}]]
    /\ tab \in [Endpoints -> Tab]
    /\ net \subseteq Frame
    /\ starts \in [Calls -> Nat]
    /\ finished \subseteq Calls /\ cancels \subseteq Calls
    /\ farewells \subseteq Endpoints
    \* What the limits limit.
    /\ Cardinality({e \in Endpoints : registered[e] > 0}) <= MaxEndpoints
    /\ Cardinality({c \in Calls : call[c].state \in {"encrypting", "posted"}}) <= MaxPending
    /\ \A e \in Endpoints : /\ Cardinality(tab[e].active) <= MaxActive
                            /\ Cardinality(tab[e].seen) <= MaxRequestIds

Init ==
    /\ up = TRUE /\ scheduled = FALSE
    /\ registered = [e \in Endpoints |-> 0]
    /\ sessionIds = {}
    /\ call = [c \in Calls |-> [state |-> "unused", endpoint |-> None]]
    /\ tab = [e \in Endpoints |->
                 [status |-> "live", counter |-> 0, seen |-> {}, active |-> {}, late |-> {}]]
    /\ net = {}
    /\ starts = [c \in Calls |-> 0]
    /\ finished = {} /\ farewells = {} /\ cancels = {}

-----------------------------------------------------------------------------
(* The host's endpoints: register, heartbeat, disconnect, sweep. *)

Live == {e \in Endpoints : registered[e] > 0}
Pending(c) == call[c].state \in {"encrypting", "posted"}
PendingAt(e) == {c \in Calls : Pending(c) /\ call[c].endpoint = e}
Signed(kind, e, n) == [kind |-> kind, endpoint |-> e, counter |-> n]

\* A mutant: the calls of an endpoint that is dropped are left to their timers.
DropAlone(E) ==
    /\ registered' = [e \in Endpoints |-> IF e \in E THEN 0 ELSE registered[e]]
    /\ UNCHANGED call

\* disconnect: the registration is disposed and its calls fail.
Drop(E) ==
    /\ registered' = [e \in Endpoints |-> IF e \in E THEN 0 ELSE registered[e]]
    /\ call' = [c \in Calls |-> IF \E e \in E : c \in PendingAt(e)
                                THEN [call[c] EXCEPT !.state = "failed"] ELSE call[c]]

\* A mutant: the waiters are not told of a new endpoint.
RegisterQuietly(e, n) ==
    /\ up /\ Signed("register", e, n) \in net
    /\ \/ /\ registered[e] > 0 /\ n > registered[e]
          /\ UNCHANGED <<sessionIds, scheduled>>
       \/ /\ registered[e] = 0 /\ e \notin sessionIds
          /\ Cardinality(sessionIds) < MaxSessionIds /\ Cardinality(Live) < MaxEndpoints
          /\ sessionIds' = sessionIds \cup {e} /\ UNCHANGED scheduled
    /\ registered' = [registered EXCEPT ![e] = n]
    /\ UNCHANGED <<up, call, tab, net, history>>

Register(e, n) ==
    /\ up /\ Signed("register", e, n) \in net
    /\ \/ /\ registered[e] > 0 /\ n > registered[e]
          /\ UNCHANGED <<sessionIds, scheduled>>
       \/ /\ registered[e] = 0 /\ e \notin sessionIds
          /\ Cardinality(sessionIds) < MaxSessionIds /\ Cardinality(Live) < MaxEndpoints
          /\ sessionIds' = sessionIds \cup {e} /\ scheduled' = TRUE
    /\ registered' = [registered EXCEPT ![e] = n]
    /\ UNCHANGED <<up, call, tab, net, history>>

Heartbeat(e, n) ==
    /\ up /\ Signed("heartbeat", e, n) \in net
    /\ registered[e] > 0 /\ n > registered[e]
    /\ registered' = [registered EXCEPT ![e] = n]
    /\ UNCHANGED <<up, sessionIds, scheduled, call, tab, net, history>>

\* A disconnect that overtakes the registration is remembered.
Disconnect(e, n) ==
    /\ up /\ Signed("disconnect", e, n) \in net
    /\ \/ registered[e] > 0 /\ n > registered[e] /\ Drop({e}) /\ UNCHANGED sessionIds
       \/ registered[e] > 0 /\ n <= registered[e] /\ UNCHANGED <<registered, call, sessionIds>>
       \/ /\ registered[e] = 0
          /\ sessionIds' = IF Cardinality(sessionIds) < MaxSessionIds
                           THEN sessionIds \cup {e} ELSE sessionIds
          /\ UNCHANGED <<registered, call>>
    /\ farewells' = farewells \cup {e}
    /\ UNCHANGED <<up, scheduled, tab, net, starts, finished, cancels>>

\* The endpoint was silent for STALE_MS.
Sweep(e) ==
    /\ up /\ registered[e] > 0 /\ PendingAt(e) = {}
    /\ Drop({e})
    /\ UNCHANGED <<up, sessionIds, scheduled, tab, net, history>>

DisposeHost ==
    /\ up /\ up' = FALSE
    /\ Drop(Live)
    /\ sessionIds' = {}
    /\ UNCHANGED <<scheduled, tab, net, history>>

-----------------------------------------------------------------------------
(* The broker and the host's calls. *)

Settle(c, state) == call' = [call EXCEPT ![c].state = state]
Select(c, e) == [call[c] EXCEPT !.state = "selected", !.endpoint = e]

\* find: the endpoint, if there is one; more than one is an error.
Found(c) ==
    IF Cardinality(Live) = 1 THEN Select(c, CHOOSE e \in Live : TRUE)
    ELSE IF Live = {} THEN [call[c] EXCEPT !.state = "waiting"]
    ELSE [call[c] EXCEPT !.state = "failed"]

Find(c) ==
    /\ call[c].state = "unused"
    /\ call' = [call EXCEPT ![c] = Found(c)]
    /\ UNCHANGED <<hostVars, tab, net, history>>

Wake ==
    /\ scheduled /\ scheduled' = FALSE
    /\ call' = [c \in Calls |-> IF call[c].state = "waiting" THEN Found(c) ELSE call[c]]
    /\ UNCHANGED <<up, registered, sessionIds, tab, net, history>>

\* waitFor is cancelled or times out.
StopWaiting(c) ==
    /\ call[c].state = "waiting"
    /\ Settle(c, "failed")
    /\ UNCHANGED <<hostVars, tab, net, history>>

Message(kind, c) == [kind |-> kind, endpoint |-> call[c].endpoint, call |-> c]

\* A call that was cancelled by now fails.
Request(c) ==
    /\ call[c].state = "selected"
    /\ IF registered[call[c].endpoint] = 0 THEN Settle(c, "failed")
       ELSE IF Cardinality({d \in Calls : Pending(d)}) >= MaxPending THEN Settle(c, "refused")
       ELSE Settle(c, "encrypting") \/ Settle(c, "failed")
    /\ UNCHANGED <<hostVars, tab, net, history>>

\* send: too large a frame is not posted; a postMessage that throws may have
\* posted it.
Post(c) ==
    /\ call[c].state = "encrypting"
    /\ \/ Settle(c, "posted") /\ net' = net \cup {Message("request", c)}
       \/ Settle(c, "refused") /\ UNCHANGED net
       \/ Settle(c, "failed") /\ net' \in {net, net \cup {Message("request", c)}}
    /\ UNCHANGED <<hostVars, tab, history>>

\* The caller's signal or the timer of the request.
GiveUp(c) ==
    /\ Pending(c)
    /\ Settle(c, "failed")
    /\ net' = net \cup {Message("cancel", c)}
    /\ UNCHANGED <<hostVars, tab, history>>

\* A mutant: a response settles the call of its endpoint, whichever it is.
ReceiveResponseOf(c, answer) ==
    /\ up
    /\ \E d \in Calls :
          [kind |-> "response", endpoint |-> call[c].endpoint, call |-> d, answer |-> answer] \in net
    /\ Pending(c) /\ registered[call[c].endpoint] > 0
    /\ Settle(c, answer)
    /\ UNCHANGED <<hostVars, tab, net, history>>

ReceiveResponse(c, answer) ==
    /\ up
    /\ [kind |-> "response", endpoint |-> call[c].endpoint, call |-> c, answer |-> answer] \in net
    /\ Pending(c) /\ registered[call[c].endpoint] > 0
    /\ Settle(c, answer)
    /\ UNCHANGED <<hostVars, tab, net, history>>

-----------------------------------------------------------------------------
(* The endpoint in its tab. *)

Update(e, r) == tab' = [tab EXCEPT ![e] = r]

\* respond: a disposed mailbox sends nothing.
Reply(e, c, answer) ==
    IF tab[e].status = "disposed" THEN UNCHANGED net
    ELSE net' = net \cup {[kind |-> "response", endpoint |-> e, call |-> c, answer |-> answer]}

\* receive looks at disposed before it decrypts a frame, and at hosts after it:
\* frames for the calls in late were being decrypted when dispose ended.
Receives(kind, e, c) ==
    /\ [kind |-> kind, endpoint |-> e, call |-> c] \in net
    /\ tab[e].counter > 0
    /\ tab[e].status # "disposed" \/ c \in tab[e].late

\* announce, nextCounter.  A hello is also received while dispose waits for its
\* last frames to be stored.  When dispose is over the host is known again, but
\* nothing is sent.
Announce(e) ==
    /\ tab[e].counter < IF tab[e].status = "disposed" THEN 1 ELSE MaxCounter
    /\ Update(e, [tab[e] EXCEPT !.counter = @ + 1])
    /\ net' = IF tab[e].status = "disposed" THEN net
               ELSE net \cup {Signed("register", e, tab[e].counter + 1)}
    /\ UNCHANGED <<hostVars, call, history>>

\* The heartbeat timer.
Beat(e) ==
    /\ tab[e].status = "live" /\ tab[e].counter \in 1 .. MaxCounter - 1
    /\ Update(e, [tab[e] EXCEPT !.counter = @ + 1])
    /\ net' = net \cup {Signed("heartbeat", e, tab[e].counter + 1)}
    /\ UNCHANGED <<hostVars, call, history>>

\* sweepHosts: no hello for HOST_STALE_MS.  The next one starts a new counter.
ForgetHost(e) ==
    /\ tab[e].status # "disposed" /\ tab[e].counter > 0
    /\ Update(e, [tab[e] EXCEPT !.counter = 0])
    /\ UNCHANGED <<hostVars, call, net, history>>

\* A mutant: only a request that is run is remembered.
HandleAndForget(e, c) ==
    /\ Receives("request", e, c)
    /\ c \notin tab[e].seen
    /\ IF Cardinality(tab[e].seen) >= MaxRequestIds \/ Cardinality(tab[e].active) >= MaxActive
       THEN Reply(e, c, "refused") /\ UNCHANGED <<tab, starts>>
       ELSE /\ Update(e, [tab[e] EXCEPT !.seen = @ \cup {c}, !.active = @ \cup {c}])
            /\ starts' = [starts EXCEPT ![c] = @ + 1]
            /\ UNCHANGED net
    /\ UNCHANGED <<hostVars, call, finished, farewells, cancels>>

\* handleRequest, up to the handler.
Handle(e, c) ==
    /\ Receives("request", e, c)
    /\ c \notin tab[e].seen
    /\ IF Cardinality(tab[e].seen) >= MaxRequestIds
       THEN Reply(e, c, "refused") /\ UNCHANGED <<tab, starts>>
       ELSE IF Cardinality(tab[e].active) >= MaxActive
       THEN /\ Update(e, [tab[e] EXCEPT !.seen = @ \cup {c}])
            /\ Reply(e, c, "refused") /\ UNCHANGED starts
       ELSE /\ Update(e, [tab[e] EXCEPT !.seen = @ \cup {c}, !.active = @ \cup {c}])
            /\ starts' = [starts EXCEPT ![c] = @ + 1]
            /\ UNCHANGED net
    /\ UNCHANGED <<hostVars, call, finished, farewells, cancels>>

\* A mutant: the identifier of an answered request is forgotten.
FinishAndForget(e, c) ==
    /\ c \in tab[e].active
    /\ Update(e, [tab[e] EXCEPT !.active = @ \ {c}, !.seen = @ \ {c}])
    /\ Reply(e, c, "answered")
    /\ finished' = finished \cup {c}
    /\ UNCHANGED <<hostVars, call, starts, farewells, cancels>>

\* The handler returns or fails; respond.
Finish(e, c) ==
    /\ c \in tab[e].active
    /\ Update(e, [tab[e] EXCEPT !.active = @ \ {c}])
    /\ Reply(e, c, "answered")
    /\ finished' = finished \cup {c}
    /\ UNCHANGED <<hostVars, call, starts, farewells, cancels>>

\* The request's timer: its slot is free, whatever the handler does.
Abort(e, c) ==
    /\ c \in tab[e].active
    /\ Update(e, [tab[e] EXCEPT !.active = @ \ {c}])
    /\ UNCHANGED <<hostVars, call, net, history>>

\* A mutant: only a running request is cancelled.
CancelActive(e, c) ==
    /\ Receives("cancel", e, c)
    /\ Update(e, [tab[e] EXCEPT !.active = @ \ {c}])
    /\ cancels' = cancels \cup {c}
    /\ UNCHANGED <<hostVars, call, net, starts, finished, farewells>>

Cancel(e, c) ==
    /\ Receives("cancel", e, c)
    /\ Update(e, [tab[e] EXCEPT !.active = @ \ {c},
                    !.seen = IF Cardinality(@) < MaxRequestIds THEN @ \cup {c} ELSE @])
    /\ cancels' = cancels \cup {c}
    /\ UNCHANGED <<hostVars, call, net, starts, finished, farewells>>

\* dispose, up to the await of its frames; the host is told when it is known.
Dispose(e) ==
    /\ tab[e].status = "live"
    /\ \/ /\ tab[e].counter = 0
          /\ Update(e, [tab[e] EXCEPT !.status = "disposing", !.active = {}])
          /\ UNCHANGED net
       \/ /\ tab[e].counter > 0
          /\ Update(e, [tab[e] EXCEPT !.status = "disposing", !.active = {}, !.counter = @ + 1])
          /\ net' = net \cup {Signed("disconnect", e, tab[e].counter + 1)}
    /\ UNCHANGED <<hostVars, call, history>>

Disposed(e) ==
    /\ tab[e].status = "disposing"
    /\ Update(e, [tab[e] EXCEPT !.status = "disposed", !.counter = 0, !.seen = {},
                    !.late = {f.call : f \in {g \in net : /\ g.kind \in {"request", "cancel"}
                                                         /\ g.endpoint = e}}])
    /\ UNCHANGED <<hostVars, call, net, history>>

-----------------------------------------------------------------------------
Next ==
    \/ \E e \in Endpoints :
          \/ \E n \in Counter : Register(e, n) \/ Heartbeat(e, n) \/ Disconnect(e, n)
          \/ Sweep(e) \/ Announce(e) \/ Beat(e) \/ ForgetHost(e) \/ Dispose(e) \/ Disposed(e)
          \/ \E c \in Calls : Handle(e, c) \/ Finish(e, c) \/ Abort(e, c) \/ Cancel(e, c)
    \/ \E c \in Calls :
          \/ Find(c) \/ StopWaiting(c) \/ Request(c) \/ Post(c) \/ GiveUp(c)
          \/ \E answer \in {"answered", "refused"} : ReceiveResponse(c, answer)
    \/ Wake \/ DisposeHost

Spec == Init /\ [][Next]_vars

-----------------------------------------------------------------------------
(* Properties. *)

\* The endpoint that c was given has ended.
Over(c) == \E e \in Endpoints : call[c].endpoint = e /\ tab[e].status = "disposed"

\* A request, a publication among them, is run at most once, however often its
\* frame arrives: across answers, limits, cancellations and a host that was
\* forgotten and announced itself again.  It may run again when its tab ends.
HandledOnce == \A c \in Calls : starts[c] <= 1 \/ Over(c)

\* "Refused" is an answer the adapter may rely on: a call refused at any limit,
\* or because its frame cannot be sent, is not running and never will.
RefusalsAreFinal == \A c \in Calls : call[c].state = "refused" => starts[c] = 0 \/ Over(c)

\* handleRequest: "a delayed publication cannot start after its caller has
\* cancelled", when the endpoint has accepted the cancellation.
CancelledNeverStarts == [][\A c \in cancels : starts'[c] = starts[c] \/ Over(c)]_vars

\* A call is settled by its own handler's result: a late response to another
\* call of the same endpoint, or one that was aborted, does not reach it.
AnswersAreOwn == \A c \in Calls : call[c].state = "answered" => c \in finished

\* No call waits in vain: the endpoint whose answer it awaits is one the host has
\* not dropped, and it awaits no endpoint while exactly one is there to be
\* chosen, unless the broker is about to look.
NoCallIsStranded ==
    /\ \A c \in Calls : Pending(c) => registered[call[c].endpoint] > 0
    /\ (\E c \in Calls : call[c].state = "waiting") /\ Cardinality(Live) = 1 => scheduled

\* README of the extension: "The host rejects stale endpoint IDs after
\* disconnect or timeout."  The tab that said goodbye is no endpoint any more.
\* The code breaks it, so no run checks it: a hello handled while dispose awaits
\* its disconnect is answered with a higher counter.
FarewellIsFinal == \A e \in farewells : registered[e] = 0
=============================================================================
