-------------------------- MODULE TransportProofs ---------------------------
(***************************************************************************)
(* Theorems of the transport between a host and the userscripts of other   *)
(* tabs, for any number of tabs and whatever the limits are.               *)
(*                                                                         *)
(* BrowserRpc, for any number of calls: what a step may do to a call, to   *)
(* the frames and to a tab is said once, in CallStep, NetStep and TabStep; *)
(* the invariant follows from these.                                       *)
(*                                                                         *)
(* GmMailbox, for any number of packets and any retention: no tab has a    *)
(* packet twice.                                                           *)
(***************************************************************************)
EXTENDS BrowserRpc, GmMailbox, FiniteSetTheorems, TLAPS

CallRecord == [state: CallStates, endpoint: Endpoints \cup {None}]
TabRecord == [status: {"live", "disposing", "disposed"}, counter: Nat,
              seen: SUBSET Calls, active: SUBSET Calls, late: SUBSET Calls]
SignedFrames == [kind: {"register", "heartbeat", "disconnect"}, endpoint: Endpoints, counter: Nat]
AskedFrames == [kind: {"request", "cancel"}, endpoint: Endpoints, call: Calls]
ToldFrames == [kind: {"response"}, endpoint: Endpoints, call: Calls,
               answer: {"answered", "refused"}]

\* The types without the limits.
Types ==
    /\ registered \in [Endpoints -> Nat]
    /\ call \in [Calls -> CallRecord]
    /\ tab \in [Endpoints -> TabRecord]
    /\ net \subseteq SignedFrames \cup AskedFrames \cup ToldFrames
    /\ starts \in [Calls -> Nat]
    /\ cancels \subseteq Calls
    /\ \A c \in Calls : call[c].state \notin {"unused", "waiting", "failed"} =>
                         call[c].endpoint \in Endpoints
    /\ \A e \in Endpoints : IsFiniteSet(tab[e].seen)

Asked(kind, e, c) == [kind |-> kind, endpoint |-> e, call |-> c] \in net
Told(e, c, answer) == [kind |-> "response", endpoint |-> e, call |-> c, answer |-> answer] \in net
Full(e) == Cardinality(tab[e].seen) >= MaxRequestIds
Early == {"unused", "waiting", "selected", "encrypting"}

-----------------------------------------------------------------------------
(* Steps of the frames. *)

\* Sending a frame of one kind sends none of another.
LEMMA FrameKinds ==
    ASSUME NEW f, net' = net \/ net' = net \cup {f}
    PROVE  /\ f \in SignedFrames =>
                 /\ \A k \in {"request", "cancel"}, e \in Endpoints, c \in Calls :
                       Asked(k, e, c)' => Asked(k, e, c)
                 /\ \A e \in Endpoints, c \in Calls, a \in {"answered", "refused"} :
                       Told(e, c, a)' => Told(e, c, a)
           /\ \A k \in {"request", "cancel"}, e \in Endpoints, c \in Calls :
                 f = [kind |-> k, endpoint |-> e, call |-> c] =>
                 /\ \A l \in {"request", "cancel"}, x \in Endpoints, d \in Calls :
                       Asked(l, x, d)' => Asked(l, x, d) \/ (l = k /\ x = e /\ d = c)
                 /\ \A x \in Endpoints, d \in Calls, a \in {"answered", "refused"} :
                       Told(x, d, a)' => Told(x, d, a)
                 /\ \A x \in Endpoints, n \in Nat :
                       Signed("register", x, n) \in net' => Signed("register", x, n) \in net
           /\ \A e \in Endpoints, c \in Calls, a \in {"answered", "refused"} :
                 f = [kind |-> "response", endpoint |-> e, call |-> c, answer |-> a] =>
                 /\ \A l \in {"request", "cancel"}, x \in Endpoints, d \in Calls :
                       Asked(l, x, d)' => Asked(l, x, d)
                 /\ \A x \in Endpoints, d \in Calls, b \in {"answered", "refused"} :
                       Told(x, d, b)' => Told(x, d, b) \/ (x = e /\ d = c /\ b = a)
                 /\ \A x \in Endpoints, n \in Nat :
                       Signed("register", x, n) \in net' => Signed("register", x, n) \in net
  <1>1. f \in SignedFrames =>
           /\ \A k \in {"request", "cancel"}, e \in Endpoints, c \in Calls :
                 Asked(k, e, c)' => Asked(k, e, c)
           /\ \A e \in Endpoints, c \in Calls, a \in {"answered", "refused"} :
                 Told(e, c, a)' => Told(e, c, a)
    BY DEF Asked, Told, SignedFrames
  <1>2. ASSUME NEW k \in {"request", "cancel"}, NEW e \in Endpoints, NEW c \in Calls,
               f = [kind |-> k, endpoint |-> e, call |-> c]
        PROVE  /\ \A l \in {"request", "cancel"}, x \in Endpoints, d \in Calls :
                     Asked(l, x, d)' => Asked(l, x, d) \/ (l = k /\ x = e /\ d = c)
               /\ \A x \in Endpoints, d \in Calls, a \in {"answered", "refused"} :
                     Told(x, d, a)' => Told(x, d, a)
               /\ \A x \in Endpoints, n \in Nat :
                     Signed("register", x, n) \in net' => Signed("register", x, n) \in net
    BY <1>2 DEF Asked, Told, Signed
  <1>3. ASSUME NEW e \in Endpoints, NEW c \in Calls, NEW a \in {"answered", "refused"},
               f = [kind |-> "response", endpoint |-> e, call |-> c, answer |-> a]
        PROVE  /\ \A l \in {"request", "cancel"}, x \in Endpoints, d \in Calls :
                     Asked(l, x, d)' => Asked(l, x, d)
               /\ \A x \in Endpoints, d \in Calls, b \in {"answered", "refused"} :
                     Told(x, d, b)' => Told(x, d, b) \/ (x = e /\ d = c /\ b = a)
               /\ \A x \in Endpoints, n \in Nat :
                     Signed("register", x, n) \in net' => Signed("register", x, n) \in net
    BY <1>3 DEF Asked, Told, Signed
  <1> QED
    BY <1>1, <1>2, <1>3
-----------------------------------------------------------------------------
(* What a step does to a call. *)

Ends(c, state) == call'[c].state = state /\ call'[c].endpoint = call[c].endpoint

Moves(c) ==
    \/ call'[c] = call[c]
    \/ /\ call[c].state \in {"unused", "waiting"} /\ UNCHANGED registered
       /\ \/ Ends(c, "waiting") /\ Live = {}
          \/ Ends(c, "failed")
          \/ call'[c].state = "selected" /\ call'[c].endpoint \in Live
    \/ call[c].state = "waiting" /\ Ends(c, "failed")
    \/ call[c].state = "selected" /\ UNCHANGED net /\ (Ends(c, "failed") \/ Ends(c, "refused"))
    \/ /\ call[c].state = "selected" /\ Ends(c, "encrypting")
       /\ registered[call[c].endpoint] > 0 /\ UNCHANGED <<registered, net>>
    \/ call[c].state = "encrypting" /\ Ends(c, "posted") /\ UNCHANGED registered
    \/ call[c].state = "encrypting" /\ Ends(c, "refused") /\ UNCHANGED net
    \/ Pending(c) /\ Ends(c, "failed")
    \/ \E answer \in {"answered", "refused"} :
          Pending(c) /\ Ends(c, answer) /\ Told(call[c].endpoint, c, answer) /\ UNCHANGED net

TabActions(e) ==
    \/ Announce(e) \/ Beat(e) \/ ForgetHost(e) \/ Dispose(e) \/ Disposed(e)
    \/ \E c \in Calls : Handle(e, c) \/ Finish(e, c) \/ Abort(e, c) \/ Cancel(e, c)

LEMMA FoundIs ==
    ASSUME Types, NEW c \in Calls, call[c].state \in {"unused", "waiting"}
    PROVE  \/ Found(c) = [call[c] EXCEPT !.state = "waiting"] /\ Live = {}
           \/ Found(c) = [call[c] EXCEPT !.state = "failed"]
           \/ \E e \in Live : Found(c) = [call[c] EXCEPT !.state = "selected", !.endpoint = e]
  <1>1. CASE Cardinality(Live) = 1
    <2>1. Live # {}
      BY <1>1, FS_EmptySet
    <2>2. (CHOOSE e \in Live : TRUE) \in Live
      BY <2>1
    <2>3. Found(c) = [call[c] EXCEPT !.state = "selected", !.endpoint = CHOOSE e \in Live : TRUE]
      BY <1>1 DEF Found, Select
    <2> QED
      BY <2>2, <2>3
  <1>2. CASE Cardinality(Live) # 1
    BY <1>2 DEF Found
  <1> QED
    BY <1>1, <1>2

LEMMA FoundMoves ==
    ASSUME Types, NEW c \in Calls, call[c].state \in {"unused", "waiting"},
           call'[c] = Found(c), UNCHANGED registered
    PROVE  /\ Moves(c) /\ call'[c] \in CallRecord
           /\ call'[c].state \in {"waiting", "failed", "selected"}
  <1>t. call[c] \in CallRecord
    BY DEF Types
  <1>1. CASE Found(c) = [call[c] EXCEPT !.state = "waiting"] /\ Live = {}
    BY <1>1, <1>t DEF Moves, Ends, CallRecord, CallStates
  <1>2. CASE Found(c) = [call[c] EXCEPT !.state = "failed"]
    BY <1>2, <1>t DEF Moves, Ends, CallRecord, CallStates
  <1>3. ASSUME NEW e \in Live, Found(c) = [call[c] EXCEPT !.state = "selected", !.endpoint = e]
        PROVE  Moves(c) /\ call'[c] \in CallRecord /\ call'[c].state = "selected"
    <2>1. e \in Endpoints
      BY DEF Live
    <2> DEFINE x == [call[c] EXCEPT !.state = "selected", !.endpoint = e]
    <2>2. x \in CallRecord /\ x.state = "selected" /\ x.endpoint = e
      BY <1>t, <2>1 DEF CallRecord, CallStates
    <2>3. call'[c] = x
      BY <1>3
    <2> HIDE DEF x
    <2>4. call'[c].state = "selected" /\ call'[c].endpoint \in Live
      BY <2>2, <2>3
    <2> QED
      BY <2>2, <2>3, <2>4 DEF Moves
  <1> QED
    BY <1>1, <1>2, <1>3, FoundIs

LEMMA SettleIs ==
    ASSUME Types, NEW c \in Calls, NEW state \in CallStates, Settle(c, state)
    PROVE  /\ call' \in [Calls -> CallRecord] /\ Ends(c, state)
           /\ \A d \in Calls \ {c} : call'[d] = call[d]
  BY DEF Types, Settle, Ends, CallRecord

LEMMA DropIs ==
    ASSUME Types, NEW E \in SUBSET Endpoints, Drop(E)
    PROVE  /\ call' \in [Calls -> CallRecord]
           /\ registered' = [e \in Endpoints |-> IF e \in E THEN 0 ELSE registered[e]]
           /\ \A d \in Calls : \/ call'[d] = call[d] /\ ~(Pending(d) /\ call[d].endpoint \in E)
                               \/ Pending(d) /\ Ends(d, "failed")
  <1>1. \A d \in Calls : call'[d] = IF \E e \in E : d \in PendingAt(e)
                                   THEN [call[d] EXCEPT !.state = "failed"] ELSE call[d]
    BY DEF Drop
  <1>2. \A d \in Calls : call[d] \in CallRecord
    BY DEF Types
  <1>3. \A d \in Calls : [call[d] EXCEPT !.state = "failed"] \in CallRecord
                         /\ [call[d] EXCEPT !.state = "failed"].state = "failed"
                         /\ [call[d] EXCEPT !.state = "failed"].endpoint = call[d].endpoint
    BY <1>2 DEF CallRecord, CallStates
  <1>4. \A d \in Calls : call'[d] \in CallRecord
    BY <1>1, <1>2, <1>3
  <1> QED
    BY <1>1, <1>3, <1>4 DEF Drop, PendingAt, Ends

LEMMA CallStep ==
    ASSUME Types, [Next]_vars
    PROVE  call' \in [Calls -> CallRecord] /\ \A c \in Calls : Moves(c)
  <1>t. call \in [Calls -> CallRecord] /\ \A c \in Calls : call[c] \in CallRecord
    BY DEF Types
  <1>u. ASSUME UNCHANGED call
        PROVE  call' \in [Calls -> CallRecord] /\ \A c \in Calls : Moves(c)
    BY <1>t, <1>u DEF Moves
  <1>s. ASSUME NEW c \in Calls, NEW state \in CallStates, Settle(c, state),
               Ends(c, state) => Moves(c)
        PROVE  call' \in [Calls -> CallRecord] /\ \A d \in Calls : Moves(d)
    BY <1>s, SettleIs DEF Moves
  <1>d. ASSUME NEW E \in SUBSET Endpoints, Drop(E)
        PROVE  call' \in [Calls -> CallRecord] /\ \A d \in Calls : Moves(d)
    BY <1>d, DropIs DEF Moves
  <1>1. ASSUME NEW e \in Endpoints, TabActions(e)
        PROVE  UNCHANGED call
    BY <1>1 DEF TabActions, Announce, Beat, ForgetHost, Dispose, Disposed, Handle, Finish, Abort,
       Cancel
  <1>2. ASSUME NEW e \in Endpoints, NEW n \in Counter, Register(e, n) \/ Heartbeat(e, n)
        PROVE  UNCHANGED call
    BY <1>2 DEF Register, Heartbeat
  <1>3. ASSUME NEW e \in Endpoints, NEW n \in Counter, Disconnect(e, n)
        PROVE  UNCHANGED call \/ Drop({e})
    BY <1>3 DEF Disconnect
  <1>4. ASSUME NEW e \in Endpoints, Sweep(e)
        PROVE  Drop({e})
    BY <1>4 DEF Sweep
  <1>5. ASSUME DisposeHost
        PROVE  Drop(Live) /\ Live \in SUBSET Endpoints
    BY <1>5 DEF DisposeHost, Live
  <1>6. ASSUME NEW c \in Calls, Find(c)
        PROVE  call' \in [Calls -> CallRecord] /\ \A d \in Calls : Moves(d)
    <2>1. /\ call[c].state = "unused" /\ call' = [call EXCEPT ![c] = Found(c)]
          /\ UNCHANGED registered
      BY <1>6 DEF Find, hostVars
    <2>2. call'[c] = Found(c) /\ \A d \in Calls \ {c} : call'[d] = call[d]
      BY <1>t, <2>1
    <2>3. Moves(c) /\ call'[c] \in CallRecord
      BY <2>1, <2>2, FoundMoves
    <2>4. \A d \in Calls \ {c} : Moves(d)
      BY <2>2 DEF Moves
    <2> QED
      BY <1>t, <2>1, <2>2, <2>3, <2>4
  <1>7. ASSUME Wake
        PROVE  call' \in [Calls -> CallRecord] /\ \A d \in Calls : Moves(d)
    <2>1. /\ call' = [c \in Calls |-> IF call[c].state = "waiting" THEN Found(c) ELSE call[c]]
          /\ UNCHANGED registered
      BY <1>7 DEF Wake
    <2>2. ASSUME NEW d \in Calls
          PROVE  Moves(d) /\ call'[d] \in CallRecord
      <3>1. CASE call[d].state = "waiting"
        BY <2>1, <3>1, FoundMoves
      <3>2. CASE call[d].state # "waiting"
        BY <1>t, <2>1, <3>2 DEF Moves
      <3> QED
        BY <3>1, <3>2
    <2> QED
      BY <2>1, <2>2
  <1>8. ASSUME NEW c \in Calls, StopWaiting(c)
        PROVE  call' \in [Calls -> CallRecord] /\ \A d \in Calls : Moves(d)
    BY <1>8, <1>s DEF StopWaiting, Moves, CallStates
  <1>9. ASSUME NEW c \in Calls, Request(c)
        PROVE  call' \in [Calls -> CallRecord] /\ \A d \in Calls : Moves(d)
    <2>1. /\ call[c].state = "selected" /\ UNCHANGED <<registered, net>>
          /\ call[c].endpoint \in Endpoints
      BY <1>9 DEF Request, hostVars, Types
    <2>2. CASE Settle(c, "failed") \/ Settle(c, "refused")
      BY <1>s, <2>1, <2>2 DEF Moves, CallStates
    <2>3. CASE registered[call[c].endpoint] # 0 /\ Settle(c, "encrypting")
      <3>1. registered[call[c].endpoint] > 0
        BY <2>1, <2>3 DEF Types
      <3> QED
        BY <1>s, <2>1, <2>3, <3>1 DEF Moves, CallStates
    <2> QED
      BY <1>9, <2>2, <2>3 DEF Request
  <1>10. ASSUME NEW c \in Calls, Post(c)
         PROVE  call' \in [Calls -> CallRecord] /\ \A d \in Calls : Moves(d)
    <2>1. call[c].state = "encrypting" /\ UNCHANGED registered
      BY <1>10 DEF Post, hostVars
    <2>2. CASE Settle(c, "posted")
      BY <1>s, <2>1, <2>2 DEF Moves, CallStates
    <2>3. CASE Settle(c, "refused") /\ UNCHANGED net
      BY <1>s, <2>1, <2>3 DEF Moves, CallStates
    <2>4. CASE Settle(c, "failed")
      BY <1>s, <2>1, <2>4 DEF Moves, CallStates, Pending
    <2> QED
      BY <1>10, <2>2, <2>3, <2>4 DEF Post
  <1>11. ASSUME NEW c \in Calls, GiveUp(c)
         PROVE  call' \in [Calls -> CallRecord] /\ \A d \in Calls : Moves(d)
    BY <1>11, <1>s DEF GiveUp, Moves, CallStates
  <1>12. ASSUME NEW c \in Calls, NEW answer \in {"answered", "refused"}, ReceiveResponse(c, answer)
         PROVE  call' \in [Calls -> CallRecord] /\ \A d \in Calls : Moves(d)
    <2>1. /\ Pending(c) /\ Settle(c, answer) /\ Told(call[c].endpoint, c, answer)
          /\ UNCHANGED net /\ answer \in CallStates
      BY <1>12 DEF ReceiveResponse, Told, CallStates
    <2> QED
      BY <1>s, <2>1 DEF Moves
  <1>13. CASE UNCHANGED vars
    BY <1>13, <1>u DEF vars
  <1> QED
    BY <1>1, <1>2, <1>3, <1>4, <1>5, <1>6, <1>7, <1>8, <1>9, <1>10, <1>11, <1>12, <1>13, <1>d,
       <1>u DEF Next, TabActions
-----------------------------------------------------------------------------
(* What a step does to the frames. *)

NetMoves ==
    /\ net' \subseteq SignedFrames \cup AskedFrames \cup ToldFrames
    /\ \A e \in Endpoints, c \in Calls :
          /\ Asked("request", e, c)' =>
                \/ Asked("request", e, c)
                \/ /\ e = call[c].endpoint /\ call[c].state = "encrypting"
                   /\ call'[c].state \in {"posted", "failed"}
          /\ Asked("cancel", e, c)' =>
                \/ Asked("cancel", e, c)
                \/ e = call[c].endpoint /\ Pending(c) /\ Ends(c, "failed")
          /\ Told(e, c, "answered")' =>
                Told(e, c, "answered") \/ (c \in tab[e].active /\ c \in finished')
          /\ Told(e, c, "refused")' =>
                \/ Told(e, c, "refused")
                \/ /\ Asked("request", e, c) /\ c \notin tab[e].seen /\ UNCHANGED starts
                   /\ c \in tab'[e].seen \/ (Full(e) /\ UNCHANGED tab)
    /\ \A e \in Endpoints, n \in Nat :
          Signed("register", e, n) \in net' => Signed("register", e, n) \in net \/ n > 0

LEMMA ReplyIs ==
    ASSUME Types, NEW e \in Endpoints, NEW c \in Calls, NEW a \in {"answered", "refused"},
           Reply(e, c, a)
    PROVE  /\ net' \subseteq SignedFrames \cup AskedFrames \cup ToldFrames
           /\ \A k \in {"request", "cancel"}, x \in Endpoints, d \in Calls :
                 Asked(k, x, d)' => Asked(k, x, d)
           /\ \A x \in Endpoints, d \in Calls, b \in {"answered", "refused"} :
                 Told(x, d, b)' => Told(x, d, b) \/ (x = e /\ d = c /\ b = a)
           /\ \A x \in Endpoints, n \in Nat :
                 Signed("register", x, n) \in net' => Signed("register", x, n) \in net
  <1> DEFINE f == [kind |-> "response", endpoint |-> e, call |-> c, answer |-> a]
  <1>1. net' = net \/ net' = net \cup {f}
    BY DEF Reply
  <1>2. f \in ToldFrames
    BY DEF ToldFrames
  <1>3. net' \subseteq SignedFrames \cup AskedFrames \cup ToldFrames
    BY <1>1, <1>2 DEF Types
  <1>4. f = [kind |-> "response", endpoint |-> e, call |-> c, answer |-> a]
    OBVIOUS
  <1> HIDE DEF f
  <1> QED
    BY <1>1, <1>3, <1>4, FrameKinds

LEMMA NetStep ==
    ASSUME Types, [Next]_vars
    PROVE  NetMoves
  <1>n. net \subseteq SignedFrames \cup AskedFrames \cup ToldFrames
    BY DEF Types
  <1>u. ASSUME UNCHANGED net
        PROVE  NetMoves
    BY <1>n, <1>u DEF NetMoves, Asked, Told
  <1>s. ASSUME NEW k \in {"register", "heartbeat", "disconnect"}, NEW e \in Endpoints,
               net' = net \cup {Signed(k, e, tab[e].counter + 1)}
        PROVE  NetMoves
    <2> DEFINE f == Signed(k, e, tab[e].counter + 1)
    <2>1. tab[e].counter \in Nat
      BY DEF Types, TabRecord
    <2>2. f \in SignedFrames
      BY <2>1 DEF SignedFrames, Signed
    <2>3. \A x \in Endpoints, n \in Nat :
             Signed("register", x, n) \in net' => Signed("register", x, n) \in net \/ n > 0
      BY <1>s, <2>1 DEF Signed
    <2> HIDE DEF f
    <2>4. net' \subseteq SignedFrames \cup AskedFrames \cup ToldFrames
      BY <1>n, <1>s, <2>2 DEF f
    <2>5. net' = net \cup {f}
      BY <1>s DEF f
    <2> QED
      BY <2>2, <2>3, <2>4, <2>5, FrameKinds DEF NetMoves
  <1>m. ASSUME NEW k \in {"request", "cancel"}, NEW c \in Calls, call[c].endpoint \in Endpoints,
               net' = net \/ net' = net \cup {Message(k, c)},
               k = "request" => /\ call[c].state = "encrypting"
                                /\ call'[c].state \in {"posted", "failed"},
               k = "cancel" => Pending(c) /\ Ends(c, "failed")
        PROVE  NetMoves
    <2> DEFINE f == Message(k, c)
    <2>1. f = [kind |-> k, endpoint |-> call[c].endpoint, call |-> c]
      BY DEF Message
    <2>2. f \in AskedFrames
      BY <1>m, <2>1 DEF AskedFrames
    <2>3. net' = net \/ net' = net \cup {f}
      BY <1>m
    <2> HIDE DEF f
    <2>4. net' \subseteq SignedFrames \cup AskedFrames \cup ToldFrames
      BY <1>n, <2>2, <2>3
    <2>5. /\ \A l \in {"request", "cancel"}, x \in Endpoints, d \in Calls :
                Asked(l, x, d)' => Asked(l, x, d) \/ (l = k /\ x = call[c].endpoint /\ d = c)
          /\ \A x \in Endpoints, d \in Calls, a \in {"answered", "refused"} :
                Told(x, d, a)' => Told(x, d, a)
          /\ \A x \in Endpoints, n \in Nat :
                Signed("register", x, n) \in net' => Signed("register", x, n) \in net
      BY <1>m, <2>1, <2>3, FrameKinds
    <2> QED
      BY <1>m, <2>4, <2>5 DEF NetMoves
  <1>1. ASSUME NEW e \in Endpoints, Announce(e) \/ Beat(e) \/ Dispose(e)
        PROVE  NetMoves
    BY <1>1, <1>s, <1>u DEF Announce, Beat, Dispose
  <1>2. ASSUME NEW e \in Endpoints, NEW c \in Calls, Handle(e, c)
        PROVE  NetMoves
    <2>1. CASE UNCHANGED net
      BY <1>u, <2>1
    <2>2. CASE /\ Reply(e, c, "refused") /\ UNCHANGED starts
               /\ c \in tab'[e].seen \/ (Full(e) /\ UNCHANGED tab)
      <3>1. Asked("request", e, c) /\ c \notin tab[e].seen
        BY <1>2 DEF Handle, Receives, Asked
      <3>2. \A x \in Endpoints, d \in Calls :
               /\ Told(x, d, "answered")' => Told(x, d, "answered")
               /\ Told(x, d, "refused")' => Told(x, d, "refused") \/ (x = e /\ d = c)
        BY <2>2, ReplyIs
      <3>3. \A k \in {"request", "cancel"}, x \in Endpoints, d \in Calls :
               Asked(k, x, d)' => Asked(k, x, d)
        BY <2>2, ReplyIs
      <3>4. \A x \in Endpoints, n \in Nat :
               Signed("register", x, n) \in net' => Signed("register", x, n) \in net
        BY <2>2, ReplyIs
      <3>5. net' \subseteq SignedFrames \cup AskedFrames \cup ToldFrames
        BY <2>2, ReplyIs
      <3> QED
        BY <2>2, <3>1, <3>2, <3>3, <3>4, <3>5 DEF NetMoves
    <2>3. CASE /\ Update(e, [tab[e] EXCEPT !.seen = @ \cup {c}])
               /\ Reply(e, c, "refused") /\ UNCHANGED starts
      <3>1. c \in tab'[e].seen
        BY <2>3 DEF Update, Types, TabRecord
      <3> QED
        BY <2>2, <2>3, <3>1
    <2>4. CASE Cardinality(tab[e].seen) >= MaxRequestIds
      BY <1>2, <2>2, <2>4 DEF Handle, Full
    <2> QED
      BY <1>2, <2>1, <2>3, <2>4 DEF Handle
  <1>3. ASSUME NEW e \in Endpoints, NEW c \in Calls, Finish(e, c)
        PROVE  NetMoves
    <2>1. c \in tab[e].active /\ Reply(e, c, "answered") /\ c \in finished'
      BY <1>3 DEF Finish
    <2>2. \A x \in Endpoints, d \in Calls :
             /\ Told(x, d, "answered")' => Told(x, d, "answered") \/ (x = e /\ d = c)
             /\ Told(x, d, "refused")' => Told(x, d, "refused")
      BY <2>1, ReplyIs
    <2>3. \A k \in {"request", "cancel"}, x \in Endpoints, d \in Calls :
             Asked(k, x, d)' => Asked(k, x, d)
      BY <2>1, ReplyIs
    <2>4. \A x \in Endpoints, n \in Nat :
             Signed("register", x, n) \in net' => Signed("register", x, n) \in net
      BY <2>1, ReplyIs
    <2>5. net' \subseteq SignedFrames \cup AskedFrames \cup ToldFrames
      BY <2>1, ReplyIs
    <2> QED
      BY <2>1, <2>2, <2>3, <2>4, <2>5 DEF NetMoves
  <1>4. ASSUME NEW c \in Calls, Post(c)
        PROVE  NetMoves
    <2>1. call[c].state = "encrypting" /\ call[c].endpoint \in Endpoints
      BY <1>4 DEF Post, Types
    <2>2. CASE Settle(c, "posted") /\ net' = net \cup {Message("request", c)}
      <3>1. call'[c].state = "posted"
        BY <2>2, SettleIs DEF Ends, CallStates
      <3> QED
        BY <1>m, <2>1, <2>2, <3>1
    <2>3. CASE Settle(c, "failed") /\ net' \in {net, net \cup {Message("request", c)}}
      <3>1. call'[c].state = "failed"
        BY <2>3, SettleIs DEF Ends, CallStates
      <3> QED
        BY <1>m, <2>1, <2>3, <3>1
    <2> QED
      BY <1>4, <1>u, <2>2, <2>3 DEF Post
  <1>5. ASSUME NEW c \in Calls, GiveUp(c)
        PROVE  NetMoves
    <2>1. /\ Pending(c) /\ Settle(c, "failed") /\ call[c].endpoint \in Endpoints
          /\ net' = net \cup {Message("cancel", c)}
      BY <1>5 DEF GiveUp, Types, Pending
    <2>2. Ends(c, "failed")
      BY <2>1, SettleIs DEF CallStates
    <2> QED
      BY <1>m, <2>1, <2>2
  <1>6. CASE UNCHANGED vars
    BY <1>6, <1>u DEF vars
  <1> QED
    BY <1>1, <1>2, <1>3, <1>4, <1>5, <1>6, <1>u DEF Next, Register, Heartbeat, Disconnect, Sweep,
       DisposeHost, Find, Wake, StopWaiting, Request, ReceiveResponse, ForgetHost, Disposed, Abort,
       Cancel
-----------------------------------------------------------------------------
(* What a step does to a tab. *)

\* Identifiers are forgotten at the end only, and a memory that is full stays.
Remembers(e) ==
    \/ tab'[e].status = "disposed"
    \/ /\ tab[e].seen \subseteq tab'[e].seen /\ tab[e].status # "disposed"
       /\ Full(e) => tab'[e].seen = tab[e].seen

Starts(e, c) == Asked("request", e, c) /\ c \notin tab[e].seen /\ ~Full(e) /\ c \in tab'[e].seen

TabMoves ==
    /\ tab' \in [Endpoints -> TabRecord] /\ starts' \in [Calls -> Nat]
    /\ \A e \in Endpoints :
          /\ IsFiniteSet(tab'[e].seen) /\ Remembers(e)
          /\ \A c \in tab'[e].seen \cup tab'[e].active :
                \/ c \in tab[e].seen \cup tab[e].active
                \/ Asked("request", e, c) \/ Asked("cancel", e, c)
    /\ \A c \in Calls :
          \/ starts'[c] = starts[c]
          \/ starts'[c] = starts[c] + 1 /\ \E e \in Endpoints : Starts(e, c)
    /\ cancels' \subseteq Calls
    /\ \A c \in cancels' \ cancels : \E e \in Endpoints :
          Asked("cancel", e, c) /\ (c \in tab'[e].seen \/ (Full(e) /\ tab'[e].seen = tab[e].seen))
    /\ finished \subseteq finished'

LEMMA UpdateIs ==
    ASSUME Types, NEW e \in Endpoints, NEW r \in TabRecord, Update(e, r), IsFiniteSet(r.seen),
           r.status = "disposed" \/ (tab[e].seen \subseteq r.seen /\ tab[e].status # "disposed"
                                      /\ (Full(e) => r.seen = tab[e].seen)),
           \A c \in r.seen \cup r.active : \/ c \in tab[e].seen \cup tab[e].active
                                          \/ Asked("request", e, c) \/ Asked("cancel", e, c)
    PROVE  /\ tab' \in [Endpoints -> TabRecord] /\ tab'[e] = r
           /\ \A x \in Endpoints :
                 /\ IsFiniteSet(tab'[x].seen) /\ Remembers(x)
                 /\ \A c \in tab'[x].seen \cup tab'[x].active :
                       \/ c \in tab[x].seen \cup tab[x].active
                       \/ Asked("request", x, c) \/ Asked("cancel", x, c)
  <1>1. tab' \in [Endpoints -> TabRecord] /\ tab'[e] = r
        /\ \A x \in Endpoints \ {e} : tab'[x] = tab[x]
    BY DEF Types, Update
  <1>2. \A x \in Endpoints : IsFiniteSet(tab[x].seen)
    BY DEF Types
  <1>3. \A x \in Endpoints \ {e} : Remembers(x)
    BY <1>1 DEF Remembers
  <1>4. Remembers(e)
    BY <1>1 DEF Remembers
  <1> QED
    BY <1>1, <1>2, <1>3, <1>4

LEMMA Limited ==
    ASSUME Types, NEW e \in Endpoints
    PROVE  ~Full(e) <=> Cardinality(tab[e].seen) < MaxRequestIds
  <1>1. Cardinality(tab[e].seen) \in Nat
    BY FS_CardinalityType DEF Types
  <1> QED
    BY <1>1, BrowserRpcAssumption DEF Full

LEMMA TabStep ==
    ASSUME Types, [Next]_vars
    PROVE  TabMoves
  <1>t. \A e \in Endpoints : tab[e] \in TabRecord /\ IsFiniteSet(tab[e].seen)
    BY DEF Types
  <1>h. starts \in [Calls -> Nat] /\ cancels \subseteq Calls
    BY DEF Types
  <1>u. UNCHANGED <<tab, starts, cancels>> /\ finished \subseteq finished' => TabMoves
    BY DEF TabMoves, Types, Remembers
  <1>v. ASSUME NEW e \in Endpoints, NEW r \in TabRecord, Update(e, r), IsFiniteSet(r.seen),
               r.status = "disposed" \/ (tab[e].seen \subseteq r.seen /\ tab[e].status # "disposed"
                                          /\ (Full(e) => r.seen = tab[e].seen)),
               \A c \in r.seen \cup r.active : \/ c \in tab[e].seen \cup tab[e].active
                                              \/ Asked("request", e, c) \/ Asked("cancel", e, c),
               UNCHANGED <<starts, cancels>>, finished \subseteq finished'
        PROVE  TabMoves
    BY <1>h, <1>v, UpdateIs DEF TabMoves
  <1>1. ASSUME NEW e \in Endpoints, Announce(e) \/ Beat(e)
        PROVE  TabMoves
    <2> DEFINE r == [tab[e] EXCEPT !.counter = tab[e].counter + 1]
    <2>1. Update(e, r) /\ UNCHANGED <<starts, cancels, finished>>
      BY <1>1 DEF Announce, Beat, history
    <2>2. /\ r \in TabRecord /\ r.seen = tab[e].seen /\ r.active = tab[e].active
          /\ r.status = tab[e].status
      BY <1>t DEF TabRecord
    <2> HIDE DEF r
    <2> QED
      BY <1>t, <1>v, <2>1, <2>2
  <1>2. ASSUME NEW e \in Endpoints, ForgetHost(e)
        PROVE  TabMoves
    <2> DEFINE r == [tab[e] EXCEPT !.counter = 0]
    <2>1. Update(e, r) /\ UNCHANGED <<starts, cancels, finished>>
      BY <1>2 DEF ForgetHost, history
    <2>2. /\ r \in TabRecord /\ r.seen = tab[e].seen /\ r.active = tab[e].active
          /\ r.status = tab[e].status
      BY <1>t DEF TabRecord
    <2> HIDE DEF r
    <2> QED
      BY <1>t, <1>v, <2>1, <2>2
  <1>3. ASSUME NEW e \in Endpoints, Dispose(e)
        PROVE  TabMoves
    <2> DEFINE q == [tab[e] EXCEPT !.status = "disposing", !.active = {}]
               r == [tab[e] EXCEPT !.status = "disposing", !.active = {}, !.counter = @ + 1]
    <2>1. /\ Update(e, q) \/ Update(e, r)
          /\ UNCHANGED <<starts, cancels, finished>> /\ tab[e].status = "live"
      <3>1. UNCHANGED <<starts, cancels, finished>> /\ tab[e].status = "live"
        BY <1>3 DEF Dispose, history
      <3>2. Update(e, q) \/ Update(e, r)
        BY <1>3, Zenon DEF Dispose
      <3> QED
        BY <3>1, <3>2
    <2>2. q \in TabRecord /\ q.seen = tab[e].seen /\ q.active = {}
      BY <1>t DEF TabRecord
    <2>3. r \in TabRecord /\ r.seen = tab[e].seen /\ r.active = {}
      <3> DEFINE n == tab[e].counter + 1
      <3>1. n \in Nat
        BY <1>t DEF TabRecord
      <3>2. r = [tab[e] EXCEPT !.status = "disposing", !.active = {}, !.counter = n]
        BY Zenon
      <3> HIDE DEF n, r, q
      <3> QED
        BY <1>t, <3>1, <3>2 DEF TabRecord
    <2> HIDE DEF q, r
    <2> QED
      BY <1>t, <1>v, <2>1, <2>2, <2>3
  <1>4. ASSUME NEW e \in Endpoints, Disposed(e)
        PROVE  TabMoves
    <2> DEFINE L == {f.call : f \in {g \in net : g.kind \in {"request", "cancel"}
                                                 /\ g.endpoint = e}}
               r == [tab[e] EXCEPT !.status = "disposed", !.counter = 0, !.seen = {}, !.late = L]
    <2>1. Update(e, r) /\ UNCHANGED <<starts, cancels, finished>>
      BY <1>4 DEF Disposed, history
    <2>2. L \in SUBSET Calls
      BY DEF Types, SignedFrames, AskedFrames, ToldFrames
    <2> HIDE DEF L
    <2>3. r \in TabRecord /\ r.seen = {} /\ r.active = tab[e].active /\ r.status = "disposed"
      BY <1>t, <2>2 DEF TabRecord
    <2>4. IsFiniteSet(r.seen)
      BY <2>3, FS_EmptySet
    <2> HIDE DEF r
    <2> QED
      BY <1>v, <2>1, <2>3, <2>4
  <1>5. ASSUME NEW e \in Endpoints, NEW c \in Calls, Handle(e, c)
        PROVE  TabMoves
    <2>1. /\ Asked("request", e, c) /\ c \notin tab[e].seen
          /\ UNCHANGED <<cancels, finished>>
      BY <1>5 DEF Handle, Receives, Asked
    <2>2. CASE UNCHANGED <<tab, starts>>
      BY <1>u, <2>1, <2>2
    <2>3. CASE ~Full(e) /\ Update(e, [tab[e] EXCEPT !.seen = @ \cup {c}]) /\ UNCHANGED starts
      <3> DEFINE r == [tab[e] EXCEPT !.seen = @ \cup {c}]
      <3>1. /\ r \in TabRecord /\ r.seen = tab[e].seen \cup {c} /\ r.active = tab[e].active
            /\ r.status = tab[e].status /\ Update(e, r)
        BY <1>t, <2>3 DEF TabRecord
      <3>2. IsFiniteSet(r.seen)
        BY <1>t, <3>1, FS_AddElement
      <3> HIDE DEF r
      <3>3. CASE tab[e].status # "disposed"
        BY <1>v, <2>1, <2>3, <3>1, <3>2, <3>3
      <3>4. CASE tab[e].status = "disposed"
        BY <1>v, <2>1, <2>3, <3>1, <3>2, <3>4
      <3> QED
        BY <3>3, <3>4
    <2>4. CASE /\ ~Full(e) /\ starts' = [starts EXCEPT ![c] = @ + 1]
               /\ Update(e, [tab[e] EXCEPT !.seen = @ \cup {c}, !.active = @ \cup {c}])
      <3> DEFINE r == [tab[e] EXCEPT !.seen = @ \cup {c}, !.active = @ \cup {c}]
      <3>1. /\ r \in TabRecord /\ r.seen = tab[e].seen \cup {c}
            /\ r.active = tab[e].active \cup {c}
            /\ r.status = tab[e].status /\ Update(e, r)
        BY <1>t, <2>4 DEF TabRecord
      <3>2. IsFiniteSet(r.seen)
        BY <1>t, <3>1, FS_AddElement
      <3> HIDE DEF r
      <3>3. /\ tab' \in [Endpoints -> TabRecord] /\ tab'[e] = r
            /\ \A x \in Endpoints :
                  /\ IsFiniteSet(tab'[x].seen) /\ Remembers(x)
                  /\ \A d \in tab'[x].seen \cup tab'[x].active :
                        \/ d \in tab[x].seen \cup tab[x].active
                        \/ Asked("request", x, d) \/ Asked("cancel", x, d)
        <4>1. CASE tab[e].status # "disposed"
          BY <2>1, <2>4, <3>1, <3>2, <4>1, UpdateIs
        <4>2. CASE tab[e].status = "disposed"
          BY <2>1, <2>4, <3>1, <3>2, <4>2, UpdateIs
        <4> QED
          BY <4>1, <4>2
      <3>4. Starts(e, c)
        BY <2>1, <2>4, <3>1, <3>3 DEF Starts
      <3>5. /\ starts' \in [Calls -> Nat]
            /\ \A d \in Calls : starts'[d] = IF d = c THEN starts[d] + 1 ELSE starts[d]
        BY <1>h, <2>4
      <3> QED
        BY <1>h, <2>1, <3>3, <3>4, <3>5 DEF TabMoves
    <2> QED
      BY <1>5, <2>2, <2>3, <2>4 DEF Handle, Full
  <1>6. ASSUME NEW e \in Endpoints, NEW c \in Calls, Finish(e, c) \/ Abort(e, c)
        PROVE  TabMoves
    <2> DEFINE r == [tab[e] EXCEPT !.active = @ \ {c}]
    <2>1. Update(e, r) /\ UNCHANGED <<starts, cancels>> /\ finished \subseteq finished'
      BY <1>6 DEF Finish, Abort, history
    <2>2. /\ r \in TabRecord /\ r.seen = tab[e].seen /\ r.active \subseteq tab[e].active
          /\ r.status = tab[e].status
      BY <1>t DEF TabRecord
    <2> HIDE DEF r
    <2> QED
      BY <1>t, <1>v, <2>1, <2>2
  <1>7. ASSUME NEW e \in Endpoints, NEW c \in Calls, Cancel(e, c)
        PROVE  TabMoves
    <2> DEFINE S == IF Cardinality(tab[e].seen) < MaxRequestIds THEN tab[e].seen \cup {c}
                    ELSE tab[e].seen
               r == [tab[e] EXCEPT !.active = @ \ {c}, !.seen = S]
    <2>1. /\ Update(e, r) /\ UNCHANGED <<starts, finished>> /\ cancels' = cancels \cup {c}
          /\ Asked("cancel", e, c)
      BY <1>7 DEF Cancel, Receives, Asked
    <2>2. /\ S \in SUBSET Calls /\ IsFiniteSet(S) /\ tab[e].seen \subseteq S
          /\ S \subseteq tab[e].seen \cup {c}
          /\ Full(e) => S = tab[e].seen
          /\ c \in S \/ (Full(e) /\ S = tab[e].seen)
      <3>1. IsFiniteSet(tab[e].seen \cup {c}) /\ tab[e].seen \in SUBSET Calls
        BY <1>t, FS_AddElement DEF TabRecord
      <3> QED
        BY <1>t, <3>1, Limited
    <2> HIDE DEF S
    <2>3. /\ r \in TabRecord /\ r.seen = S /\ r.active \subseteq tab[e].active
          /\ r.status = tab[e].status
      BY <1>t, <2>2 DEF TabRecord
    <2> HIDE DEF r
    <2>4. /\ tab' \in [Endpoints -> TabRecord] /\ tab'[e] = r
          /\ \A x \in Endpoints :
                /\ IsFiniteSet(tab'[x].seen) /\ Remembers(x)
                /\ \A d \in tab'[x].seen \cup tab'[x].active :
                      \/ d \in tab[x].seen \cup tab[x].active
                      \/ Asked("request", x, d) \/ Asked("cancel", x, d)
      <3>1. CASE tab[e].status # "disposed"
        BY <2>1, <2>2, <2>3, <3>1, UpdateIs
      <3>2. CASE tab[e].status = "disposed"
        BY <2>1, <2>2, <2>3, <3>2, UpdateIs
      <3> QED
        BY <3>1, <3>2
    <2> QED
      BY <1>h, <2>1, <2>2, <2>3, <2>4 DEF TabMoves
  <1>8. CASE UNCHANGED vars
    BY <1>8, <1>u DEF vars, history
  <1>9. ASSUME NEW e \in Endpoints, NEW n \in Counter, Disconnect(e, n)
        PROVE  TabMoves
    BY <1>9, <1>u DEF Disconnect
  <1> QED
    BY <1>1, <1>2, <1>3, <1>4, <1>5, <1>6, <1>7, <1>8, <1>9, <1>u DEF Next, Register, Heartbeat,
       Sweep, DisposeHost, Find, Wake, StopWaiting, Request, Post, GiveUp, ReceiveResponse, history
-----------------------------------------------------------------------------
(* What a step does to the host's endpoints. *)

RegistersCount == \A e \in Endpoints, n \in Nat : Signed("register", e, n) \in net => n > 0

HostMoves ==
    /\ registered' \in [Endpoints -> Nat]
    /\ \A e \in Endpoints : registered[e] > 0 /\ registered'[e] = 0 =>
          \A c \in Calls : Pending(c) /\ call[c].endpoint = e => call'[c].state = "failed"
    /\ (\E e \in Endpoints : registered[e] = 0 /\ registered'[e] > 0) => scheduled'
    /\ scheduled /\ ~scheduled' /\ (\E c \in Calls : call'[c].state = "waiting") =>
          \A e \in Endpoints : registered'[e] = 0

LEMMA HostStep ==
    ASSUME Types, RegistersCount, [Next]_vars
    PROVE  HostMoves
  <1>r. registered \in [Endpoints -> Nat] /\ Counter \subseteq Nat
    BY BrowserRpcAssumption DEF Types, Counter
  <1>u. ASSUME UNCHANGED <<registered, scheduled>>
        PROVE  HostMoves
    BY <1>r, <1>u DEF HostMoves
  <1>d. ASSUME NEW E \in SUBSET Endpoints, Drop(E), UNCHANGED scheduled
        PROVE  HostMoves
    <2>1. registered' = [e \in Endpoints |-> IF e \in E THEN 0 ELSE registered[e]]
      BY <1>d, DropIs
    <2>2. \A c \in Calls : Pending(c) /\ call[c].endpoint \in E => call'[c].state = "failed"
      BY <1>d, DropIs DEF Ends
    <2> QED
      BY <1>d, <1>r, <2>1, <2>2 DEF HostMoves
  <1>1. ASSUME NEW e \in Endpoints, NEW n \in Counter, Register(e, n)
        PROVE  HostMoves
    <2>1. n > 0 /\ n \in Nat
      BY <1>1, <1>r DEF Register, RegistersCount
    <2>2. /\ registered' = [registered EXCEPT ![e] = n]
          /\ (registered[e] > 0 /\ UNCHANGED scheduled) \/ (registered[e] = 0 /\ scheduled')
      BY <1>1, Zenon DEF Register
    <2> QED
      BY <1>r, <2>1, <2>2 DEF HostMoves
  <1>2. ASSUME NEW e \in Endpoints, NEW n \in Counter, Heartbeat(e, n)
        PROVE  HostMoves
    BY <1>2, <1>r DEF Heartbeat, HostMoves
  <1>3. ASSUME NEW e \in Endpoints, NEW n \in Counter, Disconnect(e, n)
        PROVE  HostMoves
    <2>1. UNCHANGED scheduled /\ (Drop({e}) \/ UNCHANGED registered)
      BY <1>3 DEF Disconnect
    <2> QED
      BY <1>d, <1>u, <2>1
  <1>4. ASSUME NEW e \in Endpoints, Sweep(e)
        PROVE  HostMoves
    BY <1>4, <1>d DEF Sweep
  <1>5. CASE DisposeHost
    <2>1. Drop(Live) /\ UNCHANGED scheduled /\ Live \in SUBSET Endpoints
      BY <1>5 DEF DisposeHost, Live
    <2> QED
      BY <1>d, <2>1
  <1>6. CASE Wake
    <2>1. /\ call' = [c \in Calls |-> IF call[c].state = "waiting" THEN Found(c) ELSE call[c]]
          /\ UNCHANGED registered /\ ~scheduled'
      BY <1>6 DEF Wake
    <2>2. ASSUME NEW c \in Calls, call'[c].state = "waiting"
          PROVE  Live = {}
      <3>1. call[c].state = "waiting" /\ call'[c] = Found(c)
        BY <2>1, <2>2
      <3>2. call[c] \in CallRecord
        BY DEF Types
      <3>3. ASSUME Found(c) = [call[c] EXCEPT !.state = "failed"]
            PROVE  FALSE
        BY <2>2, <3>1, <3>2, <3>3 DEF CallRecord
      <3>4. ASSUME NEW e, Found(c) = [call[c] EXCEPT !.state = "selected", !.endpoint = e]
            PROVE  FALSE
        BY <2>2, <3>1, <3>2, <3>4 DEF CallRecord
      <3> QED
        BY <3>1, <3>3, <3>4, FoundIs
    <2> QED
      BY <1>r, <2>1, <2>2 DEF HostMoves, Live
  <1>7. CASE UNCHANGED vars
    BY <1>7, <1>u DEF vars, hostVars
  <1>8. ASSUME NEW e \in Endpoints, TabActions(e)
        PROVE  HostMoves
    BY <1>8, <1>u DEF TabActions, Announce, Beat, ForgetHost, Dispose, Disposed, Handle, Finish,
       Abort, Cancel, hostVars
  <1> QED
    BY <1>1, <1>2, <1>3, <1>4, <1>5, <1>6, <1>7, <1>8, <1>u DEF Next, TabActions, Find, StopWaiting,
       Request, Post, GiveUp, ReceiveResponse, hostVars

-----------------------------------------------------------------------------
(* The invariant. *)

\* The request can start no more while its tab lives.
Blocked(c) == \E e \in Endpoints :
    call[c].endpoint = e /\ (c \in tab[e].seen \/ Full(e) \/ tab[e].status = "disposed")

Final(c) ==
    /\ call[c].state \notin Early
    /\ \/ Over(c)
       \/ /\ starts[c] = 0
          /\ Blocked(c) \/ \A e \in Endpoints : ~Asked("request", e, c)

\* Frames and memories speak of calls that were sent, at their endpoint.
LinkInv ==
    /\ \A e \in Endpoints, c \in Calls :
          /\ (\/ Asked("request", e, c) \/ Asked("cancel", e, c)
              \/ c \in tab[e].seen \cup tab[e].active)
             => call[c].endpoint = e /\ call[c].state \notin Early
          /\ Told(e, c, "answered") => c \in finished
          /\ Told(e, c, "refused") => Final(c)
    /\ RegistersCount

OutcomeInv == \A c \in Calls :
    /\ call[c].state = "answered" => c \in finished
    /\ call[c].state = "refused" => Final(c)
    /\ starts[c] > 0 => /\ call[c].state \notin Early
                        /\ \E e \in Endpoints : call[c].endpoint = e /\
                              (c \in tab[e].seen \/ tab[e].status = "disposed")
    /\ starts[c] <= 1 \/ Over(c)
    /\ c \in cancels => call[c].state \notin Early /\ Blocked(c)

HostInv ==
    /\ \A c \in Calls : Pending(c) => registered[call[c].endpoint] > 0
    /\ (\E c \in Calls : call[c].state = "waiting")
          /\ (\E e \in Endpoints : registered[e] > 0) => scheduled

RpcInv == Types /\ LinkInv /\ OutcomeInv /\ HostInv

LEMMA RpcInit == Init => RpcInv
  <1> SUFFICES ASSUME Init
               PROVE  RpcInv
    OBVIOUS
  <1>1. /\ \A e \in Endpoints : tab[e].seen = {} /\ tab[e].active = {}
        /\ \A c \in Calls : call[c].state = "unused" /\ starts[c] = 0
        /\ net = {} /\ cancels = {} /\ \A e \in Endpoints : registered[e] = 0
    BY DEF Init
  <1>2. Types
    <2>1. call \in [Calls -> CallRecord] /\ tab \in [Endpoints -> TabRecord]
      BY DEF Init, CallRecord, CallStates, TabRecord
    <2>2. registered \in [Endpoints -> Nat] /\ starts \in [Calls -> Nat]
      BY DEF Init
    <2>3. \A e \in Endpoints : IsFiniteSet(tab[e].seen)
      BY <1>1, FS_EmptySet
    <2> QED
      BY <1>1, <2>1, <2>2, <2>3 DEF Types
  <1>3. LinkInv
    BY <1>1 DEF LinkInv, RegistersCount, Asked, Told
  <1>4. OutcomeInv
    BY <1>1 DEF OutcomeInv
  <1>5. HostInv
    BY <1>1 DEF HostInv, Pending
  <1> QED
    BY <1>2, <1>3, <1>4, <1>5 DEF RpcInv
LEMMA TypesStep ==
    ASSUME RpcInv, [Next]_vars
    PROVE  Types'
  <1>1. Types /\ RegistersCount
    BY DEF RpcInv, LinkInv
  <1>2. call' \in [Calls -> CallRecord] /\ \A c \in Calls : Moves(c)
    BY <1>1, CallStep
  <1>3. NetMoves /\ TabMoves /\ HostMoves
    BY <1>1, NetStep, TabStep, HostStep
  <1>4. ASSUME NEW c \in Calls, call'[c].state \notin {"unused", "waiting", "failed"}
        PROVE  call'[c].endpoint \in Endpoints
    <2>1. Moves(c) /\ call[c] \in CallRecord
      BY <1>1, <1>2 DEF Types
    <2>2. call[c].state \notin {"unused", "waiting", "failed"} => call[c].endpoint \in Endpoints
      BY <1>1 DEF Types
    <2> QED
      BY <1>4, <2>1, <2>2 DEF Moves, Ends, Live, Pending
  <1> QED
    BY <1>2, <1>3, <1>4 DEF Types, NetMoves, TabMoves, HostMoves

\* What is known of a call that was sent stays true.
LEMMA SentCallsStay ==
    ASSUME RpcInv, [Next]_vars, NEW c \in Calls, call[c].state \notin Early
    PROVE  /\ call'[c].state \notin Early /\ call'[c].endpoint = call[c].endpoint
           /\ Over(c) => Over(c)'
           /\ Blocked(c) => Blocked(c)'
           /\ Final(c) => Final(c)'
  <1>t. Types
    BY DEF RpcInv
  <1>1. Moves(c) /\ NetMoves /\ TabMoves
    BY <1>t, CallStep, NetStep, TabStep
  <1>2. call'[c].state \notin Early /\ call'[c].endpoint = call[c].endpoint
    BY <1>1 DEF Moves, Ends, Early, Pending
  <1>3. \A e \in Endpoints : Remembers(e)
    BY <1>1 DEF TabMoves
  <1>4. Over(c) => Over(c)'
    BY <1>2, <1>3 DEF Over, Remembers
  <1>5. Blocked(c) => Blocked(c)'
    BY <1>2, <1>3 DEF Blocked, Remembers, Full
  <1>6. ASSUME Final(c), ~Over(c)'
        PROVE  Final(c)'
    <2>1. starts[c] = 0 /\ (Blocked(c) \/ \A e \in Endpoints : ~Asked("request", e, c))
      BY <1>4, <1>6 DEF Final
    <2>2. \A e \in Endpoints : Asked("request", e, c)' => Asked("request", e, c)
      BY <1>1, Zenon DEF NetMoves, Early
    <2>3. starts'[c] = 0
      <3>1. SUFFICES ASSUME NEW e \in Endpoints, Starts(e, c)
                     PROVE  FALSE
        BY <1>1, <2>1 DEF TabMoves
      <3>2. Blocked(c) /\ call[c].endpoint = e
        BY <2>1, <3>1 DEF Starts, RpcInv, LinkInv
      <3>3. tab[e].status = "disposed"
        BY <3>1, <3>2 DEF Blocked, Starts
      <3> QED
        BY <1>4, <1>6, <3>2, <3>3 DEF Over
    <2> QED
      BY <1>2, <1>5, <2>1, <2>2, <2>3 DEF Final
  <1> QED
    BY <1>2, <1>4, <1>5, <1>6 DEF Final

LEMMA LinkStep ==
    ASSUME RpcInv, [Next]_vars
    PROVE  LinkInv'
  <1>t. Types /\ LinkInv /\ OutcomeInv
    BY DEF RpcInv
  <1>m. NetMoves /\ TabMoves /\ \A c \in Calls : Moves(c)
    BY <1>t, CallStep, NetStep, TabStep
  <1>1. RegistersCount'
    BY <1>m, <1>t DEF NetMoves, LinkInv, RegistersCount
  <1>2. ASSUME NEW e \in Endpoints, NEW c \in Calls,
               Asked("request", e, c)' \/ Asked("cancel", e, c)'
                  \/ c \in tab'[e].seen \cup tab'[e].active
        PROVE  call'[c].endpoint = e /\ call'[c].state \notin Early
    <2>1. CASE \/ Asked("request", e, c) \/ Asked("cancel", e, c)
               \/ c \in tab[e].seen \cup tab[e].active
      <3>1. call[c].endpoint = e /\ call[c].state \notin Early
        BY <1>t, <2>1 DEF LinkInv
      <3> QED
        BY <3>1, SentCallsStay
    <2>2. CASE c \in tab'[e].seen \cup tab'[e].active
      BY <1>m, <2>1, <2>2 DEF TabMoves
    <2>3. CASE Asked("request", e, c)' /\ ~Asked("request", e, c)
      <3>1. /\ e = call[c].endpoint /\ call[c].state = "encrypting"
            /\ call'[c].state \in {"posted", "failed"}
        BY <1>m, <2>3 DEF NetMoves
      <3>2. call'[c].endpoint = call[c].endpoint
        BY <1>m, <3>1 DEF Moves, Ends
      <3> QED
        BY <3>1, <3>2 DEF Early
    <2>4. CASE Asked("cancel", e, c)' /\ ~Asked("cancel", e, c)
      BY <1>m, <2>4 DEF NetMoves, Ends, Early
    <2> QED
      BY <1>2, <2>1, <2>2, <2>3, <2>4
  <1>3. ASSUME NEW e \in Endpoints, NEW c \in Calls, Told(e, c, "answered")'
        PROVE  c \in finished'
    BY <1>3, <1>m, <1>t DEF NetMoves, TabMoves, LinkInv
  <1>4. ASSUME NEW e \in Endpoints, NEW c \in Calls, Told(e, c, "refused")'
        PROVE  Final(c)'
    <2>1. CASE Told(e, c, "refused")
      <3>1. Final(c)
        BY <1>t, <2>1 DEF LinkInv
      <3> QED
        BY <3>1, SentCallsStay DEF Final
    <2>2. CASE ~Told(e, c, "refused")
      <3>1. /\ Asked("request", e, c) /\ c \notin tab[e].seen /\ UNCHANGED starts
            /\ c \in tab'[e].seen \/ (Full(e) /\ UNCHANGED tab)
        BY <1>4, <1>m, <2>2 DEF NetMoves
      <3>2. call[c].endpoint = e /\ call[c].state \notin Early
        BY <1>t, <3>1 DEF LinkInv
      <3>3. call'[c].endpoint = e /\ call'[c].state \notin Early
        BY <3>2, SentCallsStay
      <3>4. Blocked(c)'
        BY <3>1, <3>3 DEF Blocked, Full
      <3>5. CASE starts[c] > 0
        <4>1. Over(c)
          BY <1>t, <3>1, <3>2, <3>5 DEF OutcomeInv, Over
        <4> QED
          BY <3>2, <3>3, <4>1, SentCallsStay DEF Final
      <3>6. CASE starts[c] = 0
        BY <3>1, <3>3, <3>4, <3>6 DEF Final
      <3> QED
        BY <1>t, <3>5, <3>6 DEF Types
    <2> QED
      BY <2>1, <2>2
  <1> QED
    BY <1>1, <1>2, <1>3, <1>4 DEF LinkInv

LEMMA OutcomeStep ==
    ASSUME RpcInv, [Next]_vars
    PROVE  OutcomeInv'
  <1>t. Types /\ LinkInv /\ OutcomeInv
    BY DEF RpcInv
  <1>m. NetMoves /\ TabMoves /\ \A c \in Calls : Moves(c)
    BY <1>t, CallStep, NetStep, TabStep
  <1> SUFFICES ASSUME NEW c \in Calls
               PROVE  /\ call'[c].state = "answered" => c \in finished'
                      /\ call'[c].state = "refused" => Final(c)'
                      /\ starts'[c] > 0 => /\ call'[c].state \notin Early
                                           /\ \E e \in Endpoints : call'[c].endpoint = e /\
                                                 (c \in tab'[e].seen \/ tab'[e].status = "disposed")
                      /\ starts'[c] <= 1 \/ Over(c)'
                      /\ c \in cancels' => call'[c].state \notin Early /\ Blocked(c)'
    BY DEF OutcomeInv
  <1>c. Moves(c) /\ call[c] \in CallRecord /\ starts[c] \in Nat
    BY <1>m, <1>t DEF Types
  <1>a. \A e \in Endpoints : Asked("request", e, c) \/ Asked("cancel", e, c) =>
                              call[c].endpoint = e /\ call[c].state \notin Early
    BY <1>t DEF LinkInv
  <1>1. ASSUME call'[c].state = "answered"
        PROVE  c \in finished'
    <2>1. CASE call[c].state = "answered"
      BY <1>m, <1>t, <2>1 DEF OutcomeInv, TabMoves
    <2>2. CASE call[c].state # "answered"
      <3>1. Told(call[c].endpoint, c, "answered") /\ call[c].endpoint \in Endpoints
        BY <1>1, <1>c, <1>t, <2>2 DEF Moves, Ends, Types, Pending
      <3> QED
        BY <1>m, <1>t, <3>1 DEF LinkInv, TabMoves
    <2> QED
      BY <2>1, <2>2
  <1>2. ASSUME call'[c].state = "refused"
        PROVE  Final(c)'
    <2>1. CASE call[c].state = "refused"
      BY <1>t, <2>1, SentCallsStay DEF OutcomeInv, Early
    <2>2. CASE call[c].state \in {"selected", "encrypting"} /\ UNCHANGED net
      <3>1. \A e \in Endpoints : ~Asked("request", e, c)
        BY <1>a, <2>2 DEF Early
      <3>2. \A e \in Endpoints : ~Asked("request", e, c)'
        BY <2>2, <3>1 DEF Asked
      <3>3. starts[c] = 0
        BY <1>c, <1>t, <2>2 DEF OutcomeInv, Early
      <3>4. starts'[c] = 0
        BY <1>m, <3>1, <3>3 DEF TabMoves, Starts
      <3> QED
        BY <1>2, <3>2, <3>4 DEF Final, Early
    <2>3. CASE Told(call[c].endpoint, c, "refused") /\ Pending(c)
      <3>1. Final(c)
        BY <1>t, <2>3 DEF LinkInv, Types, Pending
      <3> QED
        BY <3>1, SentCallsStay DEF Final
    <2> QED
      BY <1>2, <1>c, <2>1, <2>2, <2>3 DEF Moves, Ends
  <1>3. ASSUME starts'[c] = starts[c], starts[c] > 0
        PROVE  /\ call'[c].state \notin Early
               /\ \E e \in Endpoints : call'[c].endpoint = e /\
                     (c \in tab'[e].seen \/ tab'[e].status = "disposed")
               /\ starts'[c] <= 1 \/ Over(c)'
    <2>1. PICK e \in Endpoints : /\ call[c].endpoint = e
                                 /\ c \in tab[e].seen \/ tab[e].status = "disposed"
      BY <1>3, <1>t DEF OutcomeInv
    <2>2. call[c].state \notin Early /\ (starts[c] <= 1 \/ Over(c))
      BY <1>3, <1>t DEF OutcomeInv
    <2>3. /\ call'[c].state \notin Early /\ call'[c].endpoint = e
          /\ starts'[c] <= 1 \/ Over(c)'
      BY <1>3, <2>1, <2>2, SentCallsStay
    <2>4. c \in tab'[e].seen \/ tab'[e].status = "disposed"
      BY <1>m, <2>1 DEF TabMoves, Remembers
    <2> QED
      BY <2>3, <2>4
  <1>4. ASSUME starts'[c] = starts[c] + 1, NEW e \in Endpoints, Starts(e, c)
        PROVE  /\ call'[c].state \notin Early
               /\ call'[c].endpoint = e /\ c \in tab'[e].seen
               /\ starts'[c] <= 1 \/ Over(c)'
    <2>1. call[c].endpoint = e /\ call[c].state \notin Early
      BY <1>4, <1>a DEF Starts
    <2>2. starts[c] > 0 => Over(c)
      BY <1>4, <1>t, <2>1 DEF OutcomeInv, Over, Starts
    <2>3. starts'[c] <= 1 \/ starts[c] > 0
      BY <1>4, <1>c
    <2> QED
      BY <1>4, <2>1, <2>2, <2>3, SentCallsStay DEF Starts
  <1>5. ASSUME c \in cancels'
        PROVE  call'[c].state \notin Early /\ Blocked(c)'
    <2>1. CASE c \in cancels
      BY <1>t, <2>1, SentCallsStay DEF OutcomeInv
    <2>2. CASE c \notin cancels
      <3>1. PICK e \in Endpoints : /\ Asked("cancel", e, c)
                                   /\ c \in tab'[e].seen \/ (Full(e) /\ tab'[e].seen = tab[e].seen)
        BY <1>5, <1>m, <2>2 DEF TabMoves
      <3>2. call'[c].endpoint = e /\ call'[c].state \notin Early
        BY <1>a, <3>1, SentCallsStay
      <3> QED
        BY <3>1, <3>2 DEF Blocked, Full
    <2> QED
      BY <2>1, <2>2
  <1>6. starts'[c] = starts[c] \/ (starts'[c] = starts[c] + 1 /\ \E e \in Endpoints : Starts(e, c))
    BY <1>m DEF TabMoves
  <1>7. starts'[c] = 0 => starts'[c] <= 1
    OBVIOUS
  <1> QED
    BY <1>1, <1>2, <1>3, <1>4, <1>5, <1>6, <1>7, <1>c

LEMMA HostInvStep ==
    ASSUME RpcInv, [Next]_vars
    PROVE  HostInv'
  <1>t. Types /\ LinkInv /\ HostInv
    BY DEF RpcInv
  <1>m. HostMoves /\ \A c \in Calls : Moves(c)
    BY <1>t, CallStep, HostStep DEF LinkInv
  <1>1. ASSUME NEW c \in Calls, Pending(c)'
        PROVE  registered'[call'[c].endpoint] > 0
    <2>1. CASE Pending(c) /\ call'[c].endpoint = call[c].endpoint
      <3>1. registered[call[c].endpoint] > 0 /\ call[c].endpoint \in Endpoints
        BY <1>t, <2>1 DEF HostInv, Types, Pending
      <3>2. call'[c].state # "failed"
        BY <1>1 DEF Pending
      <3>3. registered'[call[c].endpoint] # 0 /\ registered'[call[c].endpoint] \in Nat
        BY <1>m, <2>1, <3>1, <3>2 DEF HostMoves
      <3> QED
        BY <2>1, <3>3
    <2>2. CASE /\ call[c].state = "selected" /\ call'[c].endpoint = call[c].endpoint
               /\ registered[call[c].endpoint] > 0 /\ UNCHANGED registered
      BY <2>2
    <2>3. Moves(c)
      BY <1>m
    <2> QED
      BY <1>1, <2>1, <2>2, <2>3 DEF Moves, Ends, Pending
  <1>2. ASSUME NEW c \in Calls, call'[c].state = "waiting",
               NEW e \in Endpoints, registered'[e] > 0, ~scheduled'
        PROVE  FALSE
    <2>1. ~scheduled
      BY <1>2, <1>m DEF HostMoves
    <2>2. registered[e] > 0
      BY <1>2, <1>m, <1>t DEF HostMoves, Types
    <2>3. call[c].state # "waiting"
      BY <1>t, <2>1, <2>2 DEF HostInv
    <2>4. Live = {} /\ e \in Live
      BY <1>2, <1>m, <2>2, <2>3 DEF Moves, Ends, Live
    <2> QED
      BY <2>4
  <1> QED
    BY <1>1, <1>2 DEF HostInv

LEMMA RpcStep == RpcInv /\ [Next]_vars => RpcInv'
  BY TypesStep, LinkStep, OutcomeStep, HostInvStep DEF RpcInv

\* The invariant of the host, its calls, the frames and the tabs.
THEOREM RpcInvariant == Spec => []RpcInv
  BY RpcInit, RpcStep, PTL DEF Spec

\* While its tab lives, a request is run at most once, however often its frame
\* arrives, at whatever limits, and however often the host is forgotten.
THEOREM RequestsRunOnce == Spec => []HandledOnce
  <1>1. RpcInv => HandledOnce
    BY DEF RpcInv, OutcomeInv, HandledOnce
  <1> QED
    BY <1>1, RpcInvariant, PTL

\* A call that was refused, by either side, is not running and never will.
THEOREM RefusedNeverRuns == Spec => []RefusalsAreFinal
  <1>1. RpcInv => RefusalsAreFinal
    BY DEF RpcInv, OutcomeInv, RefusalsAreFinal, Final
  <1> QED
    BY <1>1, RpcInvariant, PTL

\* A call whose cancellation its tab has accepted does not start any more.
THEOREM CancelledCallsStay == Spec => CancelledNeverStarts
  <1>1. ASSUME RpcInv, [Next]_vars, NEW c \in cancels
        PROVE  starts'[c] = starts[c] \/ Over(c)
    <2>1. Types /\ LinkInv /\ c \in Calls /\ Blocked(c)
      BY <1>1 DEF RpcInv, OutcomeInv, Types
    <2>2. starts'[c] = starts[c] \/ \E e \in Endpoints : Starts(e, c)
      BY <1>1, <2>1, TabStep DEF TabMoves
    <2>3. ASSUME NEW e \in Endpoints, Starts(e, c)
          PROVE  Over(c)
      <3>1. call[c].endpoint = e
        BY <2>1, <2>3 DEF LinkInv, Starts
      <3> QED
        BY <2>1, <2>3, <3>1 DEF Blocked, Starts, Over
    <2> QED
      BY <2>2, <2>3
  <1>2. RpcInv /\ [Next]_vars => [\A c \in cancels : starts'[c] = starts[c] \/ Over(c)]_vars
    BY <1>1
  <1> QED
    BY <1>2, RpcInvariant, PTL DEF Spec, CancelledNeverStarts

\* A call is settled by the result of its own handler.
THEOREM AnswersComeHome == Spec => []AnswersAreOwn
  <1>1. RpcInv => AnswersAreOwn
    BY DEF RpcInv, OutcomeInv, AnswersAreOwn
  <1> QED
    BY <1>1, RpcInvariant, PTL

\* No call waits for an endpoint the host has dropped, or for one to come while
\* exactly one is there.
THEOREM CallsAreNotStranded == Spec => []NoCallIsStranded
  <1>1. ASSUME RpcInv
        PROVE  NoCallIsStranded
    <2>1. Cardinality(Live) = 1 => \E e \in Endpoints : registered[e] > 0
      <3>1. Cardinality(Live) = 1 => Live # {}
        BY FS_EmptySet
      <3> QED
        BY <3>1 DEF Live
    <2> QED
      BY <1>1, <2>1 DEF RpcInv, HostInv, NoCallIsStranded
  <1> QED
    BY <1>1, RpcInvariant, PTL
-----------------------------------------------------------------------------
(* The limits. *)

PendingCalls == {c \in Calls : Pending(c)}

HostLimits ==
    /\ up \in BOOLEAN /\ scheduled \in BOOLEAN
    /\ sessionIds \subseteq Endpoints /\ farewells \subseteq Endpoints
    /\ registered \in [Endpoints -> Counter]
    /\ IsFiniteSet(Live) /\ Cardinality(Live) <= MaxEndpoints

CallLimits == IsFiniteSet(PendingCalls) /\ Cardinality(PendingCalls) <= MaxPending

TabLimit(t) ==
    /\ t.counter \in Counter
    /\ t.status = "live" => t.counter <= MaxCounter
    /\ IsFiniteSet(t.active) /\ Cardinality(t.active) <= MaxActive
    /\ Cardinality(t.seen) <= MaxRequestIds

FrameLimits ==
    /\ \A f \in net : f \in SignedFrames => f.counter \in Counter
    /\ finished \subseteq Calls

Limits == HostLimits /\ CallLimits /\ (\A e \in Endpoints : TabLimit(tab[e])) /\ FrameLimits

LEMMA LimitsAre == {MaxEndpoints, MaxPending, MaxActive, MaxRequestIds, MaxCounter} \subseteq Nat \ {0}
  BY BrowserRpcAssumption

LEMMA Grown ==
    ASSUME NEW S, IsFiniteSet(S), NEW x, NEW M \in Nat, Cardinality(S) < M,
           NEW T, T \subseteq S \cup {x}
    PROVE  IsFiniteSet(T) /\ Cardinality(T) <= M
  <1>1. /\ IsFiniteSet(S \cup {x}) /\ Cardinality(S) \in Nat
        /\ Cardinality(S \cup {x}) \in {Cardinality(S), Cardinality(S) + 1}
    BY FS_AddElement, FS_CardinalityType
  <1>2. IsFiniteSet(T) /\ Cardinality(T) <= Cardinality(S \cup {x})
    BY <1>1, FS_Subset
  <1>3. Cardinality(T) \in Nat
    BY <1>2, FS_CardinalityType
  <1> QED
    BY <1>1, <1>2, <1>3

LEMMA Shrunk ==
    ASSUME NEW S, IsFiniteSet(S), NEW M \in Nat, Cardinality(S) <= M, NEW T, T \subseteq S
    PROVE  IsFiniteSet(T) /\ Cardinality(T) <= M
  <1>1. IsFiniteSet(T) /\ Cardinality(T) <= Cardinality(S)
    BY FS_Subset
  <1>2. Cardinality(T) \in Nat /\ Cardinality(S) \in Nat
    BY <1>1, FS_CardinalityType
  <1> QED
    BY <1>1, <1>2

LEMMA HostLimitsStep ==
    ASSUME Types, RegistersCount, Limits, [Next]_vars
    PROVE  HostLimits'
  <1>l. HostLimits /\ Counter \subseteq Nat /\ 0 \in Counter /\ MaxEndpoints \in Nat
    BY LimitsAre DEF Limits, Counter
  <1>r. registered \in [Endpoints -> Counter]
    BY <1>l DEF HostLimits
  <1>u. ASSUME UNCHANGED registered
        PROVE  Live' = Live
    BY <1>u DEF Live
  <1>o. ASSUME UNCHANGED <<hostVars, farewells>>
        PROVE  HostLimits'
    BY <1>l, <1>o, <1>u DEF HostLimits, hostVars
  <1>d. ASSUME NEW E \in SUBSET Endpoints, Drop(E)
        PROVE  /\ registered' \in [Endpoints -> Counter]
               /\ IsFiniteSet(Live') /\ Cardinality(Live') <= MaxEndpoints
    <2>1. registered' = [e \in Endpoints |-> IF e \in E THEN 0 ELSE registered[e]]
      BY <1>d DEF Drop
    <2>2. registered' \in [Endpoints -> Counter]
      BY <1>l, <1>r, <2>1
    <2>3. Live' \subseteq Live
      BY <2>1 DEF Live
    <2> QED
      BY <1>l, <2>2, <2>3, Shrunk DEF HostLimits
  <1>n. ASSUME NEW e \in Endpoints, NEW n \in Counter, registered' = [registered EXCEPT ![e] = n]
        PROVE  /\ registered' \in [Endpoints -> Counter]
               /\ Live' \subseteq Live \cup {e}
               /\ registered[e] > 0 => Live' \subseteq Live
    BY <1>l, <1>n, <1>r DEF Live
  <1>1. ASSUME NEW e \in Endpoints, NEW n \in Counter, Register(e, n)
        PROVE  HostLimits'
    <2>1. /\ registered' = [registered EXCEPT ![e] = n] /\ UNCHANGED <<up, farewells>>
          /\ \/ registered[e] > 0 /\ UNCHANGED <<sessionIds, scheduled>>
             \/ /\ Cardinality(Live) < MaxEndpoints
                /\ sessionIds' = sessionIds \cup {e} /\ scheduled' = TRUE
      BY <1>1 DEF Register, history
    <2>2. CASE registered[e] > 0 /\ UNCHANGED <<sessionIds, scheduled>>
      <3>1. registered' \in [Endpoints -> Counter] /\ Live' \subseteq Live
        BY <1>n, <2>1, <2>2
      <3>2. IsFiniteSet(Live') /\ Cardinality(Live') <= MaxEndpoints
        BY <1>l, <3>1, Shrunk DEF HostLimits
      <3> QED
        BY <1>l, <2>1, <2>2, <3>1, <3>2 DEF HostLimits
    <2>3. CASE /\ Cardinality(Live) < MaxEndpoints
               /\ sessionIds' = sessionIds \cup {e} /\ scheduled' = TRUE
      <3>1. registered' \in [Endpoints -> Counter] /\ Live' \subseteq Live \cup {e}
        BY <1>n, <2>1
      <3>2. IsFiniteSet(Live') /\ Cardinality(Live') <= MaxEndpoints
        BY <1>l, <2>3, <3>1, Grown DEF HostLimits
      <3> QED
        BY <1>l, <2>1, <2>3, <3>1, <3>2 DEF HostLimits
    <2> QED
      BY <2>1, <2>2, <2>3
  <1>2. ASSUME NEW e \in Endpoints, NEW n \in Counter, Heartbeat(e, n)
        PROVE  HostLimits'
    <2>1. /\ registered' = [registered EXCEPT ![e] = n] /\ registered[e] > 0
          /\ UNCHANGED <<up, farewells, sessionIds, scheduled>>
      BY <1>2 DEF Heartbeat, history
    <2>2. registered' \in [Endpoints -> Counter] /\ Live' \subseteq Live
      BY <1>n, <2>1
    <2>3. IsFiniteSet(Live') /\ Cardinality(Live') <= MaxEndpoints
      BY <1>l, <2>2, Shrunk DEF HostLimits
    <2> QED
      BY <1>l, <2>1, <2>2, <2>3 DEF HostLimits
  <1>3. ASSUME NEW e \in Endpoints, NEW n \in Counter, Disconnect(e, n)
        PROVE  HostLimits'
    <2>1. /\ farewells' = farewells \cup {e} /\ sessionIds' \in {sessionIds, sessionIds \cup {e}}
          /\ UNCHANGED <<up, scheduled>>
      BY <1>3 DEF Disconnect
    <2>2. Drop({e}) \/ UNCHANGED registered
      BY <1>3 DEF Disconnect
    <2>3. /\ registered' \in [Endpoints -> Counter]
          /\ IsFiniteSet(Live') /\ Cardinality(Live') <= MaxEndpoints
      BY <1>d, <1>l, <1>u, <2>2 DEF HostLimits
    <2> QED
      BY <1>l, <2>1, <2>3 DEF HostLimits
  <1>4. ASSUME NEW e \in Endpoints, Sweep(e)
        PROVE  HostLimits'
    <2>1. Drop({e}) /\ UNCHANGED <<up, sessionIds, scheduled, farewells>>
      BY <1>4 DEF Sweep, history
    <2> QED
      BY <1>d, <1>l, <2>1 DEF HostLimits
  <1>5. CASE DisposeHost
    <2>1. /\ up' = FALSE /\ Drop(Live) /\ Live \in SUBSET Endpoints /\ sessionIds' = {}
          /\ UNCHANGED <<scheduled, farewells>>
      BY <1>5 DEF DisposeHost, history, Live
    <2> QED
      BY <1>d, <1>l, <2>1 DEF HostLimits
  <1>6. CASE Wake
    <2>1. UNCHANGED <<up, registered, sessionIds, farewells>> /\ scheduled' = FALSE
      BY <1>6 DEF Wake, history
    <2> QED
      BY <1>l, <1>u, <2>1 DEF HostLimits
  <1>7. ASSUME NEW e \in Endpoints, TabActions(e)
        PROVE  UNCHANGED <<hostVars, farewells>>
    BY <1>7 DEF TabActions, Announce, Beat, ForgetHost, Dispose, Disposed, Handle, Finish, Abort,
       Cancel, history
  <1>8. CASE UNCHANGED vars
    BY <1>8, <1>o DEF vars, history
  <1> QED
    BY <1>1, <1>2, <1>3, <1>4, <1>5, <1>6, <1>7, <1>8, <1>o DEF Next, TabActions, Find,
       StopWaiting, Request, Post, GiveUp, ReceiveResponse, history

LEMMA CallLimitsStep ==
    ASSUME Types, Limits, [Next]_vars
    PROVE  CallLimits'
  <1>l. CallLimits /\ MaxPending \in Nat
    BY LimitsAre DEF Limits
  <1>s. ASSUME PendingCalls' \subseteq PendingCalls
        PROVE  CallLimits'
    BY <1>l, <1>s, Shrunk DEF CallLimits
  <1>u. ASSUME UNCHANGED call
        PROVE  PendingCalls' \subseteq PendingCalls
    BY <1>u DEF PendingCalls, Pending
  <1>d. ASSUME NEW E \in SUBSET Endpoints, Drop(E)
        PROVE  PendingCalls' \subseteq PendingCalls
    BY <1>d, DropIs DEF PendingCalls, Pending, Ends
  <1>c. ASSUME NEW c \in Calls, NEW state \in CallStates, Settle(c, state)
        PROVE  /\ PendingCalls' \subseteq PendingCalls \cup {c}
               /\ Pending(c) \/ state \notin {"encrypting", "posted"} =>
                     PendingCalls' \subseteq PendingCalls
    BY <1>c, SettleIs DEF PendingCalls, Pending, Ends
  <1>1. ASSUME NEW e \in Endpoints, TabActions(e)
        PROVE  CallLimits'
    <2>1. UNCHANGED call
      BY <1>1 DEF TabActions, Announce, Beat, ForgetHost, Dispose, Disposed, Handle, Finish, Abort,
         Cancel
    <2> QED
      BY <1>s, <1>u, <2>1
  <1>2. ASSUME NEW e \in Endpoints, NEW n,
               Register(e, n) \/ Heartbeat(e, n) \/ Disconnect(e, n) \/ Sweep(e)
        PROVE  CallLimits'
    <2>1. UNCHANGED call \/ Drop({e})
      BY <1>2 DEF Register, Heartbeat, Disconnect, Sweep
    <2> QED
      BY <1>d, <1>s, <1>u, <2>1
  <1>3. CASE DisposeHost
    <2>1. Drop(Live) /\ Live \in SUBSET Endpoints
      BY <1>3 DEF DisposeHost, Live
    <2> QED
      BY <1>d, <1>s, <2>1
  <1>4. ASSUME NEW c \in Calls, Find(c)
        PROVE  CallLimits'
    <2>1. /\ call[c].state = "unused" /\ UNCHANGED registered
          /\ call'[c] = Found(c) /\ \A d \in Calls \ {c} : call'[d] = call[d]
      BY <1>4 DEF Find, hostVars, Types
    <2>2. call'[c].state \in {"waiting", "failed", "selected"}
      BY <2>1, FoundMoves
    <2> QED
      BY <1>s, <2>1, <2>2 DEF PendingCalls, Pending
  <1>5. CASE Wake
    <2>1. /\ UNCHANGED registered
          /\ \A d \in Calls : call'[d] = IF call[d].state = "waiting" THEN Found(d) ELSE call[d]
      BY <1>5 DEF Wake
    <2>2. \A d \in Calls : call[d].state = "waiting" =>
                            call'[d].state \in {"waiting", "failed", "selected"}
      BY <2>1, FoundMoves
    <2> QED
      BY <1>s, <2>1, <2>2 DEF PendingCalls, Pending
  <1>6. ASSUME NEW c \in Calls, Request(c)
        PROVE  CallLimits'
    <2>1. CASE Settle(c, "failed") \/ Settle(c, "refused")
      BY <1>c, <1>s, <2>1 DEF CallStates
    <2>2. CASE ~(Cardinality(PendingCalls) >= MaxPending) /\ Settle(c, "encrypting")
      <3>1. Cardinality(PendingCalls) \in Nat
        BY <1>l, FS_CardinalityType DEF CallLimits
      <3>2. Cardinality(PendingCalls) < MaxPending
        BY <1>l, <2>2, <3>1
      <3>3. PendingCalls' \subseteq PendingCalls \cup {c}
        BY <1>c, <2>2 DEF CallStates
      <3> QED
        BY <1>l, <3>2, <3>3, Grown DEF CallLimits
    <2> QED
      BY <1>6, <2>1, <2>2 DEF Request, PendingCalls
  <1>7. ASSUME NEW c \in Calls, StopWaiting(c) \/ Post(c) \/ GiveUp(c)
        PROVE  CallLimits'
    BY <1>7, <1>c, <1>s DEF StopWaiting, Post, GiveUp, CallStates, Pending
  <1>8. ASSUME NEW c \in Calls, NEW answer \in {"answered", "refused"}, ReceiveResponse(c, answer)
        PROVE  CallLimits'
    BY <1>8, <1>c, <1>s DEF ReceiveResponse, CallStates
  <1>9. CASE UNCHANGED vars
    BY <1>9, <1>s, <1>u DEF vars
  <1> QED
    BY <1>1, <1>2, <1>3, <1>4, <1>5, <1>6, <1>7, <1>8, <1>9
       DEF Next, TabActions
LEMMA TabLimitsStep ==
    ASSUME Types, Limits, [Next]_vars, NEW x \in Endpoints
    PROVE  TabLimit(tab'[x])
  <1>l. {MaxActive, MaxRequestIds, MaxCounter} \subseteq Nat \ {0} /\ Counter = 0 .. MaxCounter + 1
    BY LimitsAre DEF Counter
  <1>t. \A e \in Endpoints : /\ tab[e] \in TabRecord /\ IsFiniteSet(tab[e].seen)
                             /\ TabLimit(tab[e])
    BY DEF Types, Limits
  <1>u. ASSUME UNCHANGED tab
        PROVE  TabLimit(tab'[x])
    BY <1>t, <1>u
  <1>r. ASSUME NEW e \in Endpoints, NEW r, Update(e, r), TabLimit(r)
        PROVE  TabLimit(tab'[x])
    BY <1>r, <1>t DEF Update, Types
  <1>1. ASSUME NEW e \in Endpoints, Announce(e) \/ Beat(e) \/ ForgetHost(e)
        PROVE  TabLimit(tab'[x])
    <2>1. \E n \in Nat : Update(e, [tab[e] EXCEPT !.counter = n]) /\ n <= MaxCounter
      <3> DEFINE n == tab[e].counter + 1
      <3>1. tab[e].counter \in Nat /\ n \in Nat
        BY <1>t DEF TabRecord
      <3>2. CASE Announce(e) \/ Beat(e)
        <4>1. Update(e, [tab[e] EXCEPT !.counter = n])
          BY <3>2 DEF Announce, Beat
        <4>2. n <= MaxCounter
          BY <1>l, <3>1, <3>2 DEF Announce, Beat
        <4> QED
          BY <3>1, <4>1, <4>2
      <3>3. CASE ForgetHost(e)
        BY <1>l, <3>3 DEF ForgetHost
      <3> QED
        BY <1>1, <3>2, <3>3
    <2>0. PICK n \in Nat : Update(e, [tab[e] EXCEPT !.counter = n]) /\ n <= MaxCounter
      BY <2>1
    <2> DEFINE r == [tab[e] EXCEPT !.counter = n]
    <2>2. /\ r.counter = n /\ r.status = tab[e].status /\ r.active = tab[e].active
          /\ r.seen = tab[e].seen
      BY <1>t DEF TabRecord
    <2>3. Update(e, r)
      BY <2>0
    <2> HIDE DEF r
    <2>4. TabLimit(r)
      BY <1>l, <1>t, <2>0, <2>2 DEF TabLimit
    <2> QED
      BY <1>r, <2>3, <2>4
  <1>2. ASSUME NEW e \in Endpoints, Dispose(e)
        PROVE  TabLimit(tab'[x])
    <2> DEFINE q == [tab[e] EXCEPT !.status = "disposing", !.active = {}]
               r == [tab[e] EXCEPT !.status = "disposing", !.active = {}, !.counter = @ + 1]
    <2>1. tab[e].status = "live" /\ (Update(e, q) \/ Update(e, r))
      BY <1>2, Zenon DEF Dispose
    <2>2. /\ q.status = "disposing" /\ q.active = {} /\ q.seen = tab[e].seen
          /\ q.counter = tab[e].counter
      BY <1>t DEF TabRecord
    <2>3. /\ r.status = "disposing" /\ r.active = {} /\ r.seen = tab[e].seen
          /\ r.counter = tab[e].counter + 1
      BY <1>t DEF TabRecord
    <2> HIDE DEF q, r
    <2>4. IsFiniteSet({}) /\ Cardinality({}) = 0
      BY FS_EmptySet
    <2>5. TabLimit(q)
      BY <1>l, <1>t, <2>1, <2>2, <2>4 DEF TabLimit
    <2>6. TabLimit(r)
      BY <1>l, <1>t, <2>1, <2>3, <2>4 DEF TabLimit
    <2> QED
      BY <1>r, <2>1, <2>5, <2>6
  <1>3. ASSUME NEW e \in Endpoints, Disposed(e)
        PROVE  TabLimit(tab'[x])
    <2> DEFINE L == {f.call : f \in {g \in net : g.kind \in {"request", "cancel"}
                                                 /\ g.endpoint = e}}
               r == [tab[e] EXCEPT !.status = "disposed", !.counter = 0, !.seen = {}, !.late = L]
    <2>1. Update(e, r)
      BY <1>3 DEF Disposed
    <2> HIDE DEF L
    <2>2. r.status = "disposed" /\ r.counter = 0 /\ r.seen = {} /\ r.active = tab[e].active
      BY <1>t DEF TabRecord
    <2> HIDE DEF r
    <2>3. TabLimit(r)
      BY <1>l, <1>t, <2>2, FS_EmptySet DEF TabLimit
    <2> QED
      BY <1>r, <2>1, <2>3
  <1>g. ASSUME NEW e \in Endpoints, NEW c, NEW r,
               r.status = tab[e].status, r.counter = tab[e].counter,
               \/ r.seen \subseteq tab[e].seen
               \/ r.seen \subseteq tab[e].seen \cup {c} /\ Cardinality(tab[e].seen) < MaxRequestIds,
               \/ r.active \subseteq tab[e].active
               \/ r.active \subseteq tab[e].active \cup {c} /\ Cardinality(tab[e].active) < MaxActive
        PROVE  TabLimit(r)
    <2>0. /\ IsFiniteSet(tab[e].seen) /\ Cardinality(tab[e].seen) <= MaxRequestIds
          /\ IsFiniteSet(tab[e].active) /\ Cardinality(tab[e].active) <= MaxActive
          /\ MaxRequestIds \in Nat /\ MaxActive \in Nat
      BY <1>l, <1>t DEF TabLimit
    <2>1. Cardinality(r.seen) <= MaxRequestIds
      <3>1. CASE r.seen \subseteq tab[e].seen
        BY <2>0, <3>1, Shrunk
      <3>2. CASE r.seen \subseteq tab[e].seen \cup {c} /\ Cardinality(tab[e].seen) < MaxRequestIds
        BY <2>0, <3>2, Grown
      <3> QED
        BY <1>g, <3>1, <3>2
    <2>2. IsFiniteSet(r.active) /\ Cardinality(r.active) <= MaxActive
      <3>1. CASE r.active \subseteq tab[e].active
        BY <2>0, <3>1, Shrunk
      <3>2. CASE r.active \subseteq tab[e].active \cup {c} /\ Cardinality(tab[e].active) < MaxActive
        BY <2>0, <3>2, Grown
      <3> QED
        BY <1>g, <3>1, <3>2
    <2> QED
      BY <1>g, <1>t, <2>1, <2>2 DEF TabLimit
  <1>a. \A e \in Endpoints :
           ~(Cardinality(tab[e].active) >= MaxActive) => Cardinality(tab[e].active) < MaxActive
    <2> SUFFICES ASSUME NEW e \in Endpoints
                 PROVE  ~(Cardinality(tab[e].active) >= MaxActive)
                        => Cardinality(tab[e].active) < MaxActive
      OBVIOUS
    <2>1. Cardinality(tab[e].active) \in Nat
      BY <1>t, FS_CardinalityType DEF TabLimit
    <2> QED
      BY <1>l, <2>1
  <1>4. ASSUME NEW e \in Endpoints, NEW c \in Calls, Handle(e, c)
        PROVE  TabLimit(tab'[x])
    <2>1. CASE UNCHANGED tab
      BY <1>u, <2>1
    <2>2. CASE ~Full(e) /\ Update(e, [tab[e] EXCEPT !.seen = @ \cup {c}])
      <3> DEFINE r == [tab[e] EXCEPT !.seen = @ \cup {c}]
      <3>1. /\ r.seen = tab[e].seen \cup {c} /\ r.active = tab[e].active
            /\ r.status = tab[e].status /\ r.counter = tab[e].counter /\ Update(e, r)
        BY <1>t, <2>2 DEF TabRecord
      <3> HIDE DEF r
      <3> QED
        BY <1>g, <1>r, <2>2, <3>1, Limited
    <2>3. CASE /\ ~Full(e) /\ ~(Cardinality(tab[e].active) >= MaxActive)
               /\ Update(e, [tab[e] EXCEPT !.seen = @ \cup {c}, !.active = @ \cup {c}])
      <3> DEFINE r == [tab[e] EXCEPT !.seen = @ \cup {c}, !.active = @ \cup {c}]
      <3>1. /\ r.seen = tab[e].seen \cup {c} /\ r.active = tab[e].active \cup {c}
            /\ r.status = tab[e].status /\ r.counter = tab[e].counter /\ Update(e, r)
        BY <1>t, <2>3 DEF TabRecord
      <3> HIDE DEF r
      <3> QED
        BY <1>a, <1>g, <1>r, <2>3, <3>1, Limited
    <2> QED
      BY <1>4, <2>1, <2>2, <2>3 DEF Handle, Full
  <1>5. ASSUME NEW e \in Endpoints, NEW c \in Calls, Finish(e, c) \/ Abort(e, c)
        PROVE  TabLimit(tab'[x])
    <2> DEFINE r == [tab[e] EXCEPT !.active = @ \ {c}]
    <2>1. Update(e, r)
      BY <1>5 DEF Finish, Abort
    <2>2. /\ r.seen = tab[e].seen /\ r.active \subseteq tab[e].active
          /\ r.status = tab[e].status /\ r.counter = tab[e].counter
      BY <1>t DEF TabRecord
    <2> HIDE DEF r
    <2> QED
      BY <1>g, <1>r, <2>1, <2>2
  <1>6. ASSUME NEW e \in Endpoints, NEW c \in Calls, Cancel(e, c)
        PROVE  TabLimit(tab'[x])
    <2> DEFINE S == IF Cardinality(tab[e].seen) < MaxRequestIds THEN tab[e].seen \cup {c}
                    ELSE tab[e].seen
               r == [tab[e] EXCEPT !.active = @ \ {c}, !.seen = S]
    <2>1. Update(e, r)
      BY <1>6 DEF Cancel
    <2>2. \/ S \subseteq tab[e].seen
          \/ S \subseteq tab[e].seen \cup {c} /\ Cardinality(tab[e].seen) < MaxRequestIds
      OBVIOUS
    <2> HIDE DEF S
    <2>3. /\ r.seen = S /\ r.active \subseteq tab[e].active
          /\ r.status = tab[e].status /\ r.counter = tab[e].counter
      BY <1>t DEF TabRecord
    <2> HIDE DEF r
    <2> QED
      BY <1>g, <1>r, <2>1, <2>2, <2>3
  <1>7. CASE UNCHANGED vars
    BY <1>7, <1>u DEF vars
  <1> QED
    BY <1>1, <1>2, <1>3, <1>4, <1>5, <1>6, <1>7, <1>u DEF Next, Register, Heartbeat, Disconnect,
       Sweep, DisposeHost, Find, Wake, StopWaiting, Request, Post, GiveUp, ReceiveResponse

LEMMA FrameLimitsStep ==
    ASSUME Types, Limits, [Next]_vars
    PROVE  FrameLimits'
  <1>l. FrameLimits /\ MaxCounter \in Nat \ {0} /\ Counter = 0 .. MaxCounter + 1
    BY LimitsAre DEF Limits, Counter
  <1>t. \A e \in Endpoints : tab[e] \in TabRecord /\ TabLimit(tab[e])
    BY DEF Types, Limits
  <1>o. ASSUME NEW f, net' = net \/ net' = net \cup {f}, f \in SignedFrames => f.counter \in Counter,
               finished' = finished
        PROVE  FrameLimits'
    BY <1>l, <1>o DEF FrameLimits
  <1>1. ASSUME NEW e \in Endpoints, Announce(e) \/ Beat(e) \/ Dispose(e)
        PROVE  FrameLimits'
    <2>1. CASE UNCHANGED net
      BY <1>1, <1>l, <2>1 DEF FrameLimits, Announce, Beat, Dispose, history
    <2>2. ASSUME NEW k, net' = net \cup {Signed(k, e, tab[e].counter + 1)},
                 tab[e].counter + 1 \in Counter
          PROVE  FrameLimits'
      <3>1. Signed(k, e, tab[e].counter + 1).counter \in Counter
        BY <2>2 DEF Signed
      <3>2. UNCHANGED finished
        BY <1>1 DEF Announce, Beat, Dispose, history
      <3> QED
        BY <1>o, <2>2, <3>1, <3>2
    <2>3. CASE Announce(e)
      BY <1>l, <1>t, <2>1, <2>2, <2>3 DEF Announce, TabRecord
    <2>4. CASE Beat(e)
      BY <1>l, <1>t, <2>2, <2>4 DEF Beat, TabRecord
    <2>5. CASE Dispose(e)
      <3>1. tab[e].counter + 1 \in Counter
        BY <1>l, <1>t, <2>5 DEF Dispose, TabRecord, TabLimit
      <3>2. UNCHANGED net \/ net' = net \cup {Signed("disconnect", e, tab[e].counter + 1)}
        BY <2>5, Zenon DEF Dispose
      <3> QED
        BY <2>1, <2>2, <3>1, <3>2
    <2> QED
      BY <1>1, <2>3, <2>4, <2>5
  <1>2. ASSUME NEW e \in Endpoints, NEW c \in Calls, NEW a, Reply(e, c, a),
               finished' \subseteq finished \cup {c}
        PROVE  FrameLimits'
    <2> DEFINE f == [kind |-> "response", endpoint |-> e, call |-> c, answer |-> a]
    <2>1. net' = net \/ net' = net \cup {f}
      BY <1>2 DEF Reply
    <2>2. f \notin SignedFrames
      BY DEF SignedFrames
    <2> HIDE DEF f
    <2> QED
      BY <1>2, <1>l, <2>1, <2>2 DEF FrameLimits
  <1>3. ASSUME NEW c \in Calls, NEW k \in {"request", "cancel"}, finished' = finished,
               net' = net \/ net' = net \cup {Message(k, c)}
        PROVE  FrameLimits'
    <2>1. Message(k, c) \notin SignedFrames
      BY DEF Message, SignedFrames
    <2> QED
      BY <1>3, <1>o, <2>1
  <1>4. ASSUME NEW c \in Calls, Post(c) \/ GiveUp(c)
        PROVE  FrameLimits'
    <2>1. /\ UNCHANGED finished
          /\ \/ net' = net \/ net' = net \cup {Message("request", c)}
             \/ net' = net \cup {Message("cancel", c)}
      BY <1>4 DEF Post, GiveUp, history
    <2> QED
      BY <1>3, <2>1
  <1>5. ASSUME NEW e \in Endpoints, NEW c \in Calls, Handle(e, c) \/ Finish(e, c)
        PROVE  FrameLimits'
    <2>1. CASE UNCHANGED <<net, finished>>
      BY <1>l, <2>1 DEF FrameLimits
    <2>2. CASE Reply(e, c, "refused") /\ UNCHANGED finished
      BY <1>2, <2>2
    <2>3. CASE Finish(e, c)
      BY <1>2, <2>3 DEF Finish
    <2> QED
      BY <1>5, <2>1, <2>2, <2>3 DEF Handle
  <1>6. ASSUME UNCHANGED <<net, finished>>
        PROVE  FrameLimits'
    BY <1>6, <1>l DEF FrameLimits
  <1>7. CASE UNCHANGED vars
    BY <1>6, <1>7 DEF vars, history
  <1>8. ASSUME NEW e \in Endpoints,
               \/ \E n \in Counter : Register(e, n) \/ Heartbeat(e, n) \/ Disconnect(e, n)
               \/ Sweep(e) \/ ForgetHost(e) \/ Disposed(e)
               \/ \E c \in Calls : Abort(e, c) \/ Cancel(e, c)
        PROVE  UNCHANGED <<net, finished>>
    BY <1>8 DEF Register, Heartbeat, Disconnect, Sweep, ForgetHost, Disposed, Abort, Cancel, history
  <1>9. ASSUME NEW c \in Calls,
               \/ Find(c) \/ StopWaiting(c) \/ Request(c)
               \/ \E answer \in {"answered", "refused"} : ReceiveResponse(c, answer)
        PROVE  UNCHANGED <<net, finished>>
    BY <1>9 DEF Find, StopWaiting, Request, ReceiveResponse, history
  <1>10. CASE Wake
    <2>1. UNCHANGED <<net, finished>>
      BY <1>10 DEF Wake, history
    <2> QED
      BY <1>6, <2>1
  <1>11. CASE DisposeHost
    <2>1. UNCHANGED <<net, finished>>
      BY <1>11 DEF DisposeHost, history
    <2> QED
      BY <1>6, <2>1
  <1> QED
    BY <1>1, <1>4, <1>5, <1>6, <1>7, <1>8, <1>9, <1>10, <1>11 DEF Next

\* The type invariant, with the limits: endpoints, pending and running requests
\* and remembered identifiers never exceed what the code allows.
THEOREM LimitsAreKept == Spec => []TypeOK
  <1>1. Init => Limits
    <2> SUFFICES ASSUME Init
                 PROVE  Limits
      OBVIOUS
    <2>1. IsFiniteSet({}) /\ Cardinality({}) = 0
      BY FS_EmptySet
    <2>2. Live = {} /\ PendingCalls = {}
      BY DEF Init, Live, PendingCalls, Pending
    <2>3. MaxCounter \in Nat /\ 0 \in Counter
      BY LimitsAre DEF Counter
    <2>4. HostLimits
      <3>1. registered \in [Endpoints -> Counter]
        BY <2>3 DEF Init
      <3>2. IsFiniteSet(Live) /\ Cardinality(Live) <= MaxEndpoints
        BY <2>1, <2>2, LimitsAre
      <3> QED
        BY <3>1, <3>2 DEF Init, HostLimits
    <2>5. CallLimits
      BY <2>1, <2>2, LimitsAre DEF CallLimits
    <2>6. \A e \in Endpoints : TabLimit(tab[e])
      <3>1. \A e \in Endpoints : tab[e].counter = 0 /\ tab[e].active = {} /\ tab[e].seen = {}
        BY DEF Init
      <3>2. MaxActive \in Nat /\ MaxRequestIds \in Nat
        BY LimitsAre
      <3>3. 0 <= MaxCounter /\ 0 <= MaxActive /\ 0 <= MaxRequestIds
        BY <2>3, <3>2
      <3> QED
        BY <2>1, <2>3, <3>1, <3>3 DEF TabLimit
    <2>7. FrameLimits
      BY DEF Init, FrameLimits
    <2> QED
      BY <2>4, <2>5, <2>6, <2>7 DEF Limits
  <1>2. RpcInv /\ Limits /\ [Next]_vars => Limits'
    <2> SUFFICES ASSUME RpcInv, Limits, [Next]_vars
                 PROVE  Limits'
      OBVIOUS
    <2>1. Types /\ RegistersCount
      BY DEF RpcInv, LinkInv
    <2> QED
      BY <2>1, HostLimitsStep, CallLimitsStep, TabLimitsStep, FrameLimitsStep DEF Limits
  <1>3. RpcInv /\ Limits => TypeOK
    <2> SUFFICES ASSUME RpcInv, Limits
                 PROVE  TypeOK
      OBVIOUS
    <2>1. Types /\ HostLimits /\ CallLimits /\ FrameLimits /\ \A e \in Endpoints : TabLimit(tab[e])
      BY DEF RpcInv, Limits
    <2>2. tab \in [Endpoints -> Tab]
      <3>1. \A e \in Endpoints : tab[e] \in Tab
        BY <2>1 DEF Types, TabRecord, Tab, TabLimit
      <3> QED
        BY <2>1, <3>1 DEF Types
    <2>3. net \subseteq Frame
      <3> SUFFICES ASSUME NEW f \in net
                   PROVE  f \in Frame
        OBVIOUS
      <3>1. f \in SignedFrames => f.counter \in Counter
        BY <2>1 DEF FrameLimits
      <3>2. CASE f \in SignedFrames
        BY <3>1, <3>2 DEF SignedFrames, Frame
      <3>3. CASE f \in AskedFrames
        BY <3>3 DEF AskedFrames, Frame
      <3>4. CASE f \in ToldFrames
        BY <3>4 DEF ToldFrames, Frame
      <3> QED
        BY <2>1, <3>2, <3>3, <3>4 DEF Types
    <2>4. /\ Cardinality({e \in Endpoints : registered[e] > 0}) <= MaxEndpoints
          /\ Cardinality({c \in Calls : call[c].state \in {"encrypting", "posted"}}) <= MaxPending
      BY <2>1 DEF HostLimits, CallLimits, Live, PendingCalls, Pending
    <2>5. \A e \in Endpoints : /\ Cardinality(tab[e].active) <= MaxActive
                               /\ Cardinality(tab[e].seen) <= MaxRequestIds
      BY <2>1 DEF TabLimit
    <2>6. /\ up \in BOOLEAN /\ scheduled \in BOOLEAN /\ sessionIds \subseteq Endpoints
          /\ farewells \subseteq Endpoints /\ finished \subseteq Calls /\ cancels \subseteq Calls
          /\ registered \in [Endpoints -> Counter] /\ starts \in [Calls -> Nat]
          /\ call \in [Calls -> [state: CallStates, endpoint: Endpoints \cup {None}]]
      BY <2>1 DEF HostLimits, FrameLimits, Types, CallRecord
    <2> QED
      BY <2>2, <2>3, <2>4, <2>5, <2>6, Zenon DEF TypeOK
  <1> QED
    BY <1>1, <1>2, <1>3, RpcInvariant, PTL DEF Spec
-----------------------------------------------------------------------------
(* GmMailbox. *)

\* Nothing will be added to the packet any more.
Settled(p) == send[p].pc \in {"written", "sent", "failed"}

\* A part is missing; of a settled packet it is missing for good.
Torn(p) == \E i \in 0 .. Chunks[p] : <<p, i>> \notin keys

\* The packet will be deleted before this tab reads manifests again.
Doomed(t, p) ==
    /\ Expired(p)
    /\ \/ poll[t].pc = "idle"
       \/ /\ poll[t].pc = "sweep" /\ Manifest(p) \in poll[t].names
          /\ poll[t].since - send[p].born > Retention

Ages == \A p \in Packets : send[p].born <= clock

\* There are no parts beyond the manifest.
Parts ==
    /\ \A p \in Packets : send[p].part <= Chunks[p]
    /\ \A k \in keys : k[2] <= Chunks[k[1]]
    /\ \A t \in Tabs : \A k \in poll[t].names : k[2] <= Chunks[k[1]]

Fresh ==
    \A p \in Packets : ~Settled(p) =>
        /\ Manifest(p) \notin keys
        /\ \A t \in Tabs : /\ delivered[t][p] = 0
                           /\ poll[t].pc = "chunks" => poll[t].packet # p

Senders ==
    \A t \in Tabs : poll[t].sender # Nothing =>
        From[poll[t].sender] = t /\ send[poll[t].sender].pc = "polling"

\* A packet that was handed on is remembered, or cannot be read again, or will
\* not be there when it might be.
Known(t, p) ==
    \/ seen[t][p] # Nothing /\ seen[t][p] >= send[p].born
    \/ Torn(p)
    \/ Doomed(t, p)

\* When it is read again, it lacks a chunk that is still to be read.
Unreadable(t, p) ==
    poll[t].pc = "chunks" /\ poll[t].packet = p =>
        \E i \in poll[t].part .. Chunks[p] - 1 : <<p, i>> \notin keys

Had(t, p) == delivered[t][p] # 0 /\ ~disposed[t]

RemembersPacket(t, p) == Had(t, p) => Known(t, p) /\ Unreadable(t, p)
Remembered == \A t \in Tabs, p \in Packets : RemembersPacket(t, p)

MailboxInv ==
    /\ MailboxTypeOK /\ Ages /\ Parts /\ Fresh /\ Senders /\ Remembered
    /\ DeliveredAtMostOnce

-----------------------------------------------------------------------------
(* Types. *)

LEMMA IdleTyped == IdlePoll \in Scans
  BY DEF IdlePoll, Scans

\* The steps that a scan takes.
LEMMA ScanSteps ==
    ASSUME NEW s \in Scans
    PROVE  /\ \A k : [s EXCEPT !.names = @ \ {k}] \in Scans
           /\ \A p \in s.manifests :
                 /\ p \in Packets
                 /\ [s EXCEPT !.manifests = @ \ {p}] \in Scans
                 /\ [s EXCEPT !.pc = "chunks", !.packet = p, !.part = 0,
                              !.manifests = @ \ {p}] \in Scans
           /\ [s EXCEPT !.part = @ + 1] \in Scans
           /\ [s EXCEPT !.pc = "read", !.packet = Nothing, !.part = 0] \in Scans
  <1>1. ASSUME NEW k PROVE [s EXCEPT !.names = @ \ {k}] \in Scans
    BY DEF Scans
  <1>2. ASSUME NEW p \in s.manifests
        PROVE  /\ p \in Packets
               /\ [s EXCEPT !.manifests = @ \ {p}] \in Scans
               /\ [s EXCEPT !.pc = "chunks", !.packet = p, !.part = 0,
                            !.manifests = @ \ {p}] \in Scans
    BY DEF Scans
  <1>3. [s EXCEPT !.part = @ + 1] \in Scans
    BY DEF Scans
  <1>4. [s EXCEPT !.pc = "read", !.packet = Nothing, !.part = 0] \in Scans
    BY DEF Scans
  <1> QED
    BY <1>1, <1>2, <1>3, <1>4

LEMMA ScanStepFields ==
    ASSUME NEW s \in Scans
    PROVE  /\ \A k : [s EXCEPT !.names = @ \ {k}].pc = s.pc
           /\ \A p : /\ [s EXCEPT !.manifests = @ \ {p}].pc = s.pc
                    /\ [s EXCEPT !.pc = "chunks", !.packet = p, !.part = 0,
                                 !.manifests = @ \ {p}].packet = p
           /\ [s EXCEPT !.part = @ + 1].packet = s.packet
           /\ [s EXCEPT !.pc = "read", !.packet = Nothing, !.part = 0].pc = "read"
  <1>1. ASSUME NEW k PROVE [s EXCEPT !.names = @ \ {k}].pc = s.pc
    BY DEF Scans
  <1>2. ASSUME NEW p PROVE [s EXCEPT !.manifests = @ \ {p}].pc = s.pc
    BY DEF Scans
  <1>3. ASSUME NEW p
        PROVE  [s EXCEPT !.pc = "chunks", !.packet = p, !.part = 0,
                         !.manifests = @ \ {p}].packet = p
    BY DEF Scans
  <1>4. [s EXCEPT !.part = @ + 1].packet = s.packet
    BY DEF Scans
  <1>5. [s EXCEPT !.pc = "read", !.packet = Nothing, !.part = 0].pc = "read"
    BY DEF Scans
  <1> QED
    BY <1>1, <1>2, <1>3, <1>4, <1>5

LEMMA ScanTyped ==
    ASSUME MailboxTypeOK, NEW t \in Tabs, NEW x \in Scans,
           x.pc = "chunks" => x.packet \in Packets,
           GoesOn(t, x)
    PROVE  /\ poll' \in [Tabs -> Scans]
           /\ \A u \in Tabs : poll'[u].pc = "chunks" => poll'[u].packet \in Packets
  BY DEF MailboxTypeOK, GoesOn

\* What such a step leaves behind.
LEMMA ScanMoved ==
    ASSUME MailboxTypeOK, NEW t \in Tabs, NEW x, GoesOn(t, x)
    PROVE  poll'[t] = x
  BY DEF MailboxTypeOK, GoesOn

LEMMA ScanFields ==
    ASSUME NEW s \in Scans, NEW k
    PROVE  LET x == [s EXCEPT !.names = @ \ {k}]
           IN  x.pc = s.pc /\ x.names = s.names \ {k} /\ x.since = s.since
  BY DEF Scans

LEMMA ListTyped ==
    ASSUME MailboxTypeOK, NEW t \in Tabs, NEW sender \in Packets \cup {Nothing}, List(t, sender)
    PROVE  /\ poll' \in [Tabs -> Scans] /\ seen' \in [Tabs -> [Packets -> Nat \cup {Nothing}]]
           /\ \A u \in Tabs : poll'[u].pc = "chunks" => poll'[u].packet \in Packets
  <1>1. [IdlePoll EXCEPT !.pc = "sweep", !.names = keys, !.since = clock, !.sender = sender] \in Scans
    BY DEF MailboxTypeOK, IdlePoll, Scans
  <1>2. poll' \in [Tabs -> Scans]
    BY <1>1 DEF List, GoesOn, MailboxTypeOK
  <1>3. seen' \in [Tabs -> [Packets -> Nat \cup {Nothing}]]
    BY DEF List, GoesOn, MailboxTypeOK
  <1>4. poll'[t].pc = "sweep" /\ \A u \in Tabs \ {t} : poll'[u] = poll[u]
    BY DEF List, GoesOn, MailboxTypeOK, IdlePoll
  <1> QED
    BY <1>2, <1>3, <1>4 DEF MailboxTypeOK

LEMMA EndTyped ==
    ASSUME MailboxTypeOK, NEW t \in Tabs, NEW pc \in {"check", "failed"}, PollEnds(t, pc)
    PROVE  /\ poll' \in [Tabs -> Scans] /\ send' \in [Packets -> Sends]
           /\ \A u \in Tabs : poll'[u].pc = "chunks" => poll'[u].packet \in Packets
  <1>1. poll' \in [Tabs -> Scans]
    BY IdleTyped DEF PollEnds, GoesOn, MailboxTypeOK
  <1>2. send' \in [Packets -> Sends]
    <2>1. \A p \in Packets : send[p] \in Sends
      BY DEF MailboxTypeOK
    <2>2. \A p \in Packets : [send[p] EXCEPT !.pc = pc] \in Sends
      BY <2>1 DEF Sends
    <2> QED
      BY <2>1, <2>2 DEF PollEnds
  <1>3. poll'[t].pc = "idle" /\ \A u \in Tabs \ {t} : poll'[u] = poll[u]
    BY DEF PollEnds, GoesOn, MailboxTypeOK, IdlePoll
  <1> QED
    BY <1>1, <1>2, <1>3 DEF MailboxTypeOK

LEMMA MailboxStart == MailboxInit => MailboxInv
  <1> SUFFICES ASSUME MailboxInit PROVE MailboxInv
    OBVIOUS
  <1>1. keys \subseteq Packets \X Nat
    BY MailboxAssumption DEF MailboxInit
  <1>2. MailboxTypeOK
    <2>1. clock \in Nat /\ faults \in Nat /\ woken \in BOOLEAN
      BY MailboxAssumption DEF MailboxInit
    <2>2. send \in [Packets -> Sends]
      BY DEF MailboxInit, Sends
    <2>3. /\ seen \in [Tabs -> [Packets -> Nat \cup {Nothing}]]
          /\ delivered \in [Tabs -> [Packets -> Nat]] /\ disposed \in [Tabs -> BOOLEAN]
      BY DEF MailboxInit
    <2>4. /\ poll \in [Tabs -> Scans]
          /\ \A t \in Tabs : poll[t].pc = "chunks" => poll[t].packet \in Packets
      BY IdleTyped DEF MailboxInit, IdlePoll
    <2> QED
      BY <1>1, <2>1, <2>2, <2>3, <2>4 DEF MailboxTypeOK
  <1>3. Fresh
    <2> SUFFICES ASSUME NEW p \in Packets, ~Settled(p)
                 PROVE  /\ Manifest(p) \notin keys
                        /\ \A t \in Tabs : delivered[t][p] = 0 /\ poll[t].pc = "idle"
      BY DEF Fresh
    <2>1. p \notin Abandoned
      BY DEF MailboxInit, Settled
    <2>2. Manifest(p) \notin keys
      BY <2>1, MailboxAssumption DEF MailboxInit, Manifest
    <2> QED
      BY <2>2 DEF MailboxInit, IdlePoll
  <1>4. \A t \in Tabs, p \in Packets : delivered[t][p] = 0
    BY DEF MailboxInit
  <1>5. Ages
    BY DEF MailboxInit, Ages
  <1>6. Senders
    BY DEF MailboxInit, Senders, IdlePoll
  <1>7. Parts
    BY MailboxAssumption DEF MailboxInit, Parts, IdlePoll
  <1> QED
    BY <1>2, <1>3, <1>4, <1>5, <1>6, <1>7
       DEF MailboxInv, Remembered, RemembersPacket, Had, DeliveredAtMostOnce

LEMMA MailboxTypesKept == MailboxTypeOK /\ [MailboxNext]_mailboxVars => MailboxTypeOK'
  <1> SUFFICES ASSUME MailboxTypeOK, [MailboxNext]_mailboxVars PROVE MailboxTypeOK'
    OBVIOUS
  <1>1. CASE Tick
    BY <1>1 DEF Tick, MailboxTypeOK
  <1>2. ASSUME NEW t \in Tabs, Poll(t) PROVE MailboxTypeOK'
    <2>1. List(t, Nothing)
      BY <1>2 DEF Poll
    <2> QED
      BY <1>2, <2>1, ListTyped DEF Poll, MailboxTypeOK
  <1>3. ASSUME NEW t \in Tabs, SweepKey(t) PROVE MailboxTypeOK'
    <2>1. PICK k \in poll[t].names :
             /\ GoesOn(t, [poll[t] EXCEPT !.names = @ \ {k}])
             /\ keys' = keys \ {k} /\ seen' = [seen EXCEPT ![t][k[1]] = Nothing]
      BY <1>3 DEF SweepKey
    <2>2. poll[t] \in Scans /\ poll[t].pc = "sweep"
      BY <1>3 DEF SweepKey, MailboxTypeOK
    <2> DEFINE x == [poll[t] EXCEPT !.names = @ \ {k}]
    <2>3. x \in Scans /\ x.pc = "sweep"
      BY <2>2, ScanSteps, ScanStepFields
    <2>4. poll' \in [Tabs -> Scans]
          /\ \A u \in Tabs : poll'[u].pc = "chunks" => poll'[u].packet \in Packets
      BY <2>1, <2>3, ScanTyped
    <2>5. seen' \in [Tabs -> [Packets -> Nat \cup {Nothing}]] /\ keys' \subseteq Packets \X Nat
      BY <2>1 DEF MailboxTypeOK
    <2> QED
      BY <1>3, <2>4, <2>5 DEF SweepKey, MailboxTypeOK
  <1>4. ASSUME NEW t \in Tabs, Relist(t) PROVE MailboxTypeOK'
    <2>1. PICK first \in SUBSET Manifests :
             GoesOn(t, [IdlePoll EXCEPT
                 !.pc = "read", !.manifests = {p \in first : seen[t][p] = Nothing},
                 !.sender = poll[t].sender])
      BY <1>4 DEF Relist
    <2> DEFINE x == [IdlePoll EXCEPT
                 !.pc = "read", !.manifests = {p \in first : seen[t][p] = Nothing},
                 !.sender = poll[t].sender]
    <2>2. x \in Scans /\ x.pc = "read"
      BY DEF IdlePoll, Scans, Manifests, MailboxTypeOK
    <2>3. poll' \in [Tabs -> Scans]
          /\ \A u \in Tabs : poll'[u].pc = "chunks" => poll'[u].packet \in Packets
      BY <2>1, <2>2, ScanTyped
    <2> QED
      BY <1>4, <2>3 DEF Relist, MailboxTypeOK
  <1>5. ASSUME NEW t \in Tabs, RelistFull(t) PROVE MailboxTypeOK'
    BY <1>5, EndTyped DEF RelistFull, MailboxTypeOK
  <1>6. ASSUME NEW t \in Tabs, ReadManifest(t) PROVE MailboxTypeOK'
    <2>1. PICK p \in poll[t].manifests :
             IF seen[t][p] = Nothing /\ Manifest(p) \in keys
             THEN /\ GoesOn(t, [poll[t] EXCEPT !.pc = "chunks", !.packet = p, !.part = 0,
                                               !.manifests = @ \ {p}])
                  /\ UNCHANGED seen
             ELSE /\ GoesOn(t, [poll[t] EXCEPT !.manifests = @ \ {p}])
                  /\ seen' = IF seen[t][p] = Nothing THEN [seen EXCEPT ![t][p] = clock] ELSE seen
      BY <1>6 DEF ReadManifest
    <2> DEFINE x == [poll[t] EXCEPT !.pc = "chunks", !.packet = p, !.part = 0,
                                    !.manifests = @ \ {p}]
               y == [poll[t] EXCEPT !.manifests = @ \ {p}]
    <2>2. poll[t] \in Scans /\ poll[t].pc = "read"
      BY <1>6 DEF ReadManifest, MailboxTypeOK
    <2>3. /\ p \in Packets /\ x \in Scans /\ x.packet = p
          /\ y \in Scans /\ y.pc = "read"
      <3>1. p \in Packets /\ x \in Scans /\ y \in Scans
        BY <2>2, ScanSteps
      <3>2. x.packet = p /\ y.pc = "read"
        BY <2>2, ScanStepFields
      <3> QED
        BY <3>1, <3>2
    <2>4. poll' \in [Tabs -> Scans]
          /\ \A u \in Tabs : poll'[u].pc = "chunks" => poll'[u].packet \in Packets
      <3>1. CASE GoesOn(t, x)
        BY <2>3, <3>1, ScanTyped
      <3>2. CASE GoesOn(t, y)
        BY <2>3, <3>2, ScanTyped
      <3> QED
        BY <2>1, <3>1, <3>2
    <2>5. seen' \in [Tabs -> [Packets -> Nat \cup {Nothing}]]
      <3>1. CASE seen' = seen
        BY <3>1 DEF MailboxTypeOK
      <3>2. CASE seen' = [seen EXCEPT ![t][p] = clock]
        BY <2>3, <3>2 DEF MailboxTypeOK
      <3> QED
        BY <2>1, <3>1, <3>2
    <2> QED
      BY <1>6, <2>4, <2>5 DEF ReadManifest, MailboxTypeOK
  <1>7. ASSUME NEW t \in Tabs, ReadChunk(t) PROVE MailboxTypeOK'
    <2> DEFINE x == [poll[t] EXCEPT !.part = @ + 1]
               y == [poll[t] EXCEPT !.pc = "read", !.packet = Nothing, !.part = 0]
    <2>1. poll[t] \in Scans /\ poll[t].packet \in Packets
      BY <1>7 DEF ReadChunk, MailboxTypeOK
    <2>2. x \in Scans /\ x.packet \in Packets /\ y \in Scans /\ y.pc = "read"
      <3>1. x \in Scans /\ y \in Scans
        BY <2>1, ScanSteps
      <3>2. x.packet = poll[t].packet /\ y.pc = "read"
        BY <2>1, ScanStepFields
      <3> QED
        BY <2>1, <3>1, <3>2
    <2>3. poll' \in [Tabs -> Scans]
          /\ \A u \in Tabs : poll'[u].pc = "chunks" => poll'[u].packet \in Packets
      <3>1. CASE GoesOn(t, x)
        BY <2>2, <3>1, ScanTyped
      <3>2. CASE GoesOn(t, y)
        BY <2>2, <3>2, ScanTyped
      <3> QED
        BY <1>7, <3>1, <3>2 DEF ReadChunk
    <2> QED
      BY <1>7, <2>3 DEF ReadChunk, MailboxTypeOK
  <1>8. ASSUME NEW t \in Tabs, OnPacket(t) PROVE MailboxTypeOK'
    <2> DEFINE y == [poll[t] EXCEPT !.pc = "read", !.packet = Nothing, !.part = 0]
    <2>1. poll[t] \in Scans /\ poll[t].packet \in Packets
      BY <1>8 DEF OnPacket, MailboxTypeOK
    <2>2. y \in Scans /\ y.pc = "read"
      BY <2>1, ScanSteps, ScanStepFields
    <2>3. poll' \in [Tabs -> Scans]
          /\ \A u \in Tabs : poll'[u].pc = "chunks" => poll'[u].packet \in Packets
      BY <1>8, <2>2, ScanTyped DEF OnPacket
    <2>4. delivered' \in [Tabs -> [Packets -> Nat]]
      BY <1>8, <2>1 DEF OnPacket, MailboxTypeOK
    <2>5. seen' \in [Tabs -> [Packets -> Nat \cup {Nothing}]]
      BY <1>8, <2>1 DEF OnPacket, MailboxTypeOK
    <2> QED
      BY <1>8, <2>3, <2>4, <2>5 DEF OnPacket, MailboxTypeOK
  <1>9. ASSUME NEW t \in Tabs, AllRead(t) PROVE MailboxTypeOK'
    BY <1>9, EndTyped DEF AllRead, MailboxTypeOK
  <1>10. ASSUME NEW t \in Tabs, PollFails(t) PROVE MailboxTypeOK'
    BY <1>10, EndTyped DEF PollFails, MailboxTypeOK
  <1>11. ASSUME NEW t \in Tabs, DisposeMailbox(t) PROVE MailboxTypeOK'
    BY <1>11 DEF DisposeMailbox, MailboxTypeOK
  <1>12. ASSUME NEW p \in Packets, Send(p) PROVE MailboxTypeOK'
    <2>1. From[p] \in Tabs
      BY MailboxAssumption
    <2>2. CASE poll[From[p]].pc = "idle"
      <3>1. List(From[p], p) /\ send' = [send EXCEPT ![p].pc = "polling"]
        BY <1>12, <2>2 DEF Send
      <3>2. send' \in [Packets -> Sends]
        BY <3>1 DEF MailboxTypeOK, Sends
      <3> QED
        BY <1>12, <2>1, <3>1, <3>2, ListTyped DEF Send, MailboxTypeOK
    <2>3. CASE poll[From[p]].pc # "idle"
      <3>1. send' = [send EXCEPT ![p].pc = "check"] /\ UNCHANGED <<poll, seen>>
        BY <1>12, <2>3 DEF Send
      <3>2. send' \in [Packets -> Sends]
        BY <3>1 DEF MailboxTypeOK, Sends
      <3> QED
        BY <1>12, <3>1, <3>2 DEF Send, MailboxTypeOK
    <2> QED
      BY <2>2, <2>3
  <1>13. ASSUME NEW p \in Packets, SendStep(p) \/ SendFails(p) PROVE MailboxTypeOK'
    <2>t. /\ send[p] \in Sends /\ clock \in Nat
          /\ \A x \in Sends : [send EXCEPT ![p] = x] \in [Packets -> Sends]
      BY DEF MailboxTypeOK
    <2>p. /\ \A pc \in {"written", "sent", "failed"} : [send[p] EXCEPT !.pc = pc] \in Sends
          /\ [send[p] EXCEPT !.pc = "write", !.born = clock] \in Sends
          /\ [send[p] EXCEPT !.part = @ + 1] \in Sends /\ send[p].part \in Nat
      <3>1. \A pc \in {"written", "sent", "failed"} : [send[p] EXCEPT !.pc = pc] \in Sends
        BY <2>t DEF Sends
      <3>2. [send[p] EXCEPT !.pc = "write", !.born = clock] \in Sends
        BY <2>t DEF Sends
      <3>3. [send[p] EXCEPT !.part = @ + 1] \in Sends /\ send[p].part \in Nat
        BY <2>t DEF Sends
      <3> QED
        BY <3>1, <3>2, <3>3
    <2>1. CASE Admit(p)
      <3>1. send' = [send EXCEPT ![p] = [send[p] EXCEPT !.pc = "write", !.born = clock]]
        BY <2>1 DEF Admit
      <3>2. send' \in [Packets -> Sends]
        BY <2>t, <2>p, <3>1
      <3> QED
        BY <2>1, <3>2 DEF Admit, MailboxTypeOK
    <2>2. CASE Refuse(p)
      <3>1. send' \in [Packets -> Sends]
        BY <2>t, <2>p, <2>2 DEF Refuse
      <3> QED
        BY <2>2, <3>1 DEF Refuse, MailboxTypeOK
    <2>3. CASE Write(p)
      <3>1. send' \in [Packets -> Sends]
        BY <2>t, <2>p, <2>3 DEF Write
      <3>2. keys' \subseteq Packets \X Nat
        BY <2>p, <2>3 DEF Write, MailboxTypeOK
      <3> QED
        BY <2>3, <3>1, <3>2 DEF Write, MailboxTypeOK
    <2>4. CASE WakeOthers(p)
      <3>1. send' \in [Packets -> Sends]
        BY <2>t, <2>p, <2>4 DEF WakeOthers
      <3>2. seen' \in [Tabs -> [Packets -> Nat \cup {Nothing}]]
        BY <2>4, MailboxAssumption DEF WakeOthers, MailboxTypeOK
      <3> QED
        BY <2>4, <3>1, <3>2 DEF WakeOthers, MailboxTypeOK
    <2>5. CASE SendFails(p)
      <3>1. send' \in [Packets -> Sends] /\ faults' \in Nat
        BY <2>t, <2>p, <2>5 DEF SendFails, MailboxTypeOK
      <3>2. CASE UNCHANGED <<woken, seen>>
        BY <2>5, <3>1, <3>2 DEF SendFails, MailboxTypeOK
      <3>3. CASE seen' = [seen EXCEPT ![From[p]][p] = clock] /\ woken' \in {woken, TRUE}
        <4>1. seen' \in [Tabs -> [Packets -> Nat \cup {Nothing}]]
          BY <3>3, MailboxAssumption DEF MailboxTypeOK
        <4> QED
          BY <2>5, <3>1, <3>3, <4>1 DEF SendFails, MailboxTypeOK
      <3> QED
        BY <2>5, <3>2, <3>3 DEF SendFails
    <2> QED
      BY <1>13, <2>1, <2>2, <2>3, <2>4, <2>5 DEF SendStep
  <1>14. CASE UNCHANGED mailboxVars
    BY <1>14 DEF mailboxVars, MailboxTypeOK
  <1> QED
    BY <1>1, <1>2, <1>3, <1>4, <1>5, <1>6, <1>7, <1>8, <1>9, <1>10, <1>11, <1>12,
       <1>13, <1>14 DEF MailboxNext, PollStep

-----------------------------------------------------------------------------
(* What never comes back. *)

LEMMA EndsOfUnsettled ==
    ASSUME MailboxInv, NEW t \in Tabs, NEW pc, PollEnds(t, pc), NEW p \in Packets
    PROVE  /\ Settled(p) => send'[p] = send[p]
           /\ send'[p].born = send[p].born /\ send'[p].part = send[p].part
  <1>1. p = poll[t].sender => send[p].pc = "polling"
    BY MailboxAssumption DEF MailboxInv, Senders
  <1>2. send[p] \in Sends /\ (p # poll[t].sender => send'[p] = send[p])
        /\ (p = poll[t].sender => send'[p] = [send[p] EXCEPT !.pc = pc])
    BY DEF MailboxInv, MailboxTypeOK, PollEnds
  <1>3. send'[p].born = send[p].born /\ send'[p].part = send[p].part
    BY <1>2 DEF Sends
  <1>4. Settled(p) => send'[p] = send[p]
    BY <1>1, <1>2 DEF Settled
  <1> QED
    BY <1>3, <1>4

LEMMA Persists ==
    ASSUME MailboxInv, [MailboxNext]_mailboxVars
    PROVE  /\ clock' >= clock
           /\ \A t \in Tabs : disposed[t] => disposed'[t]
           /\ \A p \in Packets : Settled(p) =>
                 /\ Settled(p)' /\ send'[p].born = send[p].born
                 /\ \A i \in Nat : <<p, i>> \notin keys => <<p, i>> \notin keys'
  <1> DEFINE Goal == /\ clock' >= clock
                     /\ \A t \in Tabs : disposed[t] => disposed'[t]
                     /\ \A p \in Packets : Settled(p) =>
                           /\ Settled(p)' /\ send'[p].born = send[p].born
                           /\ \A i \in Nat : <<p, i>> \notin keys => <<p, i>> \notin keys'
  <1>t. /\ clock \in Nat /\ send \in [Packets -> Sends] /\ disposed \in [Tabs -> BOOLEAN]
        /\ MailboxInv
    BY DEF MailboxInv, MailboxTypeOK
  <1> USE <1>t DEF Settled
  <1>1. CASE Tick
    BY <1>1 DEF Tick
  <1>2. ASSUME NEW t \in Tabs,
               Poll(t) \/ SweepKey(t) \/ Relist(t) \/ ReadManifest(t) \/ ReadChunk(t) \/ OnPacket(t)
        PROVE  Goal
    <2>1. UNCHANGED <<clock, disposed, send>> /\ keys' \subseteq keys
      BY <1>2 DEF Poll, SweepKey, Relist, ReadManifest, ReadChunk, OnPacket
    <2> QED
      BY <2>1
  <1>3. ASSUME NEW t \in Tabs, RelistFull(t) \/ AllRead(t) \/ PollFails(t) PROVE Goal
    <2>1. PICK pc : PollEnds(t, pc)
      BY <1>3 DEF RelistFull, AllRead, PollFails
    <2>2. UNCHANGED <<clock, keys, disposed>>
      BY <1>3 DEF RelistFull, AllRead, PollFails
    <2> QED
      BY <2>1, <2>2, EndsOfUnsettled
  <1>4. ASSUME NEW t \in Tabs, DisposeMailbox(t) PROVE Goal
    BY <1>4 DEF DisposeMailbox
  <1>5. ASSUME NEW p \in Packets, Send(p) PROVE Goal
    <2>1. /\ UNCHANGED <<clock, keys, disposed>> /\ ~Settled(p)
          /\ \A q \in Packets \ {p} : send'[q] = send[q]
      BY <1>5 DEF Send
    <2> QED
      BY <2>1
  <1>6. ASSUME NEW p \in Packets, SendStep(p) \/ SendFails(p) PROVE Goal
    <2>1. CASE Admit(p)
      BY <2>1 DEF Admit
    <2>2. CASE Refuse(p)
      BY <2>2 DEF Refuse
    <2>3. CASE Write(p)
      <3>1. send[p].pc = "write" /\ keys' = keys \cup {<<p, send[p].part>>}
            /\ UNCHANGED <<clock, disposed>>
        BY <2>3 DEF Write
      <3>2. \A q \in Packets \ {p} : send'[q] = send[q]
        BY <2>3 DEF Write
      <3> QED
        BY <3>1, <3>2
    <2>4. CASE WakeOthers(p)
      BY <2>4 DEF WakeOthers
    <2>5. CASE SendFails(p)
      BY <2>5 DEF SendFails
    <2> QED
      BY <1>6, <2>1, <2>2, <2>3, <2>4, <2>5 DEF SendStep
  <1>7. CASE UNCHANGED mailboxVars
    BY <1>7 DEF mailboxVars
  <1> QED
    BY <1>1, <1>2, <1>3, <1>4, <1>5, <1>6, <1>7 DEF MailboxNext, PollStep

\* A packet that a tab still has: what was known of it.
LEMMA Before ==
    ASSUME MailboxInv, MailboxTypeOK', [MailboxNext]_mailboxVars, NEW t \in Tabs, NEW p \in Packets,
           Had(t, p)', delivered'[t][p] = delivered[t][p]
    PROVE  /\ Had(t, p) /\ Known(t, p) /\ Unreadable(t, p)
           /\ send'[p].born = send[p].born
           /\ \A i \in Nat : <<p, i>> \notin keys => <<p, i>> \notin keys'
           /\ Torn(p) => Torn(p)'
           /\ Expired(p) => Expired(p)'
  <1>1. Had(t, p) /\ Settled(p)
    BY Persists DEF Had, MailboxInv, Fresh, MailboxTypeOK
  <1>2. Known(t, p) /\ Unreadable(t, p)
    BY <1>1 DEF MailboxInv, Remembered, RemembersPacket
  <1>3. /\ clock' >= clock /\ send'[p].born = send[p].born
        /\ \A i \in Nat : <<p, i>> \notin keys => <<p, i>> \notin keys'
    BY <1>1, Persists
  <1>4. /\ clock \in Nat /\ clock' \in Nat /\ send[p].born \in Nat /\ Retention \in Nat
        /\ Chunks[p] \in Nat
    BY MailboxAssumption DEF MailboxInv, MailboxTypeOK, Sends
  <1>5. Torn(p) => Torn(p)'
    BY <1>3, <1>4 DEF Torn
  <1>6. Expired(p) => Expired(p)'
    BY <1>3, <1>4 DEF Expired
  <1> QED
    BY <1>1, <1>2, <1>3, <1>5, <1>6

\* A step that another tab takes, or that has nothing to do with the packet.
LEMMA Bystander ==
    ASSUME MailboxInv, MailboxTypeOK', [MailboxNext]_mailboxVars, NEW t \in Tabs, NEW p \in Packets,
           poll'[t] = poll[t], seen'[t][p] = seen[t][p], delivered'[t][p] = delivered[t][p]
    PROVE  RemembersPacket(t, p)'
  <1> SUFFICES ASSUME Had(t, p)' PROVE Known(t, p)' /\ Unreadable(t, p)'
    BY DEF RemembersPacket
  <1>1. /\ Known(t, p) /\ Unreadable(t, p) /\ send'[p].born = send[p].born
        /\ \A i \in Nat : <<p, i>> \notin keys => <<p, i>> \notin keys'
        /\ Torn(p) => Torn(p)'
        /\ Expired(p) => Expired(p)'
    BY Before
  <1>2. Known(t, p)'
    BY <1>1 DEF Known, Doomed, Manifest
  <1>3. Unreadable(t, p)'
    <2> SUFFICES ASSUME poll'[t].pc = "chunks", poll'[t].packet = p
                 PROVE  \E i \in poll'[t].part .. Chunks[p] - 1 : <<p, i>> \notin keys'
      BY DEF Unreadable
    <2>1. PICK i \in poll[t].part .. Chunks[p] - 1 : <<p, i>> \notin keys
      BY <1>1 DEF Unreadable
    <2>2. poll[t].part \in Nat /\ Chunks[p] \in Nat
      BY MailboxAssumption DEF MailboxInv, MailboxTypeOK, Scans
    <2> QED
      BY <1>1, <2>1, <2>2
  <1> QED
    BY <1>2, <1>3

\* A scan that begins finds out what is too old: when it is forgotten now, it
\* is also deleted.
LEMMA Listing ==
    ASSUME MailboxInv, MailboxTypeOK', [MailboxNext]_mailboxVars, NEW t \in Tabs, NEW p \in Packets,
           NEW sender, List(t, sender), poll[t].pc = "idle",
           UNCHANGED <<clock, keys, delivered>>
    PROVE  RemembersPacket(t, p)'
  <1> SUFFICES ASSUME Had(t, p)' PROVE Known(t, p)' /\ Unreadable(t, p)'
    BY DEF RemembersPacket
  <1>1. /\ Known(t, p) /\ send'[p].born = send[p].born
        /\ Torn(p) => Torn(p)'
        /\ Expired(p) => Expired(p)'
    BY Before
  <1>2. /\ poll'[t].pc = "sweep" /\ poll'[t].names = keys /\ poll'[t].since = clock
        /\ seen'[t][p] = IF seen[t][p] # Nothing /\ clock - seen[t][p] > Retention
                         THEN Nothing ELSE seen[t][p]
    BY DEF List, GoesOn, IdlePoll, MailboxInv, MailboxTypeOK
  <1>3. /\ clock \in Nat /\ send[p].born \in Nat /\ Retention \in Nat /\ Chunks[p] \in Nat
        /\ seen[t][p] \in Nat \cup {Nothing}
    BY MailboxAssumption DEF MailboxInv, MailboxTypeOK, Sends
  <1>4. Known(t, p)'
    <2>1. CASE Expired(p)
      <3>1. CASE Manifest(p) \in keys
        BY <1>1, <1>2, <2>1, <3>1 DEF Known, Doomed, Expired, Manifest
      <3>2. CASE Manifest(p) \notin keys
        BY <1>1, <1>3, <3>2 DEF Known, Torn, Manifest
      <3> QED
        BY <3>1, <3>2
    <2>2. CASE ~Expired(p)
      <3>1. CASE Torn(p)
        BY <1>1, <3>1 DEF Known
      <3>2. CASE ~Torn(p)
        <4>1. seen[t][p] # Nothing /\ seen[t][p] >= send[p].born
          BY <1>1, <2>2, <3>2 DEF Known, Doomed
        <4>2. seen'[t][p] = seen[t][p]
          BY <1>2, <1>3, <2>2, <4>1 DEF Expired
        <4> QED
          BY <1>1, <4>1, <4>2 DEF Known
      <3> QED
        BY <3>1, <3>2
    <2> QED
      BY <2>1, <2>2
  <1>5. Unreadable(t, p)'
    BY <1>2 DEF Unreadable
  <1> QED
    BY <1>4, <1>5

\* A scan that goes on, once it has deleted what was to be deleted.
LEMMA Ongoing ==
    ASSUME MailboxInv, MailboxTypeOK', [MailboxNext]_mailboxVars, NEW t \in Tabs, NEW p \in Packets,
           ~Doomed(t, p), Unreadable(t, p) => Unreadable(t, p)',
           delivered'[t][p] = delivered[t][p],
           \/ seen'[t][p] = seen[t][p]
           \/ seen'[t][p] = clock /\ UNCHANGED send
    PROVE  RemembersPacket(t, p)'
  <1> SUFFICES ASSUME Had(t, p)' PROVE Known(t, p)' /\ Unreadable(t, p)'
    BY DEF RemembersPacket
  <1>1. /\ Known(t, p) /\ Unreadable(t, p) /\ send'[p].born = send[p].born
        /\ Torn(p) => Torn(p)'
    BY Before
  <1>2. clock \in Nat /\ Nothing \notin Nat /\ send[p].born <= clock
    BY MailboxAssumption DEF MailboxInv, MailboxTypeOK, Ages
  <1> QED
    BY <1>1, <1>2 DEF Known

-----------------------------------------------------------------------------
(* The invariant is kept. *)

LEMMA RememberedKept ==
    ASSUME MailboxInv, MailboxTypeOK', [MailboxNext]_mailboxVars
    PROVE  Remembered'
  <1> SUFFICES ASSUME NEW t \in Tabs, NEW p \in Packets PROVE RemembersPacket(t, p)'
    BY DEF Remembered
  <1>1. CASE UNCHANGED <<poll, seen, delivered>>
    BY <1>1, Bystander
  <1>2. ASSUME NEW u \in Tabs \ {t}, PollStep(u) \/ PollFails(u) \/ DisposeMailbox(u)
        PROVE  RemembersPacket(t, p)'
    <2>1. /\ poll'[t] = poll[t] /\ seen'[t] = seen[t] /\ delivered'[t] = delivered[t]
      <3>1. /\ poll' = poll \/ \E x : poll' = [poll EXCEPT ![u] = x]
            /\ seen' = seen \/ (\E x : seen' = [seen EXCEPT ![u] = x])
            /\ delivered' = delivered \/ (\E x : delivered' = [delivered EXCEPT ![u] = x])
        <4>1. CASE Poll(u) \/ SweepKey(u)
          BY <4>1 DEF Poll, List, SweepKey, GoesOn
        <4>2. CASE Relist(u) \/ RelistFull(u)
          BY <4>2 DEF Relist, RelistFull, PollEnds, GoesOn
        <4>3. CASE ReadManifest(u) \/ ReadChunk(u)
          BY <4>3 DEF ReadManifest, ReadChunk, GoesOn
        <4>4. CASE OnPacket(u) \/ AllRead(u)
          BY <4>4 DEF OnPacket, AllRead, PollEnds, GoesOn
        <4>5. CASE PollFails(u) \/ DisposeMailbox(u)
          BY <4>5 DEF PollFails, DisposeMailbox, PollEnds, GoesOn
        <4> QED
          BY <1>2, <4>1, <4>2, <4>3, <4>4, <4>5 DEF PollStep
      <3> QED
        BY <3>1 DEF MailboxInv, MailboxTypeOK
    <2> QED
      BY <2>1, Bystander
  <1>3. CASE Poll(t)
    BY <1>3, Listing DEF Poll
  <1>4. CASE SweepKey(t)
    <2>1. PICK k \in poll[t].names :
             /\ GoesOn(t, [poll[t] EXCEPT !.names = @ \ {k}])
             /\ keys' = keys \ {k} /\ seen' = [seen EXCEPT ![t][k[1]] = Nothing]
             /\ UNCHANGED <<clock, send, disposed, delivered>>
      BY <1>4 DEF SweepKey
    <2>2. /\ poll'[t] = [poll[t] EXCEPT !.names = @ \ {k}]
          /\ poll'[t].pc = "sweep" /\ poll'[t].names = poll[t].names \ {k}
          /\ poll'[t].since = poll[t].since /\ poll[t].pc = "sweep"
      <3>1. poll[t] \in Scans /\ poll[t].pc = "sweep"
        BY <1>4 DEF SweepKey, MailboxInv, MailboxTypeOK
      <3>2. poll'[t] = [poll[t] EXCEPT !.names = @ \ {k}]
        BY <2>1, ScanMoved DEF MailboxInv
      <3> QED
        BY <3>1, <3>2, ScanFields
    <2>3. k \in Packets \X Nat /\ k[2] <= Chunks[k[1]] /\ k = <<k[1], k[2]>>
      BY <2>1 DEF MailboxInv, Parts, MailboxTypeOK, Scans
    <2> SUFFICES ASSUME Had(t, p)' PROVE Known(t, p)' /\ Unreadable(t, p)'
      BY DEF RemembersPacket
    <2>4. Known(t, p) /\ (Torn(p) => Torn(p)')
      BY <2>1, Before
    <2>5. CASE k[1] = p
      <3>1. k[2] \in 0 .. Chunks[p] /\ <<p, k[2]>> \notin keys'
        BY <2>1, <2>3, <2>5, MailboxAssumption
      <3> QED
        BY <2>2, <3>1 DEF Known, Torn, Unreadable
    <2>6. CASE k[1] # p
      <3>1. seen'[t][p] = seen[t][p]
        BY <2>1, <2>6 DEF MailboxInv, MailboxTypeOK
      <3>2. Manifest(p) # k
        BY <2>6 DEF Manifest
      <3> QED
        BY <2>1, <2>2, <2>4, <3>1, <3>2 DEF Known, Doomed, Expired, Manifest, Unreadable
    <2> QED
      BY <2>5, <2>6
  <1>5. CASE Relist(t) \/ RelistFull(t)
    <2>1. poll[t].pc = "sweep" /\ ~Doomed(t, p)
      <3>1. poll[t].since \in Nat /\ send[p].born \in Nat /\ Retention \in Nat
        BY MailboxAssumption DEF MailboxInv, MailboxTypeOK, Scans, Sends
      <3>2. poll[t].pc = "sweep" /\ \A k \in poll[t].names : poll[t].since - send[k[1]].born <= Retention
        BY <1>5 DEF Relist, RelistFull, Swept
      <3> QED
        BY <3>1, <3>2 DEF Doomed, Manifest
    <2>2. poll'[t].pc \in {"read", "idle"} /\ UNCHANGED <<seen, delivered>>
      <3>1. CASE Relist(t)
        BY <3>1 DEF Relist, GoesOn, IdlePoll, MailboxInv, MailboxTypeOK
      <3>2. CASE RelistFull(t)
        BY <3>2 DEF RelistFull, PollEnds, GoesOn, IdlePoll, MailboxInv, MailboxTypeOK
      <3> QED
        BY <1>5, <3>1, <3>2
    <2> QED
      BY <2>1, <2>2, Ongoing DEF Unreadable
  <1>6. CASE ReadManifest(t)
    <2>1. PICK q \in poll[t].manifests :
             IF seen[t][q] = Nothing /\ Manifest(q) \in keys
             THEN /\ GoesOn(t, [poll[t] EXCEPT !.pc = "chunks", !.packet = q, !.part = 0,
                                               !.manifests = @ \ {q}])
                  /\ UNCHANGED seen
             ELSE /\ GoesOn(t, [poll[t] EXCEPT !.manifests = @ \ {q}])
                  /\ seen' = IF seen[t][q] = Nothing THEN [seen EXCEPT ![t][q] = clock] ELSE seen
      BY <1>6 DEF ReadManifest
    <2>2. /\ poll[t].pc = "read" /\ UNCHANGED <<clock, keys, send, disposed, delivered>>
          /\ ~Doomed(t, p)
      BY <1>6 DEF ReadManifest, Doomed
    <2>3. q \in Packets
      BY <2>1 DEF MailboxInv, MailboxTypeOK, Scans
    <2>4. seen'[t][p] = seen[t][p] \/ seen'[t][p] = clock
      <3>1. CASE seen' = seen
        BY <3>1
      <3>2. CASE seen' = [seen EXCEPT ![t][q] = clock]
        BY <3>2, <2>3 DEF MailboxInv, MailboxTypeOK
      <3> QED
        BY <2>1, <3>1, <3>2
    <2>5. CASE ~(q = p /\ seen[t][q] = Nothing /\ Manifest(q) \in keys)
      <3>1. ~(poll'[t].pc = "chunks" /\ poll'[t].packet = p)
        <4>1. poll[t] \in Scans
          BY DEF MailboxInv, MailboxTypeOK
        <4>2. CASE q # p /\ GoesOn(t, [poll[t] EXCEPT !.pc = "chunks", !.packet = q, !.part = 0,
                                                      !.manifests = @ \ {q}])
          <5>1. poll'[t] = [poll[t] EXCEPT !.pc = "chunks", !.packet = q, !.part = 0,
                                           !.manifests = @ \ {q}]
            BY <4>2, ScanMoved DEF MailboxInv
          <5>2. poll'[t].packet = q
            BY <4>1, <5>1 DEF Scans
          <5> QED
            BY <4>2, <5>2
        <4>3. CASE GoesOn(t, [poll[t] EXCEPT !.manifests = @ \ {q}])
          <5>1. poll'[t] = [poll[t] EXCEPT !.manifests = @ \ {q}]
            BY <4>3, ScanMoved DEF MailboxInv
          <5>2. poll'[t].pc = poll[t].pc
            BY <4>1, <5>1 DEF Scans
          <5> QED
            BY <2>2, <5>2
        <4> QED
          BY <2>1, <2>5, <4>2, <4>3
      <3> QED
        BY <2>2, <2>4, <3>1, Ongoing DEF Unreadable
    <2>6. CASE q = p /\ seen[t][q] = Nothing /\ Manifest(q) \in keys
      <3> SUFFICES ASSUME Had(t, p)' PROVE Known(t, p)' /\ Unreadable(t, p)'
        BY DEF RemembersPacket
      <3>1. Torn(p)
        BY <2>2, <2>6, Before DEF Known
      <3>2. PICK i \in 0 .. Chunks[p] : <<p, i>> \notin keys
        BY <3>1 DEF Torn
      <3>3. i \in 0 .. Chunks[p] - 1
        BY <2>6, <3>2, MailboxAssumption DEF Manifest
      <3>4. poll'[t].part = 0
        <4>1. poll[t] \in Scans
          BY DEF MailboxInv, MailboxTypeOK
        <4>2. poll'[t] = [poll[t] EXCEPT !.pc = "chunks", !.packet = q, !.part = 0,
                                         !.manifests = @ \ {q}]
          BY <2>1, <2>6, ScanMoved DEF MailboxInv
        <4> QED
          BY <4>1, <4>2 DEF Scans
      <3> QED
        BY <2>2, <3>2, <3>3, <3>4 DEF Known, Torn, Unreadable
    <2> QED
      BY <2>5, <2>6
  <1>7. CASE ReadChunk(t)
    <2>1. /\ poll[t].pc = "chunks" /\ poll[t].part < Chunks[poll[t].packet]
          /\ UNCHANGED <<keys, send, seen, delivered>> /\ ~Doomed(t, p)
      BY <1>7 DEF ReadChunk, Doomed
    <2>2. CASE /\ <<poll[t].packet, poll[t].part>> \in keys
               /\ GoesOn(t, [poll[t] EXCEPT !.part = @ + 1])
      <3>1. /\ poll'[t].pc = poll[t].pc /\ poll'[t].packet = poll[t].packet
            /\ poll'[t].part = poll[t].part + 1
        BY <2>2 DEF GoesOn, MailboxInv, MailboxTypeOK, Scans
      <3>2. Unreadable(t, p) => Unreadable(t, p)'
        <4> SUFFICES ASSUME Unreadable(t, p), poll[t].packet = p
                     PROVE  \E i \in poll'[t].part .. Chunks[p] - 1 : <<p, i>> \notin keys'
          BY <3>1 DEF Unreadable
        <4>1. PICK i \in poll[t].part .. Chunks[p] - 1 : <<p, i>> \notin keys
          BY <2>1 DEF Unreadable
        <4>2. i # poll[t].part
          BY <2>2, <4>1
        <4>3. poll[t].part \in Nat /\ Chunks[p] \in Nat
          BY MailboxAssumption DEF MailboxInv, MailboxTypeOK, Scans
        <4> QED
          BY <2>1, <3>1, <4>1, <4>2, <4>3
      <3> QED
        BY <2>1, <3>2, Ongoing
    <2>3. CASE GoesOn(t, [poll[t] EXCEPT !.pc = "read", !.packet = Nothing, !.part = 0])
      <3>1. poll'[t].pc = "read"
        BY <2>3 DEF GoesOn, MailboxInv, MailboxTypeOK, Scans
      <3> QED
        BY <2>1, <3>1, Ongoing DEF Unreadable
    <2> QED
      BY <1>7, <2>2, <2>3 DEF ReadChunk
  <1>8. CASE OnPacket(t)
    <2>1. /\ poll'[t].pc = "read" /\ ~Doomed(t, p) /\ UNCHANGED <<clock, send, keys>>
          /\ poll[t].packet \in Packets
      BY <1>8 DEF OnPacket, Doomed, GoesOn, MailboxInv, MailboxTypeOK, Scans
    <2>2. CASE p = poll[t].packet
      <3>1. seen'[t][p] = clock
        BY <1>8, <2>2 DEF OnPacket, MailboxInv, MailboxTypeOK
      <3>2. clock # Nothing /\ clock >= send[p].born
        BY MailboxAssumption DEF MailboxInv, MailboxTypeOK, Ages, Sends
      <3> QED
        BY <2>1, <3>1, <3>2 DEF RemembersPacket, Known, Unreadable
    <2>3. CASE p # poll[t].packet
      <3>1. seen'[t][p] = seen[t][p] /\ delivered'[t][p] = delivered[t][p]
        BY <1>8, <2>1, <2>3 DEF OnPacket, MailboxInv, MailboxTypeOK
      <3> QED
        BY <2>1, <3>1, Ongoing DEF Unreadable
    <2> QED
      BY <2>2, <2>3
  <1>9. CASE AllRead(t)
    <2>1. /\ poll'[t].pc = "idle" /\ ~Doomed(t, p) /\ UNCHANGED <<seen, delivered>>
      BY <1>9 DEF AllRead, Doomed, PollEnds, GoesOn, IdlePoll, MailboxInv, MailboxTypeOK
    <2> QED
      BY <2>1, Ongoing DEF Unreadable
  <1>10. CASE PollFails(t)
    <2>1. poll'[t].pc = "idle" /\ UNCHANGED <<seen, delivered>>
      BY <1>10 DEF PollFails, PollEnds, GoesOn, IdlePoll, MailboxInv, MailboxTypeOK
    <2> SUFFICES ASSUME Had(t, p)' PROVE Known(t, p)' /\ Unreadable(t, p)'
      BY DEF RemembersPacket
    <2> QED
      BY <2>1, Before DEF Known, Doomed, Unreadable
  <1>11. CASE DisposeMailbox(t)
    <2>1. disposed'[t]
      BY <1>11 DEF DisposeMailbox, MailboxInv, MailboxTypeOK
    <2> QED
      BY <2>1 DEF RemembersPacket, Had
  <1>12. ASSUME NEW q \in Packets, Send(q) PROVE RemembersPacket(t, p)'
    <2>1. CASE From[q] = t /\ poll[t].pc = "idle"
      BY <1>12, <2>1, Listing DEF Send
    <2>2. CASE ~(From[q] = t /\ poll[t].pc = "idle")
      <3>1. poll'[t] = poll[t] /\ seen'[t] = seen[t] /\ delivered' = delivered
        BY <1>12, <2>2, MailboxAssumption DEF Send, List, GoesOn, MailboxInv, MailboxTypeOK
      <3> QED
        BY <3>1, Bystander
    <2> QED
      BY <2>1, <2>2
  <1>13. ASSUME NEW q \in Packets, NEW pc, send' = [send EXCEPT ![q].pc = pc],
                seen' = [seen EXCEPT ![From[q]][q] = clock],
                UNCHANGED <<clock, keys, poll, delivered>>
         PROVE  RemembersPacket(t, p)'
    <2>1. CASE From[q] = t /\ q = p
      <3> SUFFICES ASSUME Had(t, p)' PROVE Known(t, p)' /\ Unreadable(t, p)'
        BY DEF RemembersPacket
      <3>1. /\ seen'[t][p] = clock /\ send'[p].born = send[p].born
            /\ UNCHANGED <<clock, keys, poll, delivered>>
        BY <1>13, <2>1 DEF MailboxInv, MailboxTypeOK, Sends
      <3>2. clock # Nothing /\ clock >= send[p].born
        BY MailboxAssumption DEF MailboxInv, MailboxTypeOK, Ages, Sends
      <3>3. Unreadable(t, p)
        BY <3>1, Before
      <3> QED
        BY <3>1, <3>2, <3>3 DEF Known, Unreadable
    <2>2. CASE ~(From[q] = t /\ q = p)
      <3>1. seen'[t][p] = seen[t][p] /\ UNCHANGED <<poll, delivered>>
        BY <1>13, <2>2, MailboxAssumption DEF MailboxInv, MailboxTypeOK
      <3> QED
        BY <3>1, Bystander
    <2> QED
      BY <2>1, <2>2
  <1>14. ASSUME NEW q \in Packets, SendStep(q) \/ SendFails(q)
         PROVE  RemembersPacket(t, p)'
    <2>1. CASE Admit(q) \/ Refuse(q) \/ Write(q)
      BY <1>1, <2>1 DEF Admit, Refuse, Write
    <2>2. CASE WakeOthers(q)
      BY <1>13, <2>2 DEF WakeOthers
    <2>3. CASE SendFails(q)
      BY <1>1, <1>13, <2>3 DEF SendFails
    <2> QED
      BY <1>14, <2>1, <2>2, <2>3 DEF SendStep
  <1>15. CASE Tick \/ UNCHANGED mailboxVars
    BY <1>1, <1>15 DEF Tick, mailboxVars
  <1> QED
    BY <1>2, <1>3, <1>4, <1>5, <1>6, <1>7, <1>8, <1>9, <1>10, <1>11, <1>12, <1>13,
       <1>14, <1>15 DEF MailboxNext, PollStep

\* Nobody has twice what it can still read.
LEMMA OnceKept ==
    ASSUME MailboxInv, [MailboxNext]_mailboxVars
    PROVE  DeliveredAtMostOnce'
  <1> USE DEF MailboxInv, DeliveredAtMostOnce
  <1>1. CASE UNCHANGED delivered
    BY <1>1
  <1>2. ASSUME NEW t \in Tabs, OnPacket(t) PROVE DeliveredAtMostOnce'
    <2> DEFINE p == poll[t].packet
    <2>1. p \in Packets /\ poll[t].pc = "chunks" /\ poll[t].part = Chunks[p]
      BY <1>2 DEF OnPacket, MailboxTypeOK
    <2>2. ~Had(t, p)
      <3> SUFFICES ASSUME Had(t, p) PROVE FALSE
        OBVIOUS
      <3>1. \E i \in poll[t].part .. Chunks[p] - 1 : <<p, i>> \notin keys
        BY <2>1 DEF Remembered, RemembersPacket, Unreadable
      <3> QED
        BY <2>1, <3>1, MailboxAssumption
    <2>3. /\ disposed[t] => delivered'[t][p] = delivered[t][p]
          /\ ~disposed[t] => delivered'[t][p] = delivered[t][p] + 1
          /\ \A u \in Tabs, q \in Packets :
                u # t \/ q # p => delivered'[u][q] = delivered[u][q]
      BY <1>2, <2>1 DEF OnPacket, MailboxTypeOK
    <2>4. ~disposed[t] => delivered[t][p] = 0
      BY <2>1, <2>2 DEF Had
    <2>5. delivered'[t][p] <= 1
      BY <2>1, <2>3, <2>4
    <2> QED
      BY <2>3, <2>5
  <1> QED
    BY <1>1, <1>2 DEF MailboxNext, PollStep, SendStep, Tick, Poll, SweepKey, Relist, RelistFull,
       ReadManifest, ReadChunk, AllRead, PollFails, DisposeMailbox, Send, Admit, Refuse, Write,
       WakeOthers,
       SendFails, mailboxVars

LEMMA AgesKept ==
    ASSUME MailboxInv, [MailboxNext]_mailboxVars
    PROVE  Ages'
  <1>1. clock' >= clock /\ clock \in Nat /\ \A p \in Packets : send[p].born \in Nat /\ send[p].born <= clock
    BY Persists DEF MailboxInv, Ages, MailboxTypeOK, Sends
  <1>2. CASE UNCHANGED send /\ clock' \in Nat
    BY <1>1, <1>2 DEF Ages
  <1>3. CASE \A p \in Packets : send'[p].born \in {send[p].born, clock} /\ clock' = clock
    BY <1>1, <1>3 DEF Ages
  <1>4. CASE Tick
    BY <1>1, <1>2, <1>4 DEF Tick
  <1>5. ASSUME NEW t \in Tabs,
               Poll(t) \/ SweepKey(t) \/ Relist(t) \/ ReadManifest(t) \/ ReadChunk(t) \/ OnPacket(t)
               \/ DisposeMailbox(t)
        PROVE  Ages'
    <2>1. UNCHANGED <<clock, send>>
      BY <1>5 DEF Poll, SweepKey, Relist, ReadManifest, ReadChunk, OnPacket, DisposeMailbox
    <2> QED
      BY <1>1, <1>2, <2>1
  <1>6. ASSUME NEW t \in Tabs, RelistFull(t) \/ AllRead(t) \/ PollFails(t) PROVE Ages'
    <2>1. PICK pc : PollEnds(t, pc)
      BY <1>6 DEF RelistFull, AllRead, PollFails
    <2>2. clock' = clock
      BY <1>6 DEF RelistFull, AllRead, PollFails
    <2> QED
      BY <1>3, <2>1, <2>2, EndsOfUnsettled
  <1>7. ASSUME NEW p \in Packets, Send(p) \/ SendStep(p) \/ SendFails(p) PROVE Ages'
    <2>1. clock' = clock
      BY <1>7 DEF Send, SendStep, Admit, Refuse, Write, WakeOthers, SendFails
    <2>2. \A q \in Packets : send'[q].born \in {send[q].born, clock}
      <3> USE DEF MailboxInv, MailboxTypeOK, Sends
      <3>1. CASE Send(p)
        <4>1. PICK pc : send' = [send EXCEPT ![p].pc = pc]
          BY <3>1 DEF Send
        <4> QED
          BY <4>1
      <3>2. CASE Admit(p)
        BY <3>2 DEF Admit
      <3>3. CASE Refuse(p)
        BY <3>3 DEF Refuse
      <3>4. CASE Write(p)
        BY <3>4 DEF Write
      <3>5. CASE WakeOthers(p)
        BY <3>5 DEF WakeOthers
      <3>6. CASE SendFails(p)
        BY <3>6 DEF SendFails
      <3> QED
        BY <1>7, <3>1, <3>2, <3>3, <3>4, <3>5, <3>6 DEF SendStep
    <2> QED
      BY <1>3, <2>1, <2>2
  <1>8. CASE UNCHANGED mailboxVars
    BY <1>1, <1>2, <1>8 DEF mailboxVars
  <1> QED
    BY <1>4, <1>5, <1>6, <1>7, <1>8 DEF MailboxNext, PollStep

\* What a scan looks at: what was stored when it listed the names.
LEMMA NamesListed ==
    ASSUME MailboxInv, [MailboxNext]_mailboxVars, NEW t \in Tabs
    PROVE  poll'[t].names \subseteq keys \cup poll[t].names
  <1> USE DEF MailboxInv, MailboxTypeOK
  <1> DEFINE Goal == poll'[t].names \subseteq keys \cup poll[t].names
  <1>1. CASE UNCHANGED poll
    BY <1>1
  <1>2. ASSUME NEW u \in Tabs, NEW sender, List(u, sender) PROVE Goal
    BY <1>2 DEF List, GoesOn, IdlePoll
  <1>3. ASSUME NEW u \in Tabs, NEW pc, PollEnds(u, pc) PROVE Goal
    BY <1>3 DEF PollEnds, GoesOn, IdlePoll
  <1>4. ASSUME NEW u \in Tabs, NEW x, GoesOn(u, x), x.names \subseteq poll[u].names PROVE Goal
    BY <1>4 DEF GoesOn
  <1>5. ASSUME NEW u \in Tabs, SweepKey(u) PROVE Goal
    <2>1. PICK k : GoesOn(u, [poll[u] EXCEPT !.names = @ \ {k}])
      BY <1>5 DEF SweepKey
    <2>2. [poll[u] EXCEPT !.names = @ \ {k}].names \subseteq poll[u].names
      BY DEF Scans
    <2> QED
      BY <1>4, <2>1, <2>2
  <1>6. ASSUME NEW u \in Tabs, Relist(u) PROVE Goal
    BY <1>6 DEF Relist, GoesOn, IdlePoll
  <1>7. ASSUME NEW u \in Tabs, ReadManifest(u) \/ ReadChunk(u) \/ OnPacket(u) PROVE Goal
    <2> DEFINE x(p) == [poll[u] EXCEPT !.pc = "chunks", !.packet = p, !.part = 0,
                                       !.manifests = @ \ {p}]
               y(p) == [poll[u] EXCEPT !.manifests = @ \ {p}]
               z == [poll[u] EXCEPT !.part = @ + 1]
               w == [poll[u] EXCEPT !.pc = "read", !.packet = Nothing, !.part = 0]
    <2>1. (\E p : GoesOn(u, x(p)) \/ GoesOn(u, y(p))) \/ GoesOn(u, z) \/ GoesOn(u, w)
      BY <1>7 DEF ReadManifest, ReadChunk, OnPacket
    <2>2. poll[u] \in Scans
      OBVIOUS
    <2>3. /\ \A p : x(p).names = poll[u].names /\ y(p).names = poll[u].names
          /\ z.names = poll[u].names /\ w.names = poll[u].names
      BY <2>2 DEF Scans
    <2> HIDE DEF x, y, z, w
    <2> QED
      BY <1>4, <2>1, <2>3
  <1> QED
    BY <1>1, <1>2, <1>3, <1>5, <1>6, <1>7, MailboxAssumption DEF MailboxNext, PollStep,
       SendStep, Tick,
       Poll, RelistFull, AllRead, PollFails, DisposeMailbox, Send, Admit, Refuse, Write,
       WakeOthers, SendFails,
       mailboxVars

LEMMA PartsKept ==
    ASSUME MailboxInv, MailboxTypeOK', [MailboxNext]_mailboxVars
    PROVE  Parts'
  <1> USE DEF MailboxInv, MailboxTypeOK
  <1>1. \A p \in Packets :
          Chunks[p] \in Nat /\ send[p].part \in Nat /\ send[p].part <= Chunks[p]
    BY MailboxAssumption DEF Parts, Sends
  <1>2. \A p \in Packets : send'[p].part <= Chunks[p]
    <2> USE DEF Parts, Sends
    <2>1. CASE UNCHANGED send
      BY <2>1
    <2>2. ASSUME NEW t \in Tabs, NEW pc, PollEnds(t, pc)
          PROVE  \A p \in Packets : send'[p].part <= Chunks[p]
      BY <2>2, EndsOfUnsettled
    <2>3. ASSUME NEW p \in Packets, Write(p)
          PROVE  \A q \in Packets : send'[q].part <= Chunks[q]
      <3>1. CASE send' = [send EXCEPT ![p].pc = "written"]
        BY <3>1
      <3>2. CASE send[p].part # Chunks[p] /\ send' = [send EXCEPT ![p].part = send[p].part + 1]
        <4>1. send[p].part + 1 <= Chunks[p]
          <5> HIDE DEF MailboxInv, MailboxTypeOK, Parts, Sends
          <5> QED
            BY <1>1, <3>2
        <4>2. send[p] \in Sends /\ send'[p] = [send[p] EXCEPT !.part = send[p].part + 1]
              /\ \A q \in Packets \ {p} : send'[q] = send[q]
          BY <3>2
        <4>3. send'[p].part = send[p].part + 1
          BY <4>2
        <4> QED
          BY <4>1, <4>2, <4>3
      <3> QED
        BY <2>3, <3>1, <3>2 DEF Write
    <2>4. ASSUME NEW p \in Packets, Send(p)
          PROVE  \A q \in Packets : send'[q].part <= Chunks[q]
      <3>1. PICK pc : send' = [send EXCEPT ![p].pc = pc]
        BY <2>4 DEF Send
      <3> QED
        BY <3>1
    <2>5. ASSUME NEW p \in Packets, Admit(p)
          PROVE  \A q \in Packets : send'[q].part <= Chunks[q]
      BY <2>5 DEF Admit
    <2>6. ASSUME NEW p \in Packets, Refuse(p) \/ WakeOthers(p) \/ SendFails(p)
          PROVE  \A q \in Packets : send'[q].part <= Chunks[q]
      <3>1. PICK pc : send' = [send EXCEPT ![p].pc = pc]
        BY <2>6 DEF Refuse, WakeOthers, SendFails
      <3> QED
        BY <3>1
    <2> QED
      BY <2>1, <2>2, <2>3, <2>4, <2>5, <2>6 DEF MailboxNext, PollStep, SendStep, Tick, Poll,
         SweepKey,
         Relist, RelistFull, ReadManifest, ReadChunk, OnPacket, AllRead, PollFails,
         DisposeMailbox, mailboxVars
  <1>3. \A k \in keys' : k[2] <= Chunks[k[1]]
    <2>1. CASE keys' \subseteq keys
      BY <2>1 DEF Parts
    <2>2. ASSUME NEW p \in Packets, Write(p) PROVE \A k \in keys' : k[2] <= Chunks[k[1]]
      BY <2>2 DEF Write, Parts
    <2> QED
      BY <2>1, <2>2 DEF MailboxNext, PollStep, SendStep, Tick, Poll, SweepKey, Relist, RelistFull,
         ReadManifest, ReadChunk, OnPacket, AllRead, PollFails, DisposeMailbox, Send, Admit, Refuse,
         WakeOthers, SendFails, mailboxVars
  <1>4. ASSUME NEW t \in Tabs PROVE \A k \in poll'[t].names : k[2] <= Chunks[k[1]]
    <2>1. poll'[t].names \subseteq keys \cup poll[t].names
      BY <1>4, NamesListed
    <2> QED
      BY <2>1 DEF Parts
  <1> QED
    BY <1>2, <1>3, <1>4 DEF Parts

\* A packet is complete only when its sender is done with it.
LEMMA FreshKept ==
    ASSUME MailboxInv, [MailboxNext]_mailboxVars
    PROVE  Fresh'
  <1> USE DEF MailboxInv, MailboxTypeOK
  <1> SUFFICES ASSUME NEW p \in Packets, ~Settled(p)'
               PROVE  /\ Manifest(p) \notin keys'
                      /\ \A t \in Tabs : /\ delivered'[t][p] = 0
                                         /\ poll'[t].pc = "chunks" => poll'[t].packet # p
    BY DEF Fresh, Manifest
  <1>1. /\ ~Settled(p) /\ Manifest(p) \notin keys
        /\ \A t \in Tabs : delivered[t][p] = 0
        /\ \A t \in Tabs : poll[t].pc = "chunks" => poll[t].packet # p
    <2>1. ~Settled(p)
      BY Persists
    <2> QED
      BY <2>1 DEF Fresh
  <1>2. Manifest(p) \notin keys'
    <2>1. CASE keys' \subseteq keys
      BY <1>1, <2>1
    <2>2. ASSUME NEW q \in Packets, Write(q) PROVE Manifest(p) \notin keys'
      <3>1. CASE q = p /\ send[p].part = Chunks[p]
        <4>1. send'[p].pc = "written"
          BY <2>2, <3>1 DEF Write, Sends
        <4> QED
          BY <4>1 DEF Settled
      <3>2. CASE ~(q = p /\ send[p].part = Chunks[p])
        BY <1>1, <2>2, <3>2 DEF Write, Manifest
      <3> QED
        BY <3>1, <3>2
    <2> QED
      BY <2>1, <2>2 DEF MailboxNext, PollStep, SendStep, Tick, Poll, SweepKey, Relist, RelistFull,
         ReadManifest, ReadChunk, OnPacket, AllRead, PollFails, DisposeMailbox, Send, Admit, Refuse,
         WakeOthers, SendFails, mailboxVars
  <1>3. ASSUME NEW t \in Tabs PROVE delivered'[t][p] = 0
    <2>1. CASE UNCHANGED delivered
      BY <1>1, <2>1
    <2>2. ASSUME NEW u \in Tabs, OnPacket(u) PROVE delivered'[t][p] = 0
      BY <1>1, <2>2 DEF OnPacket
    <2> QED
      BY <2>1, <2>2 DEF MailboxNext, PollStep, SendStep, Tick, Poll, SweepKey, Relist, RelistFull,
         ReadManifest, ReadChunk, AllRead, PollFails, DisposeMailbox, Send, Admit, Refuse, Write,
         WakeOthers, SendFails, mailboxVars
  <1>4. ASSUME NEW t \in Tabs, poll'[t].pc = "chunks" PROVE poll'[t].packet # p
    <2>1. CASE poll'[t] = poll[t]
      BY <1>1, <1>4, <2>1
    <2>2. CASE ReadManifest(t)
      <3>1. PICK q \in poll[t].manifests :
               \/ /\ Manifest(q) \in keys
                  /\ GoesOn(t, [poll[t] EXCEPT !.pc = "chunks", !.packet = q, !.part = 0,
                                               !.manifests = @ \ {q}])
               \/ GoesOn(t, [poll[t] EXCEPT !.manifests = @ \ {q}])
        BY <2>2 DEF ReadManifest
      <3>2. poll[t] \in Scans /\ poll[t].pc = "read"
        BY <2>2 DEF ReadManifest
      <3>3. CASE Manifest(q) \in keys /\ GoesOn(t, [poll[t] EXCEPT !.pc = "chunks",
                     !.packet = q, !.part = 0, !.manifests = @ \ {q}])
        <4>1. poll'[t] = [poll[t] EXCEPT !.pc = "chunks", !.packet = q, !.part = 0,
                                         !.manifests = @ \ {q}]
          BY <3>3, ScanMoved
        <4>2. poll'[t].packet = q
          BY <3>2, <4>1 DEF Scans
        <4> QED
          BY <1>1, <3>3, <4>2
      <3>4. CASE GoesOn(t, [poll[t] EXCEPT !.manifests = @ \ {q}])
        <4>1. poll'[t] = [poll[t] EXCEPT !.manifests = @ \ {q}]
          BY <3>4, ScanMoved
        <4>2. poll'[t].pc = "read"
          BY <3>2, <4>1 DEF Scans
        <4> QED
          BY <1>4, <4>2
      <3> QED
        BY <3>1, <3>3, <3>4
    <2>3. CASE ReadChunk(t)
      <3>1. \/ GoesOn(t, [poll[t] EXCEPT !.part = @ + 1])
            \/ GoesOn(t, [poll[t] EXCEPT !.pc = "read", !.packet = Nothing, !.part = 0])
        BY <2>3 DEF ReadChunk
      <3>2. poll[t] \in Scans /\ poll[t].pc = "chunks"
        BY <2>3 DEF ReadChunk
      <3>3. \/ poll'[t] = [poll[t] EXCEPT !.part = @ + 1]
            \/ poll'[t] = [poll[t] EXCEPT !.pc = "read", !.packet = Nothing, !.part = 0]
        BY <3>1, ScanMoved
      <3>4. poll'[t].packet = poll[t].packet
        BY <1>4, <3>2, <3>3 DEF Scans
      <3> QED
        BY <1>1, <3>2, <3>4
    <2>4. CASE SweepKey(t)
      <3>1. PICK k : GoesOn(t, [poll[t] EXCEPT !.names = @ \ {k}])
        BY <2>4 DEF SweepKey
      <3>2. poll[t] \in Scans /\ poll[t].pc = "sweep"
        BY <2>4 DEF SweepKey
      <3>3. poll'[t] = [poll[t] EXCEPT !.names = @ \ {k}]
        BY <3>1, ScanMoved
      <3>4. poll'[t].pc = "sweep"
        BY <3>2, <3>3 DEF Scans
      <3> QED
        BY <1>4, <3>4
    <2>5. CASE Relist(t)
      BY <1>4, <2>5 DEF Relist, GoesOn, IdlePoll
    <2>6. CASE OnPacket(t)
      <3>1. poll[t] \in Scans
            /\ poll'[t] = [poll[t] EXCEPT !.pc = "read", !.packet = Nothing, !.part = 0]
        BY <2>6, ScanMoved DEF OnPacket
      <3>2. poll'[t].pc = "read"
        BY <3>1 DEF Scans
      <3> QED
        BY <1>4, <3>2
    <2>7. ASSUME NEW pc, PollEnds(t, pc) PROVE FALSE
      BY <1>4, <2>7 DEF PollEnds, GoesOn, IdlePoll
    <2>8. ASSUME NEW sender, List(t, sender) PROVE FALSE
      BY <1>4, <2>8 DEF List, GoesOn, IdlePoll
    <2>9. ASSUME NEW u \in Tabs, u # t, PollStep(u) \/ PollFails(u) \/ DisposeMailbox(u)
          PROVE  poll'[t] = poll[t]
      BY <2>9 DEF PollStep, PollFails, DisposeMailbox, Poll, List, SweepKey, Relist, RelistFull,
         PollEnds, ReadManifest, ReadChunk, OnPacket, AllRead, GoesOn
    <2>10. ASSUME NEW q \in Packets, Send(q)
           PROVE  poll'[t] = poll[t] \/ List(t, q)
      BY <2>10, MailboxAssumption DEF Send, List, GoesOn
    <2>11. CASE UNCHANGED poll
      BY <2>1, <2>11
    <2>12. CASE PollStep(t) \/ PollFails(t) \/ DisposeMailbox(t)
      BY <2>2, <2>3, <2>4, <2>5, <2>6, <2>7, <2>8, <2>11, <2>12
         DEF PollStep, Poll, RelistFull, AllRead, PollFails, DisposeMailbox
    <2>13. ASSUME NEW q \in Packets, Send(q) \/ SendStep(q) \/ SendFails(q)
           PROVE  poll'[t].packet # p
      BY <2>1, <2>8, <2>10, <2>11, <2>13 DEF SendStep, Admit, Refuse, Write, WakeOthers, SendFails
    <2>14. CASE Tick \/ UNCHANGED mailboxVars
      BY <2>11, <2>14 DEF Tick, mailboxVars
    <2> HIDE DEF MailboxInv, MailboxTypeOK
    <2> QED
      BY <2>1, <2>9, <2>12, <2>13, <2>14 DEF MailboxNext
  <1> QED
    BY <1>2, <1>3, <1>4

\* A send that has begun a poll waits for it.
LEMMA SendersKept ==
    ASSUME MailboxInv, [MailboxNext]_mailboxVars
    PROVE  Senders'
  <1> USE DEF MailboxInv, MailboxTypeOK
  <1> SUFFICES ASSUME NEW t \in Tabs, poll'[t].sender # Nothing
               PROVE  From[poll'[t].sender] = t /\ send'[poll'[t].sender].pc = "polling"
    BY DEF Senders
  <1>1. poll[t] \in Scans /\ (poll[t].sender # Nothing =>
          From[poll[t].sender] = t /\ send[poll[t].sender].pc = "polling")
    BY DEF Senders
  <1>2. poll[t].sender # Nothing => poll[t].sender \in Packets
    BY <1>1 DEF Scans
  <1>3. CASE UNCHANGED send /\ poll'[t].sender \in {poll[t].sender, Nothing}
    BY <1>1, <1>3
  <1>4. ASSUME NEW u \in Tabs, Poll(u) PROVE poll'[t].sender \in {poll[t].sender, Nothing}
    BY <1>4 DEF Poll, List, GoesOn, IdlePoll
  <1>5. ASSUME NEW u \in Tabs, Relist(u) PROVE poll'[t].sender \in {poll[t].sender, Nothing}
    BY <1>5 DEF Relist, GoesOn, IdlePoll
  <1>6. ASSUME NEW u \in Tabs, SweepKey(u) \/ ReadManifest(u) \/ ReadChunk(u) \/ OnPacket(u)
        PROVE  poll'[t].sender \in {poll[t].sender, Nothing}
    <2>1. CASE u # t
      BY <1>6, <2>1 DEF SweepKey, ReadManifest, ReadChunk, OnPacket, GoesOn
    <2>2. CASE u = t
      <3>1. \/ \E k : GoesOn(t, [poll[t] EXCEPT !.names = @ \ {k}])
            \/ \E k : GoesOn(t, [poll[t] EXCEPT !.pc = "chunks", !.packet = k, !.part = 0,
                                                !.manifests = @ \ {k}])
            \/ \E k : GoesOn(t, [poll[t] EXCEPT !.manifests = @ \ {k}])
            \/ GoesOn(t, [poll[t] EXCEPT !.part = @ + 1])
            \/ GoesOn(t, [poll[t] EXCEPT !.pc = "read", !.packet = Nothing, !.part = 0])
        BY <1>6, <2>2 DEF SweepKey, ReadManifest, ReadChunk, OnPacket
      <3>2. PICK k : \/ poll'[t] = [poll[t] EXCEPT !.names = @ \ {k}]
                     \/ poll'[t] = [poll[t] EXCEPT !.pc = "chunks", !.packet = k, !.part = 0,
                                                   !.manifests = @ \ {k}]
                     \/ poll'[t] = [poll[t] EXCEPT !.manifests = @ \ {k}]
                     \/ poll'[t] = [poll[t] EXCEPT !.part = @ + 1]
                     \/ poll'[t] = [poll[t] EXCEPT !.pc = "read", !.packet = Nothing, !.part = 0]
        BY <3>1, ScanMoved
      <3>3. poll'[t].sender = poll[t].sender
        BY <1>1, <3>2 DEF Scans
      <3> QED
        BY <3>3
    <2> QED
      BY <2>1, <2>2
  <1>7. ASSUME NEW u \in Tabs, NEW pc, PollEnds(u, pc)
        PROVE  From[poll'[t].sender] = t /\ send'[poll'[t].sender].pc = "polling"
    <2>1. u # t
      BY <1>7 DEF PollEnds, GoesOn, IdlePoll
    <2>2. poll'[t] = poll[t]
      BY <1>7, <2>1 DEF PollEnds, GoesOn
    <2>3. poll[t].sender # poll[u].sender
      <3>1. From[poll[t].sender] = t
        BY <1>1, <2>2
      <3>2. poll[u].sender # Nothing => From[poll[u].sender] = u
        BY DEF Senders
      <3> QED
        BY <2>1, <2>2, <3>1, <3>2
    <2> QED
      BY <1>1, <1>2, <1>7, <2>2, <2>3 DEF PollEnds
  <1>8. ASSUME NEW q \in Packets, send'[q] # send[q] => send[q].pc # "polling",
               \A r \in Packets \ {q} : send'[r] = send[r], poll'[t] = poll[t]
        PROVE  From[poll'[t].sender] = t /\ send'[poll'[t].sender].pc = "polling"
    BY <1>1, <1>2, <1>8
  <1>9. ASSUME NEW q \in Packets, Send(q)
        PROVE  From[poll'[t].sender] = t /\ send'[poll'[t].sender].pc = "polling"
    <2>1. /\ send[q].pc = "unused" /\ \A r \in Packets \ {q} : send'[r] = send[r]
          /\ From[q] \in Tabs
      BY <1>9, MailboxAssumption DEF Send
    <2>2. CASE poll'[t] = poll[t]
      BY <1>8, <2>1, <2>2
    <2>3. CASE List(From[q], q) /\ send' = [send EXCEPT ![q].pc = "polling"] /\ From[q] = t
      <3>1. poll'[t].sender = q
        BY <2>3 DEF List, GoesOn, IdlePoll
      <3>2. send'[q].pc = "polling"
        BY <2>3 DEF Sends
      <3> QED
        BY <2>3, <3>1, <3>2
    <2>4. CASE List(From[q], q) /\ From[q] # t
      <3>1. poll'[t] = poll[t]
        BY <2>1, <2>4 DEF List, GoesOn
      <3> QED
        BY <2>2, <3>1
    <2> QED
      BY <1>9, <2>2, <2>3, <2>4 DEF Send
  <1>10. ASSUME NEW q \in Packets, SendStep(q) \/ SendFails(q)
         PROVE  From[poll'[t].sender] = t /\ send'[poll'[t].sender].pc = "polling"
    <2>1. send[q].pc # "polling" /\ poll' = poll
      BY <1>10 DEF SendStep, Admit, Refuse, Write, WakeOthers, SendFails
    <2>2. \A r \in Packets \ {q} : send'[r] = send[r]
      BY <1>10 DEF SendStep, Admit, Refuse, Write, WakeOthers, SendFails
    <2> QED
      BY <1>8, <2>1, <2>2
  <1>11. CASE Tick \/ UNCHANGED mailboxVars
    BY <1>3, <1>11 DEF Tick, mailboxVars
  <1>12. ASSUME NEW u \in Tabs, PollStep(u) \/ PollFails(u) \/ DisposeMailbox(u)
         PROVE  From[poll'[t].sender] = t /\ send'[poll'[t].sender].pc = "polling"
    <2>1. CASE Poll(u)
      BY <1>3, <1>4, <2>1 DEF Poll
    <2>2. CASE Relist(u)
      BY <1>3, <1>5, <2>2 DEF Relist
    <2>3. CASE SweepKey(u) \/ ReadManifest(u) \/ ReadChunk(u) \/ OnPacket(u)
      <3>1. UNCHANGED send
        BY <2>3 DEF SweepKey, ReadManifest, ReadChunk, OnPacket
      <3> QED
        BY <1>3, <1>6, <2>3, <3>1
    <2>4. CASE RelistFull(u) \/ AllRead(u) \/ PollFails(u)
      BY <1>7, <2>4 DEF RelistFull, AllRead, PollFails
    <2>5. CASE DisposeMailbox(u)
      BY <1>3, <2>5 DEF DisposeMailbox
    <2> QED
      BY <1>12, <2>1, <2>2, <2>3, <2>4, <2>5 DEF PollStep
  <1> HIDE DEF MailboxInv, MailboxTypeOK
  <1> QED
    BY <1>9, <1>10, <1>11, <1>12 DEF MailboxNext

LEMMA MailboxInvKept == MailboxInv /\ [MailboxNext]_mailboxVars => MailboxInv'
  <1> SUFFICES ASSUME MailboxInv, [MailboxNext]_mailboxVars PROVE MailboxInv'
    OBVIOUS
  <1>1. MailboxTypeOK'
    BY MailboxTypesKept DEF MailboxInv
  <1>2. Ages'
    BY AgesKept
  <1>3. Parts'
    BY <1>1, PartsKept
  <1>4. Fresh'
    BY FreshKept
  <1>5. Senders'
    BY SendersKept
  <1>6. Remembered'
    BY <1>1, RememberedKept
  <1>7. DeliveredAtMostOnce'
    BY OnceKept
  <1> QED
    BY <1>1, <1>2, <1>3, <1>4, <1>5, <1>6, <1>7 DEF MailboxInv

-----------------------------------------------------------------------------

\* Every value the mailbox keeps is of its kind: scans, sends, what is
\* remembered and what is stored.
THEOREM MailboxTypes == MailboxSpec => []MailboxTypeOK
  <1>1. MailboxInv => MailboxTypeOK
    BY DEF MailboxInv
  <1> QED
    BY <1>1, MailboxStart, MailboxInvKept, PTL DEF MailboxSpec

\* No tab is handed a packet twice, however many tabs scan, forget, remove and
\* write at the same time.
THEOREM MailboxDeliversOnce == MailboxSpec => []DeliveredAtMostOnce
  <1>1. MailboxInv => DeliveredAtMostOnce
    BY DEF MailboxInv
  <1> QED
    BY <1>1, MailboxStart, MailboxInvKept, PTL DEF MailboxSpec
=============================================================================
