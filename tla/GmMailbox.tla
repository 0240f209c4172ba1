----------------------------- MODULE GmMailbox ------------------------------
(***************************************************************************)
(* The mailbox that the userscripts of several tabs keep in the storage    *)
(* they share (browser-rpc-provider/src/transport/gm-mailbox.ts).  A       *)
(* packet is stored as chunks and then a manifest, under a fresh           *)
(* identifier that names the time of its creation.  Every tab scans the    *)
(* storage, removes what is older than the retention and hands on what it  *)
(* has not seen.  Each call of the storage is atomic and an await; tabs    *)
(* share a clock that does not go back.                                    *)
(***************************************************************************)
EXTENDS Integers, FiniteSets, FiniteSetsExt

CONSTANTS
    Tabs, Packets,
    From,        \* the tab that sends each packet
    Chunks,      \* chunks of each packet, also its size
    MaxKeys, MaxMessages, MaxStored,
    Retention,
    Nothing,
    Abandoned,   \* packets whose sender was closed before it was done
    Woken,       \* whether there was a wake before
    MaxTime,     \* bounds the clock
    MaxFaults    \* bounds the calls of the storage that fail

ASSUME MailboxAssumption ==
    /\ Nothing \notin Packets /\ Nothing \notin Int
    /\ From \in [Packets -> Tabs] /\ Abandoned \subseteq Packets
    /\ Woken \subseteq BOOLEAN
    /\ Chunks \in [Packets -> Nat \ {0}]
    /\ {MaxKeys, MaxMessages, MaxStored, Retention, MaxTime, MaxFaults} \subseteq Nat

VARIABLES
    clock,
    keys,      \* the storage: parts of packets ...
    woken,     \* ... and the key of the wake, which nobody removes
    send,      \* where the send of a packet stands, and when it was created
    seen,      \* by tab and packet: since when it is remembered
    poll,      \* where a tab's scan stands
    disposed,
    faults,
    delivered  \* history: how often a tab that was not disposed had a packet

mailboxVars == <<clock, keys, woken, send, seen, poll, disposed, faults, delivered>>

\* Part Chunks[p] is the manifest.
Manifest(p) == <<p, Chunks[p]>>
Manifests == {p \in Packets : Manifest(p) \in keys}
\* What the storage lists under the mailbox's prefix.
Listed == Cardinality(keys) + IF woken THEN 1 ELSE 0
Stored == MapThenSumSet(LAMBDA p : Chunks[p], Manifests)
Expired(p) == clock - send[p].born > Retention

IdlePoll == [pc |-> "idle", names |-> {}, since |-> 0, manifests |-> {},
             packet |-> Nothing, part |-> 0, sender |-> Nothing]

MailboxInit ==
    /\ clock = 0 /\ faults = 0 /\ woken \in Woken
    /\ keys \in {UNION {{<<p, i>> : i \in 0 .. written[p] - 1} : p \in Abandoned} :
                   written \in {w \in [Abandoned -> 0 .. MaxKeys] :
                                  \A p \in Abandoned : w[p] <= Chunks[p] + 1}}
    /\ send = [p \in Packets |->
                  [pc |-> IF p \in Abandoned THEN "failed" ELSE "unused", born |-> 0, part |-> 0]]
    /\ seen = [t \in Tabs |-> [p \in Packets |-> Nothing]]
    /\ poll = [t \in Tabs |-> IdlePoll]
    /\ disposed = [t \in Tabs |-> FALSE]
    /\ delivered = [t \in Tabs |-> [p \in Packets |-> 0]]

Tick ==
    /\ clock < MaxTime /\ clock' = clock + 1
    /\ UNCHANGED <<keys, woken, send, seen, poll, disposed, faults, delivered>>

-----------------------------------------------------------------------------
(* poll *)

\* The tab's scan, as it is from now on.
GoesOn(t, scan) == poll' = [poll EXCEPT ![t] = scan]

\* A mutant: forgotten when it is as old as the retention.
ListOffByOne(t, sender) ==
    /\ GoesOn(t, [IdlePoll EXCEPT
                    !.pc = "sweep", !.names = keys, !.since = clock, !.sender = sender])
    /\ seen' = [seen EXCEPT ![t] = [p \in Packets |->
                    IF @[p] # Nothing /\ clock - @[p] >= Retention THEN Nothing ELSE @[p]]]

\* The names are listed, and what was seen long ago is forgotten.
List(t, sender) ==
    /\ GoesOn(t, [IdlePoll EXCEPT
                    !.pc = "sweep", !.names = keys, !.since = clock, !.sender = sender])
    /\ seen' = [seen EXCEPT ![t] = [p \in Packets |->
                    IF @[p] # Nothing /\ clock - @[p] > Retention THEN Nothing ELSE @[p]]]

\* The timer, or a wake of another tab.
Poll(t) ==
    /\ ~disposed[t] /\ poll[t].pc = "idle"
    /\ List(t, Nothing)
    /\ UNCHANGED <<clock, keys, woken, send, disposed, faults, delivered>>

\* The poll is over; a send that has begun it goes on, or fails with it.
PollEnds(t, pc) ==
    /\ GoesOn(t, IdlePoll)
    /\ send' = [p \in Packets |->
                   IF p = poll[t].sender THEN [send[p] EXCEPT !.pc = pc] ELSE send[p]]

\* A mutant: chunks are left when their manifest is gone.
SweepManifests(t) ==
    /\ poll[t].pc = "sweep"
    /\ \E k \in poll[t].names :
          /\ Expired(k[1])
          /\ GoesOn(t, [poll[t] EXCEPT !.names = @ \ {k}])
          /\ keys' = keys \ {Manifest(k[1])}
          /\ seen' = [seen EXCEPT ![t][k[1]] = Nothing]
    /\ UNCHANGED <<clock, woken, send, disposed, faults, delivered>>

\* A mutant: what has just been made is taken for too old.
SweepOffByOne(t) ==
    /\ poll[t].pc = "sweep"
    /\ \E k \in poll[t].names :
          /\ clock - send[k[1]].born >= Retention
          /\ GoesOn(t, [poll[t] EXCEPT !.names = @ \ {k}])
          /\ keys' = keys \ {k}
          /\ seen' = [seen EXCEPT ![t][k[1]] = Nothing]
    /\ UNCHANGED <<clock, woken, send, disposed, faults, delivered>>

\* A name that is too old when its turn comes is deleted.
SweepKey(t) ==
    /\ poll[t].pc = "sweep"
    /\ \E k \in poll[t].names :
          /\ Expired(k[1])
          /\ GoesOn(t, [poll[t] EXCEPT !.names = @ \ {k}])
          /\ keys' = keys \ {k}
          /\ seen' = [seen EXCEPT ![t][k[1]] = Nothing]
    /\ UNCHANGED <<clock, woken, send, disposed, faults, delivered>>

\* Those that were not too old from the beginning may have had their turn.
Swept(t) ==
    /\ poll[t].pc = "sweep"
    /\ \A k \in poll[t].names : poll[t].since - send[k[1]].born <= Retention

\* The names are listed again.  Of many manifests the first ones are read,
\* except for those that were seen.
Relist(t) ==
    /\ Swept(t)
    /\ Listed <= MaxKeys
    /\ \E first \in SUBSET Manifests :
          /\ Cardinality(first) <= MaxMessages
          /\ Cardinality(first) < MaxMessages => first = Manifests
          /\ GoesOn(t, [IdlePoll EXCEPT
                 !.pc = "read", !.manifests = {p \in first : seen[t][p] = Nothing},
                 !.sender = poll[t].sender])
    /\ UNCHANGED <<clock, keys, woken, send, seen, disposed, faults, delivered>>

\* The mailbox is full, for those who want to read it, too.
RelistFull(t) ==
    /\ Swept(t)
    /\ Listed > MaxKeys
    /\ PollEnds(t, "failed")
    /\ UNCHANGED <<clock, keys, woken, seen, disposed, faults, delivered>>

\* One manifest after the other.  One that is gone is not looked for again.
ReadManifest(t) ==
    /\ poll[t].pc = "read"
    /\ \E p \in poll[t].manifests :
          IF seen[t][p] = Nothing /\ Manifest(p) \in keys
          THEN /\ GoesOn(t, [poll[t] EXCEPT !.pc = "chunks", !.packet = p, !.part = 0,
                                            !.manifests = @ \ {p}])
               /\ UNCHANGED seen
          ELSE /\ GoesOn(t, [poll[t] EXCEPT !.manifests = @ \ {p}])
               /\ seen' = IF seen[t][p] = Nothing THEN [seen EXCEPT ![t][p] = clock] ELSE seen
    /\ UNCHANGED <<clock, keys, woken, send, disposed, faults, delivered>>

\* A chunk that another tab has removed meanwhile makes the packet unreadable.
ReadChunk(t) ==
    /\ poll[t].pc = "chunks" /\ poll[t].part < Chunks[poll[t].packet]
    /\ IF <<poll[t].packet, poll[t].part>> \in keys
       THEN GoesOn(t, [poll[t] EXCEPT !.part = @ + 1])
       ELSE GoesOn(t, [poll[t] EXCEPT !.pc = "read", !.packet = Nothing, !.part = 0])
    /\ UNCHANGED <<clock, keys, woken, send, seen, disposed, faults, delivered>>

\* onPacket, which does nothing when its owner was disposed meanwhile.
OnPacket(t) ==
    /\ poll[t].pc = "chunks" /\ poll[t].part = Chunks[poll[t].packet]
    /\ GoesOn(t, [poll[t] EXCEPT !.pc = "read", !.packet = Nothing, !.part = 0])
    /\ seen' = [seen EXCEPT ![t][poll[t].packet] = clock]
    /\ delivered' = [delivered EXCEPT ![t][poll[t].packet] =
                        IF disposed[t] THEN @ ELSE @ + 1]
    /\ UNCHANGED <<clock, keys, woken, send, disposed, faults>>

AllRead(t) ==
    /\ poll[t].pc = "read" /\ poll[t].manifests = {}
    /\ PollEnds(t, "check")
    /\ UNCHANGED <<clock, keys, woken, seen, disposed, faults, delivered>>

\* A call of the storage rejects.
PollFails(t) ==
    /\ poll[t].pc # "idle" /\ faults < MaxFaults /\ faults' = faults + 1
    /\ PollEnds(t, "failed")
    /\ UNCHANGED <<clock, keys, woken, seen, disposed, delivered>>

-----------------------------------------------------------------------------
(* send *)

\* It polls first, unless a poll is under way.
Send(p) ==
    LET t == From[p] IN
    /\ send[p].pc = "unused" /\ ~disposed[t]
    /\ IF poll[t].pc = "idle"
       THEN List(t, p) /\ send' = [send EXCEPT ![p].pc = "polling"]
       ELSE send' = [send EXCEPT ![p].pc = "check"] /\ UNCHANGED <<poll, seen>>
    /\ UNCHANGED <<clock, keys, woken, disposed, faults, delivered>>

HasRoom(p) ==
    /\ Listed < MaxKeys /\ Cardinality(Manifests) < MaxMessages
    /\ Stored + Chunks[p] <= MaxStored

\* The identifier is made: its time is the packet's age.
Admit(p) ==
    /\ send[p].pc = "check" /\ HasRoom(p)
    /\ send' = [send EXCEPT ![p].pc = "write", ![p].born = clock]
    /\ UNCHANGED <<clock, keys, woken, seen, poll, disposed, faults, delivered>>

Refuse(p) ==
    /\ send[p].pc = "check" /\ ~HasRoom(p)
    /\ send' = [send EXCEPT ![p].pc = "failed"]
    /\ UNCHANGED <<clock, keys, woken, seen, poll, disposed, faults, delivered>>

\* The chunks, one after the other, and the manifest.
Write(p) ==
    /\ send[p].pc = "write"
    /\ keys' = keys \cup {<<p, send[p].part>>}
    /\ send' = IF send[p].part = Chunks[p] THEN [send EXCEPT ![p].pc = "written"]
               ELSE [send EXCEPT ![p].part = @ + 1]
    /\ UNCHANGED <<clock, woken, seen, poll, disposed, faults, delivered>>

\* The sender need not read it, and wakes the others.
WakeOthers(p) ==
    /\ send[p].pc = "written"
    /\ seen' = [seen EXCEPT ![From[p]][p] = clock]
    /\ woken' = TRUE
    /\ send' = [send EXCEPT ![p].pc = "sent"]
    /\ UNCHANGED <<clock, keys, poll, disposed, faults, delivered>>

\* A call of the storage rejects, or the tab is closed.  When it is the wake,
\* the packet is there for the others, and the sender remembers it.
SendFails(p) ==
    /\ send[p].pc \in {"check", "write", "written"}
    /\ faults < MaxFaults /\ faults' = faults + 1
    /\ send' = [send EXCEPT ![p].pc = "failed"]
    /\ \/ UNCHANGED <<woken, seen>>
       \/ /\ send[p].pc = "written"
          /\ seen' = [seen EXCEPT ![From[p]][p] = clock]
          /\ woken' \in {woken, TRUE}
    /\ UNCHANGED <<clock, keys, poll, disposed, delivered>>

\* A poll and sends that are under way go on.
DisposeMailbox(t) ==
    /\ ~disposed[t]
    /\ disposed' = [disposed EXCEPT ![t] = TRUE]
    /\ seen' = [seen EXCEPT ![t] = [p \in Packets |-> Nothing]]
    /\ UNCHANGED <<clock, keys, woken, send, poll, faults, delivered>>

-----------------------------------------------------------------------------

PollStep(t) ==
    Poll(t) \/ SweepKey(t) \/ Relist(t) \/ RelistFull(t) \/ ReadManifest(t)
    \/ ReadChunk(t) \/ OnPacket(t) \/ AllRead(t)
SendStep(p) == Admit(p) \/ Refuse(p) \/ Write(p) \/ WakeOthers(p)

MailboxNext ==
    \/ \E t \in Tabs : PollStep(t) \/ PollFails(t) \/ DisposeMailbox(t)
    \/ \E p \in Packets : Send(p) \/ SendStep(p) \/ SendFails(p)
    \/ Tick

\* The polling timer fires and the storage answers.
MailboxSpec ==
    /\ MailboxInit /\ [][MailboxNext]_mailboxVars
    /\ \A t \in Tabs : WF_mailboxVars(PollStep(t))
    /\ \A p \in Packets : WF_mailboxVars(SendStep(p))

-----------------------------------------------------------------------------
(* Properties. *)

Sends == [pc : {"unused", "polling", "check", "write", "written", "sent", "failed"},
          born : Nat, part : Nat]
Scans == [pc : {"idle", "sweep", "read", "chunks"},
          names : SUBSET (Packets \X Nat), since : Nat, manifests : SUBSET Packets,
          packet : Packets \cup {Nothing}, part : Nat, sender : Packets \cup {Nothing}]

MailboxTypeOK ==
    /\ clock \in Nat /\ faults \in Nat
    /\ keys \subseteq Packets \X Nat /\ woken \in BOOLEAN
    /\ send \in [Packets -> Sends]
    /\ seen \in [Tabs -> [Packets -> Nat \cup {Nothing}]]
    /\ poll \in [Tabs -> Scans]
    /\ \A t \in Tabs : poll[t].pc = "chunks" => poll[t].packet \in Packets
    /\ disposed \in [Tabs -> BOOLEAN]
    /\ delivered \in [Tabs -> [Packets -> Nat]]

\* No tab has a packet twice, though it forgets packets by their age and any
\* tab may remove them meanwhile (test: "ignores duplicate wake/poll delivery").
DeliveredAtMostOnce ==
    \A t \in Tabs, p \in Packets : delivered[t][p] <= 1

\* What send accepted reaches every tab that polls while it is young, except
\* when the storage lists more keys than a scan accepts: the parts of all
\* packets, and the wake's own key.
DeliveredUnlessFull ==
    \A t \in Tabs, p \in Packets :
        send[p].pc = "sent" /\ From[p] # t
            ~> \/ delivered[t][p] = 1 \/ disposed[t] \/ Expired(p)
               \/ Listed > MaxKeys

\* The same without the exception ("Reliable unique-key mailbox", gm-mailbox.ts).
\* The code breaks it when the mailbox is too full to be read; no run checks it.
AcceptedIsDelivered ==
    \A t \in Tabs, p \in Packets :
        send[p].pc = "sent" /\ From[p] # t
            ~> delivered[t][p] = 1 \/ disposed[t] \/ Expired(p)

\* What a tab left behind is removed by whoever polls, also chunks without a
\* manifest and packets that nobody read ("retention sweep", README.md).
ExpiredIsSwept ==
    \A p \in Packets :
        send[p].pc \in {"sent", "failed"} /\ Expired(p)
            ~> (\A k \in keys : k[1] # p) \/ \A t \in Tabs : disposed[t]

\* "Retained mailbox packets" are limited (README.md): senders that check the
\* limit at the same time exceed it together; no run checks it.
StoredIsLimited == Stored <= MaxStored
=============================================================================
