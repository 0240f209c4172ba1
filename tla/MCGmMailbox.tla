---------------------------- MODULE MCGmMailbox -----------------------------
(* Instances of GmMailbox for TLC: a packet, and one left behind or sent   *)
(* by the other tab.                                                       *)
EXTENDS GmMailbox, TLC

CONSTANTS p1, p2, t1, t2

NoPackets == {}
Second == {p2}
TwoTabs == {t1, t2}
TwoPackets == {p1, p2}
SmallAndLarge == p1 :> 1 @@ p2 :> 2
Small == p1 :> 1 @@ p2 :> 1
OneSender == p1 :> t1 @@ p2 :> t1
TwoSenders == p1 :> t1 @@ p2 :> t2
=============================================================================
