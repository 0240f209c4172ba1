---------------------------- MODULE MCBrowserRpc ----------------------------
(* Instances of BrowserRpc for TLC. *)
EXTENDS BrowserRpc, TLC

CONSTANTS t1, t2, c1, c2, c3

OneTab == {t1}
TwoTabs == {t1, t2}
TwoCalls == {c1, c2}
ThreeCalls == {c1, c2, c3}

CallSymmetry == Permutations(TwoCalls)
Symmetry == Permutations(ThreeCalls) \cup Permutations(TwoTabs)

\* The bound of the run with two tabs: one call and a few signed frames of two
\* tabs, two calls to one tab, or three calls to a tab that announces itself once.
SignedFrames == [calls \in 0 .. 3 |-> IF calls <= 1 THEN 3 ELSE IF calls = 2 THEN 2 ELSE 1]
Scope ==
    LET used == Cardinality({c \in Calls : call[c].state # "unused"}) IN
    /\ Cardinality({f \in net : "counter" \in DOMAIN f}) <= SignedFrames[used]
    /\ (\A e \in Endpoints : \E f \in net : f.endpoint = e) => used <= 1
=============================================================================
