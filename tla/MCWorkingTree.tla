--------------------------- MODULE MCWorkingTree ---------------------------
(* Instances of WorkingTree for TLC: two directories' worth of paths. *)
EXTENDS WorkingTree, TLC

CONSTANTS c1, c2

pA == <<"a">>
pB == <<"b">>
pAX == <<"a", "x">>
pAY == <<"a", "y">>
pBX == <<"b", "x">>
pBY == <<"b", "y">>

TwoDirectories == {pA, pB, pAX, pAY, pBX, pBY}
TwoContents == {c1, c2}
ThreeTrees == {pAX :> c1 @@ pAY :> c1, pAX :> c1 @@ pB :> c1, pA :> c1 @@ pB :> c2}

\* Deeper than a run goes (see the README).
Deep == {pA, <<"a", "d">>, <<"a", "d", "f">>, <<"a", "d", "d">>, <<"a", "d", "d", "f">>}
DeepTree == {<<"a", "d", "f">> :> c1 @@ <<"a", "d", "d", "f">> :> c1}
=============================================================================
