-------------------------- MODULE MCRevisionReads ---------------------------
(* An instance of RevisionReads for TLC: a revision that fits the limits   *)
(* of a walk exactly, and one that is too deep.                            *)
EXTENDS RevisionReads, TLC

CONSTANTS c1, c2, r1, r2

root == Root
dir == <<"d">>
sub == <<"d", "s">>
f1 == <<"f">>
f2 == <<"d", "f">>

TwoCallers == {c1, c2}
TwoRevisions == {r1, r2}
TwoFiles == {f1, f2}
Dirs == {root, dir, sub}
Trees == r1 :> (root :> <<dir, f1>> @@ dir :> <<f2>>) @@
         r2 :> (root :> <<f1, dir>> @@ dir :> <<sub>> @@ sub :> <<>>)
Weights == [k \in TwoRevisions \X (TwoFiles \cup Dirs) |->
              CASE k[2] = f1 -> 2 [] k[2] = f2 -> 4 [] OTHER -> 1]
\* Links: a file of one revision, a directory of the other.
Links == {<<r1, f2>>, <<r2, sub>>}
=============================================================================
