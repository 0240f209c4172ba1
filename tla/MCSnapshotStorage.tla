------------------------- MODULE MCSnapshotStorage -------------------------
(* Instances of SnapshotStorage for TLC: three snapshots that share blobs. *)
EXTENDS SnapshotStorage, TLC

CONSTANTS w1, w2, s1, s2, s3, b1, b2, b3

OneWindow == {w1}
TwoWindows == {w1, w2}
ThreeSnapshots == {s1, s2, s3}
ThreeBlobs == {b1, b2, b3}

\* An edit is added to s1 to make s2, and replaced in s3.
SharedContent == s1 :> {b1} @@ s2 :> {b1, b2} @@ s3 :> {b1, b3}
=============================================================================
