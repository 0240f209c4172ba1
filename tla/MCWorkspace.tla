---------------------------- MODULE MCWorkspace ----------------------------
(* Instances of Workspace for TLC: which calls each run offers. *)
EXTENDS Workspace, TLC

CONSTANTS main, topic, e1, e2

EditSymmetry == Permutations({e1, e2})

OneBranch == {main}
TwoBranches == {main, topic}
OneEdit == {e1}
TwoEdits == {e1, e2}

\* Everything that publishes, and everything that settles a publication.
PublicationCalls ==
    {"writeFile", "revert", "commitAndPush", "amendAndPushForceWithLease",
     "commitAndPushForceWithLease", "resolvePendingCommitPublication", "persist"}

\* Branch traffic, with writes and commits that may land on either branch.
BranchCalls ==
    {"writeFile", "switchBranch", "refreshRemoteHead", "createBranch",
     "deleteBranch", "commitAndPush"}
AllCalls == CallNames
=============================================================================
