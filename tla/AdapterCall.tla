---------------------------- MODULE AdapterCall ----------------------------
(***************************************************************************)
(* What RemotishWorkspace relies on when it calls an adapter to commit, to *)
(* create or to delete a branch (docs/adapter-contract.md): success means  *)
(* that the remote has the change, a rejection that it does not have it    *)
(* and never will, and an exception says nothing: the change may be there, *)
(* may come later, or never.                                               *)
(***************************************************************************)

VARIABLES
    outcome, \* "none" until the call settles
    applied  \* the remote has made the change

vars == <<outcome, applied>>

Outcomes == {"none", "success", "rejected", "thrown"}

Init == outcome = "none" /\ applied = FALSE

Apply ==
    /\ ~applied /\ outcome \in {"none", "thrown"}
    /\ applied' = TRUE /\ UNCHANGED outcome

Answer ==
    /\ outcome = "none"
    /\ outcome' \in Outcomes \ {"none"}
    /\ outcome' = "success" => applied
    /\ outcome' = "rejected" => ~applied
    /\ UNCHANGED applied

Next == Apply \/ Answer

Spec == Init /\ [][Next]_vars
=============================================================================
