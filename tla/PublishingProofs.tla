-------------------------- MODULE PublishingProofs --------------------------
(***************************************************************************)
(* Theorems of the two halves of a publication.                            *)
(*                                                                         *)
(* Publishing: every adapter implements AdapterCall and keeps the lease,   *)
(* whatever other clients push.                                            *)
(*                                                                         *)
(* WorkingTree: where base and overlay agree, what is published is what is *)
(* shown and listed, and stays shown; for paths of at most two names, what *)
(* is reverted or clean is as in the base.                                 *)
(***************************************************************************)
EXTENDS Publishing, WorkingTree, SequenceTheorems, WellFoundedInduction, TLAPS

\* Where the request may be while the call stands somewhere, and what a settled
\* call says about it.  Without the second conjunct an early refusal could be
\* followed by a publication, without the third by a second answer; the fourth
\* is the endpoint's answer on its way; the last but one is why only a commit
\* infers its outcome.
CallInv ==
    /\ TypeOK
    /\ request.fate # "none" => call.pc \in {"sent", "lookup", "reply", "done"}
    /\ outcome # "none" =>
           call.pc = "done" \/ (adapter \in {"cloud", "datacenter"} /\ outcome = "thrown")
    /\ call.pc = "reply" =>
           /\ adapter \in {"cloud", "datacenter"} /\ call.answer # "none"
           /\ call.answer = "success" => request.fate = "applied"
           /\ call.answer = "rejected" => request.fate \in {"none", "stale"}
    /\ outcome = "success" => request.fate = "applied"
    /\ outcome = "rejected" /\ ~call.guessed =>
           request.fate \in {"none", "stale", "denied"}
    /\ call.guessed => call.pc = "done"

-----------------------------------------------------------------------------
(* The invariant is inductive. *)

LEMMA CallInit == Init => CallInv
  <1> SUFFICES ASSUME Init
               PROVE  CallInv
    OBVIOUS
  <1>1. /\ request.fate = "none" /\ outcome = "none" /\ ~call.guessed
        /\ call.pc = "idle"
    BY DEF Init
  <1>2. TypeOK
    BY DEF Init, TypeOK, Heads, Steps, Fates, Ops, Commits, Outcomes
  <1> QED
    BY <1>1, <1>2 DEF CallInv

LEMMA CallBegins ==
    ASSUME CallInv, NEW op \in Ops, NEW lease \in Heads \cup {"any"},
           Call(op, lease)
    PROVE  CallInv'
  <1>1. /\ request.fate = "none" /\ ~call.guessed
        /\ outcome # "none" => outcome = "thrown"
    BY DEF Call, CallInv, TypeOK, Fates, Steps
  <1>2. /\ call'.op \in Ops /\ call'.lease \in Heads \cup {"any"}
        /\ call' = [op |-> call'.op, lease |-> call'.lease, pc |-> "start",
                    seen |-> call.seen, answer |-> call.answer,
                    guessed |-> call.guessed]
    BY DEF Call, CallInv, TypeOK
  <1>3. TypeOK'
    BY <1>2 DEF Call, Remote, CallInv, TypeOK, Steps
  <1> QED
    BY <1>1, <1>2, <1>3 DEF Call, Remote, CallInv

LEMMA GitHubStep ==
    ASSUME CallInv, GitHub
    PROVE  CallInv'
  <1>a. CallInv
    OBVIOUS
  <1>g. adapter = "github"
    BY DEF GitHub
  <1>1. CASE GitHubNotAuthenticated
    BY <1>1, <1>a, <1>g
       DEF GitHubNotAuthenticated, Settle, Refusal, Remote, CallInv, TypeOK,
           Heads, Steps, Fates, Ops, Outcomes, Commits
  <1>2. CASE GitHubObjects
    BY <1>2, <1>a, <1>g
       DEF GitHubObjects, Goto, Remote, CallInv, TypeOK, Heads, Steps, Fates,
           Ops, Outcomes, Commits
  <1>3. CASE GitHubRequestFails
    BY <1>3, <1>a, <1>g
       DEF GitHubRequestFails, Settle, Remote, CallInv, TypeOK, Heads, Steps,
           Fates, Ops, Outcomes, Commits
  <1>4. CASE GitHubUpdateRefs
    BY <1>4, <1>a, <1>g
       DEF GitHubUpdateRefs, Send, CallInv, TypeOK, Heads, Steps, Fates, Ops,
           Outcomes, Commits
  <1>5. CASE GitHubRepositoryFails
    BY <1>5, <1>a, <1>g
       DEF GitHubRepositoryFails, Goto, Remote, CallInv, TypeOK, Heads, Steps,
           Fates, Ops, Outcomes, Commits
  <1>6. CASE GitHubCreateRef
    BY <1>6, <1>a, <1>g
       DEF GitHubCreateRef, Send, CallInv, TypeOK, Heads, Steps, Fates, Ops,
           Outcomes, Commits
  <1>7. CASE GitHubDeleteRef
    BY <1>7, <1>a, <1>g
       DEF GitHubDeleteRef, Send, CallInv, TypeOK, Heads, Steps, Fates, Ops,
           Outcomes, Commits
  <1>8. CASE GitHubAnswers
    BY <1>8, <1>a, <1>g
       DEF GitHubAnswers, Settle, Remote, CallInv, TypeOK, Heads, Steps, Fates,
           Ops, Outcomes, Commits
  <1>9. CASE GitHubAnswerFails
    BY <1>9, <1>a, <1>g
       DEF GitHubAnswerFails, Goto, Settle, Remote, CallInv, TypeOK, Heads,
           Steps, Fates, Ops, Outcomes, Commits
  <1>10. CASE GitHubBranchHead
    <2>1. call.pc = "lookup" /\ outcome = "none" /\ TypeOK
      BY <1>10, <1>a, <1>g DEF GitHubBranchHead, CallInv
    <2>2. UNCHANGED Remote
      BY <1>10 DEF GitHubBranchHead, Settle
    <2>3. \/ /\ outcome' = "rejected"
             /\ call' = [call EXCEPT !.pc = "done", !.guessed = TRUE]
          \/ /\ outcome' = "thrown"
             /\ call' = [call EXCEPT !.pc = "done"]
      BY <1>10, <2>1 DEF GitHubBranchHead, Settle
    <2>4. /\ call'.pc = "done"
          /\ outcome' = "thrown" \/ (outcome' = "rejected" /\ call'.guessed)
      BY <2>1, <2>3 DEF TypeOK
    <2>5. call' \in [op : Ops, lease : Heads \cup {"any"}, pc : Steps,
                    seen : Heads, answer : Outcomes, guessed : BOOLEAN]
      BY <2>1, <2>3 DEF TypeOK, Steps
    <2>6. TypeOK'
      BY <2>1, <2>2, <2>4, <2>5 DEF Remote, TypeOK, Outcomes
    <2> QED
      BY <1>a, <2>2, <2>4, <2>6 DEF Remote, CallInv
  <1>11. CASE GitHubBranchHeadFails
    BY <1>11, <1>a, <1>g
       DEF GitHubBranchHeadFails, Settle, Remote, CallInv, TypeOK, Heads,
           Steps, Fates, Ops, Outcomes, Commits
  <1> QED
    BY <1>1, <1>2, <1>3, <1>4, <1>5, <1>6, <1>7, <1>8, <1>9, <1>10, <1>11 DEF
       GitHub

LEMMA GitStep ==
    ASSUME CallInv, Git
    PROVE  CallInv'
  <1>a. CallInv
    OBVIOUS
  <1>g. adapter = "git"
    BY DEF Git
  <1>1. CASE GitReady
    BY <1>1, <1>a, <1>g
       DEF GitReady, Goto, Remote, CallInv, TypeOK, Heads, Steps, Fates, Ops,
           Outcomes, Commits
  <1>2. CASE GitNotReady
    BY <1>2, <1>a, <1>g
       DEF GitNotReady, Settle, Refusal, Remote, CallInv, TypeOK, Heads, Steps,
           Fates, Ops, Outcomes, Commits
  <1>3. CASE GitBuild
    BY <1>3, <1>a, <1>g
       DEF GitBuild, Goto, Remote, CallInv, TypeOK, Heads, Steps, Fates, Ops,
           Outcomes, Commits
  <1>4. CASE GitKnowsCommit
    BY <1>4, <1>a, <1>g
       DEF GitKnowsCommit, Goto, Remote, CallInv, TypeOK, Heads, Steps, Fates,
           Ops, Outcomes, Commits
  <1>5. CASE GitFindBranch
    BY <1>5, <1>a, <1>g
       DEF GitFindBranch, Remote, CallInv, TypeOK, Heads, Steps, Fates, Ops,
           Outcomes, Commits
  <1>6. CASE GitObjectsFail
    BY <1>6, <1>a, <1>g
       DEF GitObjectsFail, Settle, Refusal, Remote, CallInv, TypeOK, Heads,
           Steps, Fates, Ops, Outcomes, Commits
  <1>7. CASE GitDiscover
    <2>1. CASE head = call.lease
      <3>1. /\ call.pc = "discover" /\ UNCHANGED <<outcome, Remote>>
            /\ call' = [call EXCEPT !.seen = head, !.pc = "publish"]
        BY <1>7, <2>1 DEF GitDiscover
      <3>2. request.fate = "none" /\ outcome = "none" /\ ~call.guessed /\ TypeOK
        BY <1>a, <1>g, <3>1 DEF CallInv
      <3>3. call'.pc = "publish" /\ call'.guessed = call.guessed
        BY <3>1, <3>2 DEF TypeOK
      <3>4. TypeOK'
        BY <3>1, <3>2 DEF TypeOK, Remote, Steps
      <3> QED
        BY <3>1, <3>2, <3>3, <3>4 DEF CallInv, Remote
    <2>2. CASE head # call.lease
      <3>1. Settle(Refusal) /\ call.pc = "discover"
        BY <1>7, <2>2 DEF GitDiscover
      <3>2. Refusal \in {"rejected", "thrown"}
        BY DEF Refusal
      <3>3. request.fate = "none" /\ outcome = "none" /\ ~call.guessed /\ TypeOK
        BY <1>a, <1>g, <3>1 DEF CallInv
      <3>4. /\ outcome' \in {"rejected", "thrown"} /\ UNCHANGED <<request, head, adapter, aborted>>
            /\ call' = [call EXCEPT !.pc = "done"]
        BY <3>1, <3>2, <3>3 DEF Settle, Remote
      <3>5. call'.pc = "done" /\ call'.guessed = call.guessed
        BY <3>3, <3>4 DEF TypeOK
      <3>6. TypeOK'
        BY <3>3, <3>4 DEF TypeOK, Outcomes, Steps
      <3> QED
        BY <3>3, <3>4, <3>5, <3>6 DEF CallInv
    <2> QED
      BY <2>1, <2>2
  <1>8. CASE GitNotDispatched
    BY <1>8, <1>a, <1>g
       DEF GitNotDispatched, Settle, Refusal, Remote, CallInv, TypeOK, Heads,
           Steps, Fates, Ops, Outcomes, Commits
  <1>9. CASE GitReceivePack
    BY <1>9, <1>a, <1>g
       DEF GitReceivePack, Send, CallInv, TypeOK, Heads, Steps, Fates, Ops,
           Outcomes, Commits
  <1>10. CASE GitPushed
    BY <1>10, <1>a, <1>g
       DEF GitPushed, Settle, Remote, CallInv, TypeOK, Heads, Steps, Fates,
           Ops, Outcomes, Commits
  <1>11. CASE GitRefRejected
    BY <1>11, <1>a, <1>g
       DEF GitRefRejected, Settle, Refusal, Remote, CallInv, TypeOK, Heads,
           Steps, Fates, Ops, Outcomes, Commits
  <1>12. CASE GitAnswerFails
    BY <1>12, <1>a, <1>g
       DEF GitAnswerFails, Settle, Remote, CallInv, TypeOK, Heads, Steps,
           Fates, Ops, Outcomes, Commits
  <1> QED
    BY <1>1, <1>2, <1>3, <1>4, <1>5, <1>6, <1>7, <1>8, <1>9, <1>10, <1>11,
       <1>12 DEF Git

LEMMA HttpStep ==
    ASSUME CallInv, Http
    PROVE  CallInv'
  <1>a. CallInv
    OBVIOUS
  <1>g. adapter = "http"
    BY DEF Http
  <1>1. CASE HttpHeaders
    BY <1>1, <1>a, <1>g
       DEF HttpHeaders, Goto, Remote, CallInv, TypeOK, Heads, Steps, Fates,
           Ops, Outcomes, Commits
  <1>2. CASE HttpNotSent
    BY <1>2, <1>a, <1>g
       DEF HttpNotSent, Settle, Remote, CallInv, TypeOK, Heads, Steps, Fates,
           Ops, Outcomes, Commits
  <1>3. CASE HttpSend
    BY <1>3, <1>a, <1>g
       DEF HttpSend, Send, CallInv, TypeOK, Heads, Steps, Fates, Ops, Outcomes,
           Commits
  <1>4. CASE HttpAnswers
    BY <1>4, <1>a, <1>g
       DEF HttpAnswers, Settle, Remote, CallInv, TypeOK, Heads, Steps, Fates,
           Ops, Outcomes, Commits
  <1>5. CASE HttpRefuses
    BY <1>5, <1>a, <1>g
       DEF HttpRefuses, Settle, Refusal, Remote, CallInv, TypeOK, Heads, Steps,
           Fates, Ops, Outcomes, Commits
  <1>6. CASE HttpAnswerFails
    BY <1>6, <1>a, <1>g
       DEF HttpAnswerFails, Settle, Remote, CallInv, TypeOK, Heads, Steps,
           Fates, Ops, Outcomes, Commits
  <1> QED
    BY <1>1, <1>2, <1>3, <1>4, <1>5, <1>6 DEF Http

LEMMA RpcStep ==
    ASSUME CallInv, Rpc
    PROVE  CallInv'
  <1>a. CallInv
    OBVIOUS
  <1>g. adapter \in {"cloud", "datacenter"}
    BY DEF Rpc
  <1>1. CASE RpcUnsupported
    BY <1>1, <1>a, <1>g
       DEF RpcUnsupported, Settle, Remote, CallInv, TypeOK, Steps, Fates,
           Outcomes
  <1>2. CASE RpcHandle
    BY <1>2, <1>a, <1>g
       DEF RpcHandle, Goto, Remote, CallInv, TypeOK, Steps, Fates, Outcomes
  <1>3. CASE RpcGiveUp
    BY <1>3, <1>a, <1>g
       DEF RpcGiveUp, Remote, CallInv, TypeOK, Steps, Fates, Outcomes
  <1>4. CASE RpcAnswers
    BY <1>4, <1>a, <1>g
       DEF RpcAnswers, Settle, Remote, CallInv, TypeOK, Steps, Fates, Outcomes
  <1>5. CASE CloudPreflight
    BY <1>5, <1>a, <1>g
       DEF CloudPreflight, Goto, Remote, CallInv, TypeOK, Steps, Fates,
           Outcomes
  <1>6. CASE CloudInvalid
    BY <1>6, <1>a, <1>g
       DEF CloudInvalid, Answer, Remote, CallInv, TypeOK, Steps, Fates,
           Outcomes
  <1>7. CASE CloudPreflightFails
    BY <1>7, <1>a, <1>g
       DEF CloudPreflightFails, Answer, Remote, CallInv, TypeOK, Steps, Fates,
           Outcomes
  <1>8. CASE CloudPublish
    BY <1>8, <1>a, <1>g
       DEF CloudPublish, Send, CallInv, TypeOK, Steps, Fates, Outcomes
  <1>9. CASE CloudConflict
    BY <1>9, <1>a, <1>g
       DEF CloudConflict, Answer, Remote, CallInv, TypeOK, Steps, Fates,
           Outcomes
  <1>10. CASE CloudPublished
    BY <1>10, <1>a, <1>g
       DEF CloudPublished, Answer, Remote, CallInv, TypeOK, Steps, Fates,
           Outcomes
  <1>11. CASE CloudCreateBranch
    BY <1>11, <1>a, <1>g
       DEF CloudCreateBranch, Send, CallInv, TypeOK, Steps, Fates, Outcomes,
           Heads
  <1>12. CASE CloudDeleteBranch
    BY <1>12, <1>a, <1>g
       DEF CloudDeleteBranch, Send, CallInv, TypeOK, Steps, Fates, Outcomes
  <1>13. CASE DataCenterCreateBranch
    BY <1>13, <1>a, <1>g
       DEF DataCenterCreateBranch, Send, CallInv, TypeOK, Steps, Fates,
           Outcomes, Heads
  <1>14. CASE DataCenterDeleteBranch
    BY <1>14, <1>a, <1>g
       DEF DataCenterDeleteBranch, Send, CallInv, TypeOK, Steps, Fates,
           Outcomes
  <1>15. CASE BranchAnswers
    BY <1>15, <1>a, <1>g
       DEF BranchAnswers, Answer, Remote, CallInv, TypeOK, Steps, Fates,
           Outcomes
  <1>16. CASE CloudRequestFails
    <2>1. /\ call' = [op |-> call.op, lease |-> call.lease, pc |-> "reply",
                      seen |-> call.seen, answer |-> "thrown",
                      guessed |-> call.guessed]
          /\ UNCHANGED <<adapter, outcome, request, head, aborted>>
      BY <1>16, <1>a DEF CloudRequestFails, Answer, Remote, CallInv, TypeOK
    <2>2. TypeOK'
      BY <2>1, <1>a DEF CallInv, TypeOK, Steps, Outcomes
    <2>3. ~call.guessed /\ outcome \in {"none", "thrown"}
      BY <1>16, <1>a DEF CloudRequestFails, CallInv, TypeOK, Outcomes
    <2> QED
      BY <2>1, <2>2, <2>3, <1>a, <1>g DEF CallInv
  <1>17. CASE DataCenterRequestFails
    <2>1. /\ call' = [op |-> call.op, lease |-> call.lease, pc |-> "reply",
                      seen |-> call.seen, answer |-> "thrown",
                      guessed |-> call.guessed]
          /\ UNCHANGED <<adapter, outcome, request, head, aborted>>
      BY <1>17, <1>a DEF DataCenterRequestFails, Answer, Remote, CallInv, TypeOK
    <2>2. TypeOK'
      BY <2>1, <1>a DEF CallInv, TypeOK, Steps, Outcomes
    <2>3. ~call.guessed /\ outcome \in {"none", "thrown"}
      BY <1>17, <1>a DEF DataCenterRequestFails, CallInv, TypeOK, Outcomes
    <2> QED
      BY <2>1, <2>2, <2>3, <1>a, <1>g DEF CallInv
  <1> QED
    BY <1>1, <1>2, <1>3, <1>4, <1>5, <1>6, <1>7, <1>8, <1>9, <1>10, <1>11,
       <1>12, <1>13, <1>14, <1>15, <1>16, <1>17 DEF Rpc

LEMMA ServerStep ==
    ASSUME CallInv, (Abort \/ Apply \/ Refuse \/ OthersMove)
    PROVE  CallInv'
  <1>a. CallInv
    OBVIOUS
  <1>1. CASE Abort
    BY <1>1, <1>a
       DEF Abort, CallInv, TypeOK, Heads, Steps, Fates, Ops, Outcomes, Commits
  <1>2. CASE Apply
    BY <1>2, <1>a
       DEF Apply, CallInv, TypeOK, Heads, Steps, Fates, Ops, Outcomes, Commits
  <1>3. CASE Refuse
    BY <1>3, <1>a
       DEF Refuse, CallInv, TypeOK, Heads, Steps, Fates, Ops, Outcomes, Commits
  <1>4. CASE OthersMove
    BY <1>4, <1>a
       DEF OthersMove, CallInv, TypeOK, Heads, Steps, Fates, Ops, Outcomes,
           Commits
  <1> QED
    BY <1>1, <1>2, <1>3, <1>4

LEMMA CallStep == CallInv /\ [Next]_vars => CallInv'
  <1> SUFFICES ASSUME CallInv, [Next]_vars
               PROVE  CallInv'
    OBVIOUS
  <1>1. CASE UNCHANGED vars
    BY <1>1 DEF vars, CallInv, TypeOK
  <1> QED
    BY <1>1, CallBegins, GitHubStep, GitStep, HttpStep, RpcStep, ServerStep
       DEF Next

\* The invariant, and with it the types of the call, the request and the branch.
THEOREM PublishingInvariant == Spec => []CallInv
  BY CallInit, CallStep, PTL DEF Spec

\* The call, the request and the branch keep their types: TypeOK.
THEOREM PublishingTypes == Spec => []TypeOK
  <1>1. CallInv => TypeOK
    BY DEF CallInv
  <1> QED
    BY <1>1, PublishingInvariant, PTL

-----------------------------------------------------------------------------
(* Every step is a step of AdapterCall or leaves what it speaks of alone. *)

Implemented == [Abstract!Next \/ InferredWrongly']_(Abstract!vars)

LEMMA CallImplements ==
    ASSUME CallInv, NEW op \in Ops, NEW lease \in Heads \cup {"any"},
           Call(op, lease)
    PROVE  Implemented
  BY DEF Implemented, Call, Remote, CallInv, TypeOK, Abstract!vars

LEMMA GitHubImplements ==
    ASSUME CallInv, GitHub
    PROVE  Implemented
  <1>a. CallInv
    OBVIOUS
  <1>g. adapter = "github"
    BY DEF GitHub
  <1>1. CASE GitHubNotAuthenticated
    BY <1>1, <1>a, <1>g
       DEF GitHubNotAuthenticated, Settle, Refusal, Remote, Implemented,
           CallInv, TypeOK, Steps, Fates, Outcomes, Commits, Abstract!Next,
           Abstract!vars, Abstract!Apply, Abstract!Answer, Abstract!Outcomes
  <1>2. CASE GitHubObjects
    BY <1>2, <1>a, <1>g
       DEF GitHubObjects, Goto, Remote, Implemented, CallInv, TypeOK, Steps,
           Fates, Outcomes, Commits, Abstract!Next, Abstract!vars,
           Abstract!Apply, Abstract!Answer, Abstract!Outcomes
  <1>3. CASE GitHubRequestFails
    BY <1>3, <1>a, <1>g
       DEF GitHubRequestFails, Settle, Remote, Implemented, CallInv, TypeOK,
           Steps, Fates, Outcomes, Commits, Abstract!Next, Abstract!vars,
           Abstract!Apply, Abstract!Answer, Abstract!Outcomes
  <1>4. CASE GitHubUpdateRefs
    BY <1>4, <1>a, <1>g
       DEF GitHubUpdateRefs, Send, Implemented, CallInv, TypeOK, Steps, Fates,
           Outcomes, Commits, Abstract!Next, Abstract!vars, Abstract!Apply,
           Abstract!Answer, Abstract!Outcomes
  <1>5. CASE GitHubRepositoryFails
    BY <1>5, <1>a, <1>g
       DEF GitHubRepositoryFails, Goto, Remote, Implemented, CallInv, TypeOK,
           Steps, Fates, Outcomes, Commits, Abstract!Next, Abstract!vars,
           Abstract!Apply, Abstract!Answer, Abstract!Outcomes
  <1>6. CASE GitHubCreateRef
    BY <1>6, <1>a, <1>g
       DEF GitHubCreateRef, Send, Implemented, CallInv, TypeOK, Steps, Fates,
           Outcomes, Commits, Abstract!Next, Abstract!vars, Abstract!Apply,
           Abstract!Answer, Abstract!Outcomes
  <1>7. CASE GitHubDeleteRef
    BY <1>7, <1>a, <1>g
       DEF GitHubDeleteRef, Send, Implemented, CallInv, TypeOK, Steps, Fates,
           Outcomes, Commits, Abstract!Next, Abstract!vars, Abstract!Apply,
           Abstract!Answer, Abstract!Outcomes
  <1>8. CASE GitHubAnswers
    BY <1>8, <1>a, <1>g
       DEF GitHubAnswers, Settle, Remote, Implemented, CallInv, TypeOK, Steps,
           Fates, Outcomes, Commits, Abstract!Next, Abstract!vars,
           Abstract!Apply, Abstract!Answer, Abstract!Outcomes
  <1>9. CASE GitHubAnswerFails
    BY <1>9, <1>a, <1>g
       DEF GitHubAnswerFails, Goto, Settle, Remote, Implemented, CallInv,
           TypeOK, Steps, Fates, Outcomes, Commits, Abstract!Next,
           Abstract!vars, Abstract!Apply, Abstract!Answer, Abstract!Outcomes
  <1>10. CASE GitHubBranchHead
    <2>1. /\ call.pc = "lookup" /\ outcome = "none" /\ UNCHANGED request
          /\ request.fate \in Fates
      BY <1>10, <1>a, <1>g DEF GitHubBranchHead, Settle, Remote, CallInv, TypeOK
    <2>2. CASE outcome' = "thrown"
      BY <2>1, <2>2
         DEF Implemented, Abstract!Next, Abstract!vars, Abstract!Answer, Abstract!Outcomes
    <2>3. CASE outcome' = "rejected" /\ call'.guessed
      <3>1. CASE request.fate \in {"sent", "applied"}
        BY <2>1, <2>3, <3>1 DEF Implemented, InferredWrongly
      <3>2. CASE request.fate # "applied"
        BY <2>1, <2>3, <3>2
           DEF Implemented, Abstract!Next, Abstract!vars, Abstract!Answer, Abstract!Outcomes
      <3> QED
        BY <3>1, <3>2
    <2> QED
      BY <1>10, <1>a, <2>1, <2>2, <2>3 DEF GitHubBranchHead, Settle, CallInv, TypeOK
  <1>11. CASE GitHubBranchHeadFails
    BY <1>11, <1>a, <1>g
       DEF GitHubBranchHeadFails, Settle, Remote, Implemented, CallInv, TypeOK,
           Steps, Fates, Outcomes, Commits, Abstract!Next, Abstract!vars,
           Abstract!Apply, Abstract!Answer, Abstract!Outcomes
  <1> QED
    BY <1>1, <1>2, <1>3, <1>4, <1>5, <1>6, <1>7, <1>8, <1>9, <1>10, <1>11 DEF
       GitHub

LEMMA GitImplements ==
    ASSUME CallInv, Git
    PROVE  Implemented
  <1>a. CallInv
    OBVIOUS
  <1>g. adapter = "git"
    BY DEF Git
  <1>1. CASE GitReady
    BY <1>1, <1>a, <1>g
       DEF GitReady, Goto, Remote, Implemented, CallInv, TypeOK, Steps, Fates,
           Outcomes, Commits, Abstract!Next, Abstract!vars, Abstract!Apply,
           Abstract!Answer, Abstract!Outcomes
  <1>2. CASE GitNotReady
    BY <1>2, <1>a, <1>g
       DEF GitNotReady, Settle, Refusal, Remote, Implemented, CallInv, TypeOK,
           Steps, Fates, Outcomes, Commits, Abstract!Next, Abstract!vars,
           Abstract!Apply, Abstract!Answer, Abstract!Outcomes
  <1>3. CASE GitBuild
    BY <1>3, <1>a, <1>g
       DEF GitBuild, Goto, Remote, Implemented, CallInv, TypeOK, Steps, Fates,
           Outcomes, Commits, Abstract!Next, Abstract!vars, Abstract!Apply,
           Abstract!Answer, Abstract!Outcomes
  <1>4. CASE GitKnowsCommit
    BY <1>4, <1>a, <1>g
       DEF GitKnowsCommit, Goto, Remote, Implemented, CallInv, TypeOK, Steps,
           Fates, Outcomes, Commits, Abstract!Next, Abstract!vars,
           Abstract!Apply, Abstract!Answer, Abstract!Outcomes
  <1>5. CASE GitFindBranch
    BY <1>5, <1>a, <1>g
       DEF GitFindBranch, Remote, Implemented, CallInv, TypeOK, Steps, Fates,
           Outcomes, Commits, Abstract!Next, Abstract!vars, Abstract!Apply,
           Abstract!Answer, Abstract!Outcomes
  <1>6. CASE GitObjectsFail
    BY <1>6, <1>a, <1>g
       DEF GitObjectsFail, Settle, Refusal, Remote, Implemented, CallInv,
           TypeOK, Steps, Fates, Outcomes, Commits, Abstract!Next,
           Abstract!vars, Abstract!Apply, Abstract!Answer, Abstract!Outcomes
  <1>7. CASE GitDiscover
    BY <1>7, <1>a, <1>g
       DEF GitDiscover, Settle, Refusal, Remote, Implemented, CallInv, TypeOK,
           Steps, Fates, Outcomes, Commits, Abstract!Next, Abstract!vars,
           Abstract!Apply, Abstract!Answer, Abstract!Outcomes
  <1>8. CASE GitNotDispatched
    BY <1>8, <1>a, <1>g
       DEF GitNotDispatched, Settle, Refusal, Remote, Implemented, CallInv,
           TypeOK, Steps, Fates, Outcomes, Commits, Abstract!Next,
           Abstract!vars, Abstract!Apply, Abstract!Answer, Abstract!Outcomes
  <1>9. CASE GitReceivePack
    BY <1>9, <1>a, <1>g
       DEF GitReceivePack, Send, Implemented, CallInv, TypeOK, Steps, Fates,
           Outcomes, Commits, Abstract!Next, Abstract!vars, Abstract!Apply,
           Abstract!Answer, Abstract!Outcomes
  <1>10. CASE GitPushed
    BY <1>10, <1>a, <1>g
       DEF GitPushed, Settle, Remote, Implemented, CallInv, TypeOK, Steps,
           Fates, Outcomes, Commits, Abstract!Next, Abstract!vars,
           Abstract!Apply, Abstract!Answer, Abstract!Outcomes
  <1>11. CASE GitRefRejected
    BY <1>11, <1>a, <1>g
       DEF GitRefRejected, Settle, Refusal, Remote, Implemented, CallInv,
           TypeOK, Steps, Fates, Outcomes, Commits, Abstract!Next,
           Abstract!vars, Abstract!Apply, Abstract!Answer, Abstract!Outcomes
  <1>12. CASE GitAnswerFails
    BY <1>12, <1>a, <1>g
       DEF GitAnswerFails, Settle, Remote, Implemented, CallInv, TypeOK, Steps,
           Fates, Outcomes, Commits, Abstract!Next, Abstract!vars,
           Abstract!Apply, Abstract!Answer, Abstract!Outcomes
  <1> QED
    BY <1>1, <1>2, <1>3, <1>4, <1>5, <1>6, <1>7, <1>8, <1>9, <1>10, <1>11,
       <1>12 DEF Git

LEMMA HttpImplements ==
    ASSUME CallInv, Http
    PROVE  Implemented
  <1>a. CallInv
    OBVIOUS
  <1>g. adapter = "http"
    BY DEF Http
  <1>1. CASE HttpHeaders
    BY <1>1, <1>a, <1>g
       DEF HttpHeaders, Goto, Remote, Implemented, CallInv, TypeOK, Steps,
           Fates, Outcomes, Commits, Abstract!Next, Abstract!vars,
           Abstract!Apply, Abstract!Answer, Abstract!Outcomes
  <1>2. CASE HttpNotSent
    BY <1>2, <1>a, <1>g
       DEF HttpNotSent, Settle, Remote, Implemented, CallInv, TypeOK, Steps,
           Fates, Outcomes, Commits, Abstract!Next, Abstract!vars,
           Abstract!Apply, Abstract!Answer, Abstract!Outcomes
  <1>3. CASE HttpSend
    BY <1>3, <1>a, <1>g
       DEF HttpSend, Send, Implemented, CallInv, TypeOK, Steps, Fates,
           Outcomes, Commits, Abstract!Next, Abstract!vars, Abstract!Apply,
           Abstract!Answer, Abstract!Outcomes
  <1>4. CASE HttpAnswers
    BY <1>4, <1>a, <1>g
       DEF HttpAnswers, Settle, Remote, Implemented, CallInv, TypeOK, Steps,
           Fates, Outcomes, Commits, Abstract!Next, Abstract!vars,
           Abstract!Apply, Abstract!Answer, Abstract!Outcomes
  <1>5. CASE HttpRefuses
    BY <1>5, <1>a, <1>g
       DEF HttpRefuses, Settle, Refusal, Remote, Implemented, CallInv, TypeOK,
           Steps, Fates, Outcomes, Commits, Abstract!Next, Abstract!vars,
           Abstract!Apply, Abstract!Answer, Abstract!Outcomes
  <1>6. CASE HttpAnswerFails
    BY <1>6, <1>a, <1>g
       DEF HttpAnswerFails, Settle, Remote, Implemented, CallInv, TypeOK,
           Steps, Fates, Outcomes, Commits, Abstract!Next, Abstract!vars,
           Abstract!Apply, Abstract!Answer, Abstract!Outcomes
  <1> QED
    BY <1>1, <1>2, <1>3, <1>4, <1>5, <1>6 DEF Http

LEMMA RpcImplements ==
    ASSUME CallInv, Rpc
    PROVE  Implemented
  <1>a. CallInv
    OBVIOUS
  <1>g. adapter \in {"cloud", "datacenter"}
    BY DEF Rpc
  <1>1. CASE RpcUnsupported
    BY <1>1, <1>a, <1>g
       DEF RpcUnsupported, Settle, Remote, Implemented, CallInv, TypeOK, Steps,
           Fates, Outcomes, Commits, Abstract!Next, Abstract!vars,
           Abstract!Apply, Abstract!Answer, Abstract!Outcomes
  <1>2. CASE RpcHandle
    BY <1>2, <1>a, <1>g
       DEF RpcHandle, Goto, Remote, Implemented, CallInv, TypeOK, Steps, Fates,
           Outcomes, Commits, Abstract!Next, Abstract!vars, Abstract!Apply,
           Abstract!Answer, Abstract!Outcomes
  <1>3. CASE RpcGiveUp
    BY <1>3, <1>a, <1>g
       DEF RpcGiveUp, Remote, Implemented, CallInv, TypeOK, Steps, Fates,
           Outcomes, Commits, Abstract!Next, Abstract!vars, Abstract!Apply,
           Abstract!Answer, Abstract!Outcomes
  <1>4. CASE RpcAnswers
    BY <1>4, <1>a, <1>g
       DEF RpcAnswers, Settle, Remote, Implemented, CallInv, TypeOK, Steps,
           Fates, Outcomes, Commits, Abstract!Next, Abstract!vars,
           Abstract!Apply, Abstract!Answer, Abstract!Outcomes
  <1>5. CASE CloudPreflight
    BY <1>5, <1>a, <1>g
       DEF CloudPreflight, Goto, Remote, Implemented, CallInv, TypeOK, Steps,
           Fates, Outcomes, Commits, Abstract!Next, Abstract!vars,
           Abstract!Apply, Abstract!Answer, Abstract!Outcomes
  <1>6. CASE CloudInvalid
    BY <1>6, <1>a, <1>g
       DEF CloudInvalid, Answer, Remote, Implemented, CallInv, TypeOK, Steps,
           Fates, Outcomes, Commits, Abstract!Next, Abstract!vars,
           Abstract!Apply, Abstract!Answer, Abstract!Outcomes
  <1>7. CASE CloudPreflightFails
    BY <1>7, <1>a, <1>g
       DEF CloudPreflightFails, Answer, Remote, Implemented, CallInv, TypeOK,
           Steps, Fates, Outcomes, Commits, Abstract!Next, Abstract!vars,
           Abstract!Apply, Abstract!Answer, Abstract!Outcomes
  <1>8. CASE CloudPublish
    BY <1>8, <1>a, <1>g
       DEF CloudPublish, Send, Implemented, CallInv, TypeOK, Steps, Fates,
           Outcomes, Commits, Abstract!Next, Abstract!vars, Abstract!Apply,
           Abstract!Answer, Abstract!Outcomes
  <1>9. CASE CloudConflict
    BY <1>9, <1>a, <1>g
       DEF CloudConflict, Answer, Remote, Implemented, CallInv, TypeOK, Steps,
           Fates, Outcomes, Commits, Abstract!Next, Abstract!vars,
           Abstract!Apply, Abstract!Answer, Abstract!Outcomes
  <1>10. CASE CloudPublished
    BY <1>10, <1>a, <1>g
       DEF CloudPublished, Answer, Remote, Implemented, CallInv, TypeOK, Steps,
           Fates, Outcomes, Commits, Abstract!Next, Abstract!vars,
           Abstract!Apply, Abstract!Answer, Abstract!Outcomes
  <1>11. CASE CloudCreateBranch
    BY <1>11, <1>a, <1>g
       DEF CloudCreateBranch, Send, Implemented, CallInv, TypeOK, Steps, Fates,
           Outcomes, Commits, Abstract!Next, Abstract!vars, Abstract!Apply,
           Abstract!Answer, Abstract!Outcomes, Heads
  <1>12. CASE CloudDeleteBranch
    BY <1>12, <1>a, <1>g
       DEF CloudDeleteBranch, Send, Implemented, CallInv, TypeOK, Steps, Fates,
           Outcomes, Commits, Abstract!Next, Abstract!vars, Abstract!Apply,
           Abstract!Answer, Abstract!Outcomes
  <1>13. CASE DataCenterCreateBranch
    BY <1>13, <1>a, <1>g
       DEF DataCenterCreateBranch, Send, Implemented, CallInv, TypeOK, Steps,
           Fates, Outcomes, Commits, Abstract!Next, Abstract!vars,
           Abstract!Apply, Abstract!Answer, Abstract!Outcomes, Heads
  <1>14. CASE DataCenterDeleteBranch
    BY <1>14, <1>a, <1>g
       DEF DataCenterDeleteBranch, Send, Implemented, CallInv, TypeOK, Steps,
           Fates, Outcomes, Commits, Abstract!Next, Abstract!vars,
           Abstract!Apply, Abstract!Answer, Abstract!Outcomes
  <1>15. CASE BranchAnswers
    BY <1>15, <1>a, <1>g
       DEF BranchAnswers, Answer, Remote, Implemented, CallInv, TypeOK, Steps,
           Fates, Outcomes, Commits, Abstract!Next, Abstract!vars,
           Abstract!Apply, Abstract!Answer, Abstract!Outcomes
  <1>16. CASE CloudRequestFails
    BY <1>16, <1>a, <1>g
       DEF CloudRequestFails, Answer, Remote, Implemented, CallInv, TypeOK,
           Steps, Fates, Outcomes, Commits, Abstract!Next, Abstract!vars,
           Abstract!Apply, Abstract!Answer, Abstract!Outcomes
  <1>17. CASE DataCenterRequestFails
    BY <1>17, <1>a, <1>g
       DEF DataCenterRequestFails, Answer, Remote, Implemented, CallInv,
           TypeOK, Steps, Fates, Outcomes, Commits, Abstract!Next,
           Abstract!vars, Abstract!Apply, Abstract!Answer, Abstract!Outcomes
  <1> QED
    BY <1>1, <1>2, <1>3, <1>4, <1>5, <1>6, <1>7, <1>8, <1>9, <1>10, <1>11,
       <1>12, <1>13, <1>14, <1>15, <1>16, <1>17 DEF Rpc

LEMMA ServerImplements ==
    ASSUME CallInv, (Abort \/ Apply \/ Refuse \/ OthersMove)
    PROVE  Implemented
  <1>a. CallInv
    OBVIOUS
  <1>1. CASE Abort
    BY <1>1, <1>a
       DEF Abort, Implemented, CallInv, TypeOK, Steps, Fates, Outcomes,
           Commits, Abstract!Next, Abstract!vars, Abstract!Apply,
           Abstract!Answer, Abstract!Outcomes
  <1>2. CASE Apply
    <2>1. /\ request.fate = "sent" /\ request'.fate = "applied"
          /\ UNCHANGED <<call, outcome>>
      BY <1>2, <1>a DEF Apply, CallInv, TypeOK
    <2>2. CASE outcome = "rejected"
      BY <1>a, <2>1, <2>2 DEF CallInv, Implemented, InferredWrongly
    <2>3. CASE outcome # "rejected"
      BY <1>a, <2>1, <2>3
         DEF CallInv, TypeOK, Outcomes, Implemented, Abstract!Next, Abstract!vars,
             Abstract!Apply
    <2> QED
      BY <2>2, <2>3
  <1>3. CASE Refuse
    BY <1>3, <1>a
       DEF Refuse, Implemented, CallInv, TypeOK, Steps, Fates, Outcomes,
           Commits, Abstract!Next, Abstract!vars, Abstract!Apply,
           Abstract!Answer, Abstract!Outcomes
  <1>4. CASE OthersMove
    BY <1>4, <1>a
       DEF OthersMove, Implemented, CallInv, TypeOK, Steps, Fates, Outcomes,
           Commits, Abstract!Next, Abstract!vars, Abstract!Apply,
           Abstract!Answer, Abstract!Outcomes
  <1> QED
    BY <1>1, <1>2, <1>3, <1>4

LEMMA AdapterStep == CallInv /\ [Next]_vars => Implemented
  <1> SUFFICES ASSUME CallInv, [Next]_vars
               PROVE  Implemented
    OBVIOUS
  <1>1. CASE UNCHANGED vars
    BY <1>1 DEF vars, Implemented, Abstract!vars
  <1> QED
    BY <1>1, CallImplements, GitHubImplements, GitImplements, HttpImplements,
       RpcImplements, ServerImplements
       DEF Next

\* Every adapter implements AdapterCall: what RemotishWorkspace concludes from
\* an outcome is right for all of them, until the GitHub adapter infers a refusal
\* of an update that is under way or applied.
THEOREM AdaptersImplementTheContract == Spec => ImplementsAdapter
  <1>1. Init => Abstract!Init
    BY DEF Init, Abstract!Init
  <1>2. CallInv /\ [Next]_vars => [Abstract!Next \/ InferredWrongly']_(Abstract!vars)
    BY AdapterStep DEF Implemented
  <1> QED
    BY <1>1, <1>2, PublishingInvariant, PTL
       DEF Spec, ImplementsAdapter

-----------------------------------------------------------------------------
(* The lease. *)

\* The head that the request requires is the one its caller expects, and a
\* revision, unless a branch is deleted without a look at it.
LeaseInv ==
    /\ call.op = "create" /\ call.pc # "idle" => call.lease = "absent"
    /\ call.op # "delete" => call.lease # "any"
    /\ adapter = "git" /\ call.pc = "publish" => call.seen = call.lease
    /\ request.fate = "sent" =>
           \/ request.old = call.lease /\ request.old # "any"
           \/ call.op = "delete" /\ adapter # "git"

LEMMA NoRevisionIsAny == "any" \notin Heads
  BY PublishingAssumption DEF Heads

LEMMA CallKeepsLease ==
    ASSUME CallInv, LeaseInv, NEW op \in Ops, NEW lease \in Heads \cup {"any"},
           Call(op, lease)
    PROVE  LeaseInv'
  <1>1. request.fate = "none"
    BY DEF Call, CallInv, TypeOK, Fates
  <1>2. /\ call'.op = op /\ call'.lease = lease /\ call'.pc = "start"
        /\ request' = request
    BY DEF Call, Remote, CallInv, TypeOK
  <1>3. /\ op = "create" => lease = "absent"
        /\ op # "delete" => lease # "any"
    BY NoRevisionIsAny DEF Call, Leases, Ops, Commits, Heads
  <1> QED
    BY <1>1, <1>2, <1>3 DEF LeaseInv

LEMMA GitHubKeepsLease ==
    ASSUME CallInv, LeaseInv, GitHub
    PROVE  LeaseInv'
  <1>a. CallInv /\ LeaseInv
    OBVIOUS
  <1>g. adapter = "github"
    BY DEF GitHub
  <1>1. CASE GitHubNotAuthenticated
    BY <1>1, <1>a, <1>g
       DEF GitHubNotAuthenticated, Settle, Refusal, Remote, CallInv, TypeOK,
           LeaseInv, Commits
  <1>2. CASE GitHubObjects
    BY <1>2, <1>a, <1>g
       DEF GitHubObjects, Goto, Remote, CallInv, TypeOK, LeaseInv, Commits
  <1>3. CASE GitHubRequestFails
    BY <1>3, <1>a, <1>g
       DEF GitHubRequestFails, Settle, Remote, CallInv, TypeOK, LeaseInv,
           Commits
  <1>4. CASE GitHubUpdateRefs
    BY <1>4, <1>a, <1>g
       DEF GitHubUpdateRefs, Send, CallInv, TypeOK, LeaseInv, Commits
  <1>5. CASE GitHubRepositoryFails
    BY <1>5, <1>a, <1>g
       DEF GitHubRepositoryFails, Goto, Remote, CallInv, TypeOK, LeaseInv,
           Commits
  <1>6. CASE GitHubCreateRef
    BY <1>6, <1>a, <1>g
       DEF GitHubCreateRef, Send, CallInv, TypeOK, LeaseInv, Commits
  <1>7. CASE GitHubDeleteRef
    BY <1>7, <1>a, <1>g
       DEF GitHubDeleteRef, Send, CallInv, TypeOK, LeaseInv, Commits
  <1>8. CASE GitHubAnswers
    BY <1>8, <1>a, <1>g
       DEF GitHubAnswers, Settle, Remote, CallInv, TypeOK, LeaseInv, Commits
  <1>9. CASE GitHubAnswerFails
    BY <1>9, <1>a, <1>g
       DEF GitHubAnswerFails, Goto, Settle, Remote, CallInv, TypeOK, LeaseInv,
           Commits
  <1>10. CASE GitHubBranchHead
    BY <1>10, <1>a, <1>g
       DEF GitHubBranchHead, Settle, Remote, CallInv, TypeOK, LeaseInv, Commits
  <1>11. CASE GitHubBranchHeadFails
    BY <1>11, <1>a, <1>g
       DEF GitHubBranchHeadFails, Settle, Remote, CallInv, TypeOK, LeaseInv,
           Commits
  <1> QED
    BY <1>1, <1>2, <1>3, <1>4, <1>5, <1>6, <1>7, <1>8, <1>9, <1>10, <1>11 DEF
       GitHub

LEMMA GitKeepsLease ==
    ASSUME CallInv, LeaseInv, Git
    PROVE  LeaseInv'
  <1>a. CallInv /\ LeaseInv
    OBVIOUS
  <1>g. adapter = "git"
    BY DEF Git
  <1>1. CASE GitReady
    BY <1>1, <1>a, <1>g
       DEF GitReady, Goto, Remote, CallInv, TypeOK, LeaseInv, Commits
  <1>2. CASE GitNotReady
    BY <1>2, <1>a, <1>g
       DEF GitNotReady, Settle, Refusal, Remote, CallInv, TypeOK, LeaseInv,
           Commits
  <1>3. CASE GitBuild
    BY <1>3, <1>a, <1>g
       DEF GitBuild, Goto, Remote, CallInv, TypeOK, LeaseInv, Commits
  <1>4. CASE GitKnowsCommit
    BY <1>4, <1>a, <1>g
       DEF GitKnowsCommit, Goto, Remote, CallInv, TypeOK, LeaseInv, Commits
  <1>5. CASE GitFindBranch
    BY <1>5, <1>a, <1>g
       DEF GitFindBranch, Remote, CallInv, TypeOK, LeaseInv, Commits
  <1>6. CASE GitObjectsFail
    BY <1>6, <1>a, <1>g
       DEF GitObjectsFail, Settle, Refusal, Remote, CallInv, TypeOK, LeaseInv,
           Commits
  <1>7. CASE GitDiscover
    BY <1>7, <1>a, <1>g
       DEF GitDiscover, Settle, Refusal, Remote, CallInv, TypeOK, LeaseInv,
           Commits
  <1>8. CASE GitNotDispatched
    BY <1>8, <1>a, <1>g
       DEF GitNotDispatched, Settle, Refusal, Remote, CallInv, TypeOK,
           LeaseInv, Commits
  <1>9. CASE GitReceivePack
    BY <1>9, <1>a, <1>g, NoRevisionIsAny
       DEF GitReceivePack, Send, CallInv, TypeOK, LeaseInv, Commits
  <1>10. CASE GitPushed
    BY <1>10, <1>a, <1>g
       DEF GitPushed, Settle, Remote, CallInv, TypeOK, LeaseInv, Commits
  <1>11. CASE GitRefRejected
    BY <1>11, <1>a, <1>g
       DEF GitRefRejected, Settle, Refusal, Remote, CallInv, TypeOK, LeaseInv,
           Commits
  <1>12. CASE GitAnswerFails
    BY <1>12, <1>a, <1>g
       DEF GitAnswerFails, Settle, Remote, CallInv, TypeOK, LeaseInv, Commits
  <1> QED
    BY <1>1, <1>2, <1>3, <1>4, <1>5, <1>6, <1>7, <1>8, <1>9, <1>10, <1>11,
       <1>12 DEF Git

LEMMA HttpKeepsLease ==
    ASSUME CallInv, LeaseInv, Http
    PROVE  LeaseInv'
  <1>a. CallInv /\ LeaseInv
    OBVIOUS
  <1>g. adapter = "http"
    BY DEF Http
  <1>1. CASE HttpHeaders
    BY <1>1, <1>a, <1>g
       DEF HttpHeaders, Goto, Remote, CallInv, TypeOK, LeaseInv, Commits
  <1>2. CASE HttpNotSent
    BY <1>2, <1>a, <1>g
       DEF HttpNotSent, Settle, Remote, CallInv, TypeOK, LeaseInv, Commits
  <1>3. CASE HttpSend
    BY <1>3, <1>a, <1>g
       DEF HttpSend, Send, CallInv, TypeOK, LeaseInv, Commits
  <1>4. CASE HttpAnswers
    BY <1>4, <1>a, <1>g
       DEF HttpAnswers, Settle, Remote, CallInv, TypeOK, LeaseInv, Commits
  <1>5. CASE HttpRefuses
    BY <1>5, <1>a, <1>g
       DEF HttpRefuses, Settle, Refusal, Remote, CallInv, TypeOK, LeaseInv,
           Commits
  <1>6. CASE HttpAnswerFails
    BY <1>6, <1>a, <1>g
       DEF HttpAnswerFails, Settle, Remote, CallInv, TypeOK, LeaseInv, Commits
  <1> QED
    BY <1>1, <1>2, <1>3, <1>4, <1>5, <1>6 DEF Http

LEMMA RpcKeepsLease ==
    ASSUME CallInv, LeaseInv, Rpc
    PROVE  LeaseInv'
  <1>a. CallInv /\ LeaseInv
    OBVIOUS
  <1>g. adapter \in {"cloud", "datacenter"}
    BY DEF Rpc
  <1>1. CASE RpcUnsupported
    BY <1>1, <1>a, <1>g
       DEF RpcUnsupported, Settle, Remote, CallInv, TypeOK, LeaseInv, Commits
  <1>2. CASE RpcHandle
    BY <1>2, <1>a, <1>g
       DEF RpcHandle, Goto, Remote, CallInv, TypeOK, LeaseInv, Commits
  <1>3. CASE RpcGiveUp
    BY <1>3, <1>a, <1>g
       DEF RpcGiveUp, Remote, CallInv, TypeOK, LeaseInv, Commits
  <1>4. CASE RpcAnswers
    BY <1>4, <1>a, <1>g
       DEF RpcAnswers, Settle, Remote, CallInv, TypeOK, LeaseInv, Commits
  <1>5. CASE CloudPreflight
    BY <1>5, <1>a, <1>g
       DEF CloudPreflight, Goto, Remote, CallInv, TypeOK, LeaseInv, Commits
  <1>6. CASE CloudInvalid
    BY <1>6, <1>a, <1>g
       DEF CloudInvalid, Answer, Remote, CallInv, TypeOK, LeaseInv, Commits
  <1>7. CASE CloudPreflightFails
    BY <1>7, <1>a, <1>g
       DEF CloudPreflightFails, Answer, Remote, CallInv, TypeOK, LeaseInv,
           Commits
  <1>8. CASE CloudPublish
    BY <1>8, <1>a, <1>g
       DEF CloudPublish, Send, CallInv, TypeOK, LeaseInv, Commits
  <1>9. CASE CloudConflict
    BY <1>9, <1>a, <1>g
       DEF CloudConflict, Answer, Remote, CallInv, TypeOK, LeaseInv, Commits
  <1>10. CASE CloudPublished
    BY <1>10, <1>a, <1>g
       DEF CloudPublished, Answer, Remote, CallInv, TypeOK, LeaseInv, Commits
  <1>11. CASE CloudCreateBranch
    BY <1>11, <1>a, <1>g
       DEF CloudCreateBranch, Send, CallInv, TypeOK, LeaseInv, Commits, Heads
  <1>12. CASE CloudDeleteBranch
    BY <1>12, <1>a, <1>g
       DEF CloudDeleteBranch, Send, CallInv, TypeOK, LeaseInv, Commits
  <1>13. CASE DataCenterCreateBranch
    BY <1>13, <1>a, <1>g
       DEF DataCenterCreateBranch, Send, CallInv, TypeOK, LeaseInv, Commits,
           Heads
  <1>14. CASE DataCenterDeleteBranch
    BY <1>14, <1>a, <1>g
       DEF DataCenterDeleteBranch, Send, CallInv, TypeOK, LeaseInv, Commits
  <1>15. CASE BranchAnswers
    BY <1>15, <1>a, <1>g
       DEF BranchAnswers, Answer, Remote, CallInv, TypeOK, LeaseInv, Commits
  <1>16. CASE CloudRequestFails
    BY <1>16, <1>a, <1>g
       DEF CloudRequestFails, Answer, Remote, CallInv, TypeOK, LeaseInv,
           Commits
  <1>17. CASE DataCenterRequestFails
    BY <1>17, <1>a, <1>g
       DEF DataCenterRequestFails, Answer, Remote, CallInv, TypeOK, LeaseInv,
           Commits
  <1> QED
    BY <1>1, <1>2, <1>3, <1>4, <1>5, <1>6, <1>7, <1>8, <1>9, <1>10, <1>11,
       <1>12, <1>13, <1>14, <1>15, <1>16, <1>17 DEF Rpc

LEMMA ServerKeepsLease ==
    ASSUME CallInv, LeaseInv, (Abort \/ Apply \/ Refuse \/ OthersMove)
    PROVE  LeaseInv'
  <1>a. CallInv /\ LeaseInv
    OBVIOUS
  <1>1. CASE Abort
    BY <1>1, <1>a
       DEF Abort, CallInv, TypeOK, LeaseInv, Commits
  <1>2. CASE Apply
    BY <1>2, <1>a
       DEF Apply, CallInv, TypeOK, LeaseInv, Commits
  <1>3. CASE Refuse
    BY <1>3, <1>a
       DEF Refuse, CallInv, TypeOK, LeaseInv, Commits
  <1>4. CASE OthersMove
    BY <1>4, <1>a
       DEF OthersMove, CallInv, TypeOK, LeaseInv, Commits
  <1> QED
    BY <1>1, <1>2, <1>3, <1>4

LEMMA LeaseStep == CallInv /\ LeaseInv /\ [Next]_vars => LeaseInv'
  <1> SUFFICES ASSUME CallInv, LeaseInv, [Next]_vars
               PROVE  LeaseInv'
    OBVIOUS
  <1>1. CASE UNCHANGED vars
    BY <1>1 DEF vars, LeaseInv
  <1> QED
    BY <1>1, CallKeepsLease, GitHubKeepsLease, GitKeepsLease, HttpKeepsLease,
       RpcKeepsLease, ServerKeepsLease
       DEF Next

\* Only the server makes a request that was sent an applied one.
LEMMA OnlyApplyApplies ==
    ASSUME CallInv, [Next]_vars, request.fate = "sent", request'.fate = "applied"
    PROVE  Apply
  <1>1. ASSUME NEW op \in Ops, NEW lease \in Heads \cup {"any"}, Call(op, lease)
        PROVE  FALSE
    BY <1>1 DEF Call, Remote
  <1>2. CASE GitHub
    BY <1>2
       DEF GitHub, GitHubNotAuthenticated, GitHubObjects, GitHubRequestFails,
           GitHubUpdateRefs, GitHubRepositoryFails, GitHubCreateRef,
           GitHubDeleteRef, GitHubAnswers, GitHubAnswerFails, GitHubBranchHead,
           GitHubBranchHeadFails, Settle, Remote, Goto, Send, CallInv, TypeOK
  <1>3. CASE Git
    BY <1>3
       DEF Git, GitReady, GitNotReady, GitBuild, GitKnowsCommit, GitFindBranch,
           GitObjectsFail, GitDiscover, GitNotDispatched, GitReceivePack,
           GitPushed, GitRefRejected, GitAnswerFails, Goto, Remote, Settle,
           Send, CallInv, TypeOK
  <1>4. CASE Http
    BY <1>4
       DEF Http, HttpHeaders, HttpNotSent, HttpSend, HttpAnswers, HttpRefuses,
           HttpAnswerFails, Goto, Remote, Settle, Send, CallInv, TypeOK
  <1>5. CASE Rpc
    BY <1>5
       DEF Rpc, RpcUnsupported, RpcHandle, RpcGiveUp, RpcAnswers,
           CloudPreflight, CloudInvalid, CloudPreflightFails, CloudPublish,
           CloudConflict, CloudPublished, CloudCreateBranch, CloudDeleteBranch,
           DataCenterCreateBranch, DataCenterDeleteBranch, BranchAnswers,
           CloudRequestFails, DataCenterRequestFails, Settle, Remote, Goto,
           Answer, Send, CallInv, TypeOK
  <1>6. CASE UNCHANGED vars
    BY <1>6 DEF vars
  <1>7. CASE Abort \/ Refuse \/ OthersMove
    BY <1>7 DEF Abort, Refuse, OthersMove, CallInv, TypeOK
  <1> QED
    BY <1>1, <1>2, <1>3, <1>4, <1>5, <1>6, <1>7 DEF Next

\* The branch moves to the caller's commit only from the head that the caller
\* expects: LeaseKept, for any revisions that other clients push.
THEOREM LeasesAreKept == Spec => LeaseKept
  <1>1. Init => LeaseInv
    BY DEF Init, LeaseInv
  <1>2. CallInv /\ LeaseInv /\ [Next]_vars =>
            [request.fate = "sent" /\ request'.fate = "applied" =>
                \/ head = call.lease
                \/ call.op = "delete" /\ adapter # "git"]_vars
    <2> SUFFICES ASSUME CallInv, LeaseInv, [Next]_vars,
                        request.fate = "sent", request'.fate = "applied"
                 PROVE  \/ head = call.lease
                        \/ call.op = "delete" /\ adapter # "git"
      OBVIOUS
    <2> QED
      BY OnlyApplyApplies DEF Apply, LeaseInv
  <1> QED
    BY <1>1, <1>2, LeaseStep, PublishingInvariant, PTL DEF Spec, LeaseKept

-----------------------------------------------------------------------------
(* WorkingTree: what an overlay satisfies after every operation.             *)

\* No file is under a tombstone or in the place of a directory marker: setFile
\* lifts the tombstones above it, markDeleted drops what is below.  Without it
\* a written file could be published that is not shown.
Tidy(o) == \A f \in DOMAIN o.files : f \notin o.directories /\ ~IsDeleted(o, f)

\* The target of a rename record is not deleted, so that reverting it, which
\* lifts the tombstones of its origin only, shows the base there.
Live(o) == \A r \in o.renames : ~IsDeleted(o, r.to)

-----------------------------------------------------------------------------
(* Paths and trees. *)

LEMMA PrefixMeaning ==
  ASSUME NEW p \in Seq(STRING), NEW q \in Seq(STRING)
  PROVE  SameOrChild(p, q) <=> /\ Len(q) <= Len(p)
                               /\ \A i \in 1 .. Len(q) : q[i] = p[i]
  <1>1. Len(q) \in Nat /\ Len(p) \in Nat
    OBVIOUS
  <1>2. SubSeq(q, 1, Len(q)) = [i \in 1 .. Len(q) |-> q[i]]
    BY <1>1
  <1>3. ASSUME Len(q) <= Len(p)
        PROVE  SubSeq(p, 1, Len(q)) = [i \in 1 .. Len(q) |-> p[i]]
    BY <1>1, <1>3
  <1> QED
    BY <1>1, <1>2, <1>3 DEF SameOrChild, IsPrefix

LEMMA BelowItself == \A p : SameOrChild(p, p)
  BY DEF SameOrChild, IsPrefix

LEMMA BelowBelow ==
  ASSUME NEW p \in Paths, NEW q \in Paths, NEW r \in Paths,
         SameOrChild(p, q), SameOrChild(q, r)
  PROVE  SameOrChild(p, r)
  <1>1. p \in Seq(STRING) /\ q \in Seq(STRING) /\ r \in Seq(STRING)
    BY WorkingTreeAssumption
  <1>2. Len(q) <= Len(p) /\ \A i \in 1 .. Len(q) : q[i] = p[i]
    BY <1>1, PrefixMeaning
  <1>3. Len(r) <= Len(q) /\ \A i \in 1 .. Len(r) : r[i] = q[i]
    BY <1>1, PrefixMeaning
  <1>4. Len(p) \in Nat /\ Len(q) \in Nat /\ Len(r) \in Nat
    BY <1>1
  <1>5. Len(r) <= Len(p) /\ \A i \in 1 .. Len(r) : r[i] = p[i]
    BY <1>2, <1>3, <1>4
  <1> QED
    BY <1>1, <1>5, PrefixMeaning

\* q is strictly above p.
Under(p, q) == SameOrChild(p, q) /\ p # q

LEMMA Part ==
  ASSUME NEW p \in Seq(STRING), NEW n \in 0 .. Len(p)
  PROVE  /\ SubSeq(p, 1, n) \in Seq(STRING) /\ Len(SubSeq(p, 1, n)) = n
         /\ \A i \in 1 .. n : SubSeq(p, 1, n)[i] = p[i]
  <1>1. n \in Nat /\ Len(p) \in Nat /\ n <= Len(p)
    OBVIOUS
  <1>2. \A i \in 1 .. n : p[i] \in STRING
    <2>1. \A i \in 1 .. n : i \in 1 .. Len(p)
      BY <1>1
    <2> QED
      BY <2>1, ElementOfSeq
  <1>3. /\ SubSeq(p, 1, n) \in Seq(STRING)
        /\ Len(SubSeq(p, 1, n)) = IF 1 <= n THEN n - 1 + 1 ELSE 0
        /\ \A i \in 1 .. n - 1 + 1 : SubSeq(p, 1, n)[i] = p[1 + i - 1]
    BY <1>1, <1>2, SubSeqProperties
  <1> QED
    BY <1>1, <1>3

LEMMA BelowBoth ==
  ASSUME NEW p \in Paths, NEW q \in Paths, SameOrChild(p, q), SameOrChild(q, p)
  PROVE  p = q
  <1>1. p \in Seq(STRING) /\ q \in Seq(STRING) /\ Len(p) \in Nat /\ Len(q) \in Nat
    BY WorkingTreeAssumption
  <1>2. /\ Len(q) <= Len(p) /\ Len(p) <= Len(q)
        /\ \A i \in 1 .. Len(q) : q[i] = p[i]
    BY <1>1, PrefixMeaning
  <1>3. Len(p) = Len(q)
    BY <1>1, <1>2
  <1> QED
    BY <1>1, <1>2, <1>3, SeqEqual

LEMMA AboveBoth ==
  ASSUME NEW p \in Paths, NEW q \in Paths, NEW r \in Paths,
         SameOrChild(p, q), SameOrChild(p, r)
  PROVE  SameOrChild(q, r) \/ SameOrChild(r, q)
  <1>1. p \in Seq(STRING) /\ q \in Seq(STRING) /\ r \in Seq(STRING)
    BY WorkingTreeAssumption
  <1>2. Len(p) \in Nat /\ Len(q) \in Nat /\ Len(r) \in Nat
    BY <1>1
  <1>3. Len(q) <= Len(p) /\ \A i \in 1 .. Len(q) : q[i] = p[i]
    BY <1>1, PrefixMeaning
  <1>4. Len(r) <= Len(p) /\ \A i \in 1 .. Len(r) : r[i] = p[i]
    BY <1>1, PrefixMeaning
  <1>5. CASE Len(q) <= Len(r)
    <2>1. \A i \in 1 .. Len(q) : q[i] = r[i]
      BY <1>2, <1>3, <1>4, <1>5
    <2> QED
      BY <1>1, <1>5, <2>1, PrefixMeaning
  <1>6. CASE Len(r) <= Len(q)
    <2>1. \A i \in 1 .. Len(r) : r[i] = q[i]
      BY <1>2, <1>3, <1>4, <1>6
    <2> QED
      BY <1>1, <1>6, <2>1, PrefixMeaning
  <1>7. Len(q) <= Len(r) \/ Len(r) <= Len(q)
    BY <1>2
  <1> QED
    BY <1>5, <1>6, <1>7

LEMMA UnderUnder ==
  ASSUME NEW p \in Paths, NEW q \in Paths, NEW r \in Paths,
         SameOrChild(p, q), SameOrChild(q, r), p # q \/ q # r
  PROVE  Under(p, r)
  <1>1. SameOrChild(p, r)
    BY BelowBelow
  <1>2. ASSUME p = r
        PROVE  p = q /\ q = r
    BY <1>2, BelowBoth
  <1> QED
    BY <1>1, <1>2 DEF Under

\* What is above a path is its parts.
LEMMA UnderIsPart ==
  ASSUME NEW p \in Paths, NEW a \in Paths, Under(p, a)
  PROVE  Len(a) \in 1 .. Len(p) - 1 /\ a = SubSeq(p, 1, Len(a))
  <1>1. p \in Seq(STRING) /\ a \in Seq(STRING) /\ a # << >>
    BY WorkingTreeAssumption DEF Root
  <1>2. Len(p) \in Nat /\ Len(a) \in Nat /\ Len(a) # 0
    BY <1>1, EmptySeq
  <1>3. Len(a) <= Len(p) /\ \A i \in 1 .. Len(a) : a[i] = p[i]
    BY <1>1, PrefixMeaning DEF Under
  <1>4. Len(a) # Len(p)
    BY <1>1, <1>2, <1>3, SeqEqual DEF Under
  <1>5. Len(a) \in 0 .. Len(p)
    BY <1>2, <1>3
  <1> DEFINE s == SubSeq(p, 1, Len(a))
  <1>6. s \in Seq(STRING) /\ Len(s) = Len(a) /\ \A i \in 1 .. Len(a) : s[i] = p[i]
    BY <1>1, <1>5, Part
  <1> HIDE DEF s
  <1>7. a = s
    BY <1>1, <1>3, <1>6, SeqEqual
  <1> QED
    BY <1>2, <1>3, <1>4, <1>7 DEF s

LEMMA PartIsUnder ==
  ASSUME NEW p \in Seq(STRING), NEW n \in 0 .. Len(p), SubSeq(p, 1, n) \in Paths
  PROVE  SameOrChild(p, SubSeq(p, 1, n)) /\ (n # Len(p) => Under(p, SubSeq(p, 1, n)))
  <1> DEFINE s == SubSeq(p, 1, n)
  <1>1. s \in Seq(STRING) /\ Len(s) = n /\ \A i \in 1 .. n : s[i] = p[i]
    BY Part
  <1>2. n \in Nat /\ Len(p) \in Nat /\ n <= Len(p)
    OBVIOUS
  <1> HIDE DEF s
  <1>3. SameOrChild(p, s)
    BY <1>1, <1>2, PrefixMeaning
  <1>4. n # Len(p) => p # s
    BY <1>1
  <1> QED
    BY <1>3, <1>4 DEF Under, s

LEMMA FrontIsAbove ==
  ASSUME NEW p \in Paths, Front(p) \in Paths
  PROVE  SameOrChild(p, Front(p)) /\ Front(p) # p
  <1>1. p \in Seq(STRING) /\ p # << >> /\ Front(p) \in Seq(STRING)
    BY WorkingTreeAssumption DEF Root
  <1>2. Len(p) \in Nat /\ Len(p) # 0
    BY <1>1, EmptySeq
  <1> DEFINE n == Len(p) - 1
  <1>3. n \in Nat /\ Len(p) = n + 1
    BY <1>2
  <1>4. Front(p) = SubSeq(p, 1, n)
    BY DEF Front
  <1> HIDE DEF n
  <1>5. \A i \in 1 .. n : p[i] \in STRING
    BY <1>1, <1>3, ElementOfSeq
  <1>6. /\ Len(SubSeq(p, 1, n)) = IF 1 <= n THEN n - 1 + 1 ELSE 0
        /\ \A i \in 1 .. n - 1 + 1 : SubSeq(p, 1, n)[i] = p[1 + i - 1]
    BY <1>3, <1>5, SubSeqProperties
  <1>7. Len(Front(p)) = n /\ \A i \in 1 .. n : Front(p)[i] = p[i]
    BY <1>3, <1>4, <1>6
  <1> QED
    BY <1>1, <1>3, <1>7, PrefixMeaning

LEMMA LeastElement ==
  ASSUME NEW T \in SUBSET Nat, T # {}
  PROVE  \E m \in T : \A k \in T : m <= k
  <1>1. PICK m \in T : \A k \in T : ~(<<k, m>> \in OpToRel(<, Nat))
    BY NatLessThanWellFounded, WFMin
  <1>2. \A k \in T : ~(k < m)
    BY <1>1 DEF OpToRel
  <1> QED
    BY <1>2

\* Paths are closed under parents.
LEMMA PartsArePaths ==
  ASSUME NEW p \in Paths, NEW n \in 1 .. Len(p)
  PROVE  SubSeq(p, 1, n) \in Paths
  <1>1. p \in Seq(STRING) /\ p # << >> /\ Len(p) \in Nat
    BY WorkingTreeAssumption DEF Root
  <1> DEFINE l == Len(p)
             Upper(k) == SubSeq(p, 1, l - k)
             T == {k \in 0 .. l - 1 : Upper(k) \notin Paths}
  <1>2. SUFFICES T = {}
    <2>1. l - n \in 0 .. l - 1 /\ l - (l - n) = n
      BY <1>1
    <2> QED
      BY <1>2, <2>1
  <1>3. SUFFICES ASSUME T # {}
                 PROVE  FALSE
    OBVIOUS
  <1>4. PICK m \in T : \A k \in T : m <= k
    <2>1. T \in SUBSET Nat
      BY <1>1
    <2> HIDE DEF T
    <2> QED
      BY <1>3, <2>1, LeastElement
  <1>5. m \in 0 .. l - 1 /\ Upper(m) \notin Paths
    BY <1>4
  <1>6. m # 0
    <2>1. SubSeq(p, 1, l) = p
      BY <1>1, SubSeqFull
    <2>2. l - 0 = l
      BY <1>1
    <2> QED
      BY <1>5, <2>1, <2>2
  <1> DEFINE r == Upper(m - 1)
  <1>7. r \in Paths
    <2>1. m - 1 \in 0 .. l - 1 /\ ~(m <= m - 1)
      BY <1>1, <1>5, <1>6
    <2>2. m - 1 \notin T
      BY <1>4, <2>1
    <2> QED
      BY <2>1, <2>2
  <1>8. /\ l - (m - 1) \in 0 .. l /\ l - m \in 0 .. l /\ l - m # 0
        /\ l - (m - 1) - 1 = l - m /\ l - m \in 0 .. l - (m - 1)
    BY <1>1, <1>5, <1>6
  <1>9. r \in Seq(STRING) /\ Len(r) = l - (m - 1) /\ \A i \in 1 .. l - (m - 1) : r[i] = p[i]
    BY <1>1, <1>8, Part
  <1>10. /\ Upper(m) \in Seq(STRING) /\ Len(Upper(m)) = l - m
         /\ \A i \in 1 .. l - m : Upper(m)[i] = p[i]
    BY <1>1, <1>8, Part
  <1> HIDE DEF r
  <1>11. Front(r) = SubSeq(r, 1, l - m)
    BY <1>8, <1>9 DEF Front
  <1>12. /\ Front(r) \in Seq(STRING) /\ Len(Front(r)) = l - m
         /\ \A i \in 1 .. l - m : Front(r)[i] = r[i]
    <2>1. l - m \in 0 .. Len(r)
      BY <1>8, <1>9
    <2> HIDE DEF l, T, Upper
    <2> QED
      BY <1>9, <1>11, <2>1, Part
  <1>13. \A i \in 1 .. l - m : i \in 1 .. l - (m - 1)
    <2> HIDE DEF l, T
    <2>1. l \in Nat /\ m \in Int
      BY <1>1, <1>5 DEF l
    <2> QED
      BY <2>1
  <1> HIDE DEF Upper
  <1>14. Front(r) = Upper(m)
    BY <1>9, <1>10, <1>12, <1>13, SeqEqual
  <1>15. Front(r) # Root
    BY <1>8, <1>12 DEF Root
  <1> QED
    BY <1>5, <1>7, <1>14, <1>15, WorkingTreeAssumption

\* What is above a path is its parent, or above that.
LEMMA UnderParent ==
  ASSUME NEW p \in Paths, NEW a \in Paths, Under(p, a)
  PROVE  Front(p) \in Paths /\ SameOrChild(Front(p), a)
  <1>1. p \in Seq(STRING) /\ a \in Seq(STRING) /\ Len(p) \in Nat /\ Len(a) \in Nat
    BY WorkingTreeAssumption
  <1>2. Len(a) \in 1 .. Len(p) - 1
    BY UnderIsPart
  <1>3. \A i \in 1 .. Len(a) : a[i] = p[i]
    BY <1>1, PrefixMeaning DEF Under
  <1> DEFINE n == Len(p) - 1
  <1>4. n \in 0 .. Len(p) /\ n \in 1 .. Len(p) /\ Len(a) <= n
    BY <1>1, <1>2
  <1>5. /\ Front(p) \in Paths /\ Front(p) \in Seq(STRING) /\ Len(Front(p)) = n
        /\ \A i \in 1 .. n : Front(p)[i] = p[i]
    BY <1>1, <1>4, Part, PartsArePaths DEF Front
  <1>6. \A i \in 1 .. Len(a) : a[i] = Front(p)[i]
    BY <1>1, <1>3, <1>4, <1>5
  <1> QED
    BY <1>1, <1>4, <1>5, <1>6, PrefixMeaning

LEMMA TreeMeaning ==
  ASSUME NEW f
  PROVE  f \in Trees <=> /\ f = [p \in DOMAIN f |-> f[p]]
                         /\ DOMAIN f \subseteq Paths
                         /\ \A p \in DOMAIN f : f[p] \in Contents
  BY DEF Trees

LEMMA NothingIsATree == << >> \in Trees
  <1>1. << >> \in Seq(Contents) /\ Len(<< >>) = 0
    OBVIOUS
  <1>2. << >> \in [1 .. 0 -> Contents]
    BY <1>1
  <1>3. 1 .. 0 = {}
    OBVIOUS
  <1> QED
    BY <1>2, <1>3 DEF Trees

LEMMA WithoutTree ==
  ASSUME NEW f \in Trees, NEW S
  PROVE  /\ Without(f, S) \in Trees
         /\ DOMAIN Without(f, S) = DOMAIN f \ S
         /\ \A p \in DOMAIN f \ S : Without(f, S)[p] = f[p]
  <1>1. DOMAIN f \subseteq Paths /\ \A p \in DOMAIN f : f[p] \in Contents
    BY TreeMeaning
  <1> DEFINE h == Without(f, S)
  <1>2. h = [p \in DOMAIN f \ S |-> f[p]]
    BY DEF Without, Restrict
  <1> HIDE DEF h
  <1>3. DOMAIN h = DOMAIN f \ S /\ \A p \in DOMAIN f \ S : h[p] = f[p]
    BY <1>2
  <1>4. h = [p \in DOMAIN h |-> h[p]]
    BY <1>2, <1>3
  <1>5. h \in Trees
    BY <1>1, <1>3, <1>4, TreeMeaning
  <1> QED
    BY <1>3, <1>5 DEF h

LEMMA OverTree ==
  ASSUME NEW f \in Trees, NEW g \in Trees
  PROVE  /\ Over(f, g) \in Trees
         /\ DOMAIN (Over(f, g)) = DOMAIN f \cup DOMAIN g
         /\ \A p \in DOMAIN f : (Over(f, g))[p] = f[p]
         /\ \A p \in DOMAIN g \ DOMAIN f : (Over(f, g))[p] = g[p]
  <1>2. /\ DOMAIN f \subseteq Paths /\ DOMAIN g \subseteq Paths
        /\ \A p \in DOMAIN f : f[p] \in Contents
        /\ \A p \in DOMAIN g : g[p] \in Contents
    BY TreeMeaning
  <1> DEFINE h == Over(f, g)
  <1>3. h = [p \in DOMAIN f \cup DOMAIN g |-> IF p \in DOMAIN f THEN f[p] ELSE g[p]]
    BY DEF Over
  <1> HIDE DEF h
  <1>4. DOMAIN h = DOMAIN f \cup DOMAIN g
    BY <1>3
  <1>5. \A p \in DOMAIN h : h[p] = IF p \in DOMAIN f THEN f[p] ELSE g[p]
    BY <1>3
  <1>6. h = [p \in DOMAIN h |-> h[p]]
    BY <1>3, <1>4
  <1>7. \A p \in DOMAIN h : p \in Paths /\ h[p] \in Contents
    BY <1>2, <1>4, <1>5
  <1>8. h \in Trees
    BY <1>6, <1>7, TreeMeaning
  <1> QED
    BY <1>4, <1>5, <1>8 DEF h

-----------------------------------------------------------------------------
(* The operations of the overlay. *)

LEMMA RemoveKeeps ==
  ASSUME NEW o \in Overlays, NEW S
  PROVE  LET n == RemoveOverlayPaths(o, S)
         IN  /\ n \in Overlays /\ n.deleted = o.deleted
             /\ DOMAIN n.files = {f \in DOMAIN o.files : \A p \in S : ~SameOrChild(f, p)}
             /\ n.directories = {d \in o.directories : \A p \in S : ~SameOrChild(d, p)}
             /\ \A r \in n.renames : r \in o.renames /\ \A p \in S : ~SameOrChild(r.to, p)
  <1> DEFINE Removed(q) == \E p \in S : SameOrChild(q, p)
             files == Without(o.files, {q \in DOMAIN o.files : Removed(q)})
             directories == {q \in o.directories : ~Removed(q)}
             renames == {r \in o.renames : ~Removed(r.from) /\ ~Removed(r.to)}
             n == RemoveOverlayPaths(o, S)
  <1>1. n = [o EXCEPT !.files = files, !.directories = directories, !.renames = renames]
    BY DEF RemoveOverlayPaths
  <1>2. o.files \in Trees /\ o.directories \subseteq Paths /\ o.renames \subseteq RenameRecord
    BY DEF Overlays
  <1>3. /\ files \in Trees
        /\ DOMAIN files = DOMAIN o.files \ {q \in DOMAIN o.files : Removed(q)}
    BY <1>2, WithoutTree
  <1> HIDE DEF files
  <1>4. n.files = files /\ n.directories = directories /\ n.renames = renames
        /\ n.deleted = o.deleted
    BY <1>1 DEF Overlays
  <1>5. n \in Overlays
    BY <1>1, <1>2, <1>3 DEF Overlays
  <1> QED
    BY <1>3, <1>4, <1>5

LEMMA MarkKeeps ==
  ASSUME NEW o \in Overlays, NEW S \in SUBSET Paths
  PROVE  LET n == MarkDeleted(o, S)
         IN  /\ n \in Overlays /\ n.deleted = o.deleted \cup S
             /\ Tidy(o) => Tidy(n)
             /\ Live(o) => Live(n)
             /\ DOMAIN n.files \subseteq DOMAIN o.files
  <1> DEFINE m == RemoveOverlayPaths(o, S)
             n == MarkDeleted(o, S)
  <1>1. n = [m EXCEPT !.deleted = @ \cup S]
    BY DEF MarkDeleted
  <1>2. /\ m \in Overlays /\ m.deleted = o.deleted
        /\ \A f \in DOMAIN m.files :
              f \in DOMAIN o.files /\ \A p \in S : ~SameOrChild(f, p)
        /\ m.directories \subseteq o.directories
        /\ \A r \in m.renames : r \in o.renames /\ \A p \in S : ~SameOrChild(r.to, p)
    BY RemoveKeeps
  <1> HIDE DEF m
  <1>3. /\ n.files = m.files /\ n.directories = m.directories /\ n.renames = m.renames
        /\ n.deleted = o.deleted \cup S
    BY <1>1, <1>2 DEF Overlays
  <1>4. n \in Overlays
    BY <1>1, <1>2 DEF Overlays
  <1> QED
    BY <1>2, <1>3, <1>4 DEF Tidy, Live, IsDeleted

LEMMA UnmarkKeeps ==
  ASSUME NEW o \in Overlays, NEW S
  PROVE  LET n == UnmarkDeleted(o, S)
         IN  /\ n \in Overlays
             /\ n.files = o.files /\ n.directories = o.directories /\ n.renames = o.renames
             /\ n.deleted \subseteq o.deleted
             /\ \A p \in S : ~IsDeleted(n, p)
  BY DEF UnmarkDeleted, Overlays, IsDeleted

\* Fewer tombstones leave what was right so.
LEMMA FewerTombstones ==
  ASSUME NEW o, NEW n, n.deleted \subseteq o.deleted,
         DOMAIN n.files \subseteq DOMAIN o.files, n.directories \subseteq o.directories,
         n.renames \subseteq o.renames
  PROVE  (Tidy(o) => Tidy(n)) /\ (Live(o) => Live(n))
  BY DEF Tidy, Live, IsDeleted

LEMMA SetFilesKeeps ==
  ASSUME NEW o \in Overlays, NEW content \in Trees
  PROVE  LET n == SetFiles(o, content)
         IN  /\ n \in Overlays
             /\ DOMAIN n.files = DOMAIN content \cup DOMAIN o.files
             /\ n.directories = o.directories \ DOMAIN content
             /\ n.deleted = {d \in o.deleted : \A p \in DOMAIN content : ~SameOrChild(p, d)}
             /\ n.renames = o.renames
             /\ \A p \in DOMAIN content : ~IsDeleted(n, p)
             /\ Tidy(o) => Tidy(n)
             /\ Live(o) => Live(n)
  <1> DEFINE m == UnmarkDeleted(o, DOMAIN content)
             n == SetFiles(o, content)
             files == Over(content, o.files)
  <1>1. n = [m EXCEPT !.files = Over(content, @), !.directories = @ \ DOMAIN content]
    BY DEF SetFiles
  <1>2. /\ m \in Overlays
        /\ m.files = o.files /\ m.directories = o.directories /\ m.renames = o.renames
        /\ m.deleted = {d \in o.deleted : \A p \in DOMAIN content : ~SameOrChild(p, d)}
        /\ \A p \in DOMAIN content : ~IsDeleted(m, p)
    BY UnmarkKeeps DEF UnmarkDeleted, Overlays
  <1> HIDE DEF m
  <1>3. files \in Trees /\ DOMAIN files = DOMAIN content \cup DOMAIN o.files
    BY OverTree DEF Overlays
  <1>4. n = [m EXCEPT !.files = files, !.directories = @ \ DOMAIN content]
    BY <1>1, <1>2
  <1> HIDE DEF files
  <1>5. /\ n.files = files /\ n.directories = o.directories \ DOMAIN content
        /\ n.renames = o.renames /\ n.deleted = m.deleted
    BY <1>2, <1>4 DEF Overlays
  <1>6. n \in Overlays
    BY <1>2, <1>3, <1>4 DEF Overlays
  <1> HIDE DEF n
  <1>7. \A p : IsDeleted(n, p) <=> IsDeleted(m, p)
    BY <1>5 DEF IsDeleted
  <1>8. \A p : IsDeleted(n, p) => IsDeleted(o, p)
    BY <1>2, <1>5 DEF IsDeleted
  <1>9. Tidy(o) => Tidy(n)
    BY <1>2, <1>3, <1>5, <1>7, <1>8 DEF Tidy
  <1>10. Live(o) => Live(n)
    BY <1>5, <1>8 DEF Live
  <1> QED
    BY <1>2, <1>3, <1>5, <1>6, <1>7, <1>9, <1>10 DEF n

LEMMA SetDirectoriesKeeps ==
  ASSUME NEW o \in Overlays, NEW S \in SUBSET Paths
  PROVE  LET n == SetDirectories(o, S)
         IN  /\ n \in Overlays
             /\ DOMAIN n.files = DOMAIN o.files \ S /\ n.directories = o.directories \cup S
             /\ n.deleted = o.deleted \ S /\ n.renames = o.renames
             /\ Tidy(o) => Tidy(n)
             /\ Live(o) => Live(n)
  <1> DEFINE n == SetDirectories(o, S)
             files == Without(o.files, S)
  <1>1. files \in Trees /\ DOMAIN files = DOMAIN o.files \ S
    BY WithoutTree DEF Overlays
  <1>2. n = [o EXCEPT !.directories = @ \cup S, !.files = files, !.deleted = @ \ S]
    BY DEF SetDirectories
  <1> HIDE DEF files
  <1>3. /\ n.files = files /\ n.directories = o.directories \cup S
        /\ n.renames = o.renames /\ n.deleted = o.deleted \ S
    BY <1>2 DEF Overlays
  <1>4. n \in Overlays
    BY <1>1, <1>2 DEF Overlays
  <1> QED
    BY <1>1, <1>3, <1>4 DEF Tidy, Live, IsDeleted

-----------------------------------------------------------------------------
(* Deleting and moving. *)

LEMMA DeleteFilesKeeps ==
  ASSUME NEW o \in Overlays, NEW S \in SUBSET Paths
  PROVE  LET n == DeleteFiles(o, S)
         IN  /\ n \in Overlays /\ n.deleted \subseteq o.deleted \cup S
             /\ DOMAIN n.files \subseteq DOMAIN o.files
             /\ Tidy(o) => Tidy(n)
             /\ Live(o) => Live(n)
  <1> DEFINE removed == RemoveOverlayPaths(o, S)
             marked == MarkDeleted(removed, S \cap DOMAIN base)
             n == UnmarkDeleted(marked, S \ DOMAIN base)
  <1>1. /\ removed \in Overlays /\ removed.deleted = o.deleted
        /\ DOMAIN removed.files \subseteq DOMAIN o.files
        /\ removed.directories \subseteq o.directories
        /\ removed.renames \subseteq o.renames
    BY RemoveKeeps
  <1>2. (Tidy(o) => Tidy(removed)) /\ (Live(o) => Live(removed))
    BY <1>1, FewerTombstones
  <1> HIDE DEF removed
  <1>3. /\ marked \in Overlays /\ marked.deleted = o.deleted \cup (S \cap DOMAIN base)
        /\ Tidy(o) => Tidy(marked)
        /\ Live(o) => Live(marked)
        /\ DOMAIN marked.files \subseteq DOMAIN removed.files
    BY <1>1, <1>2, MarkKeeps
  <1> HIDE DEF marked
  <1>4. /\ n \in Overlays /\ n.files = marked.files /\ n.directories = marked.directories
        /\ n.renames = marked.renames /\ n.deleted \subseteq marked.deleted
    BY <1>3, UnmarkKeeps
  <1>5. (Tidy(marked) => Tidy(n)) /\ (Live(marked) => Live(n))
    BY <1>4, FewerTombstones
  <1>6. DeleteFiles(o, S) = n
    BY DEF DeleteFiles, marked, removed
  <1> QED
    BY <1>1, <1>3, <1>4, <1>5, <1>6

LEMMA VisibleIsBelow ==
  ASSUME NEW o, NEW p, NEW q \in VisibleFiles(o, p) \cup VisibleDirectories(o, p)
  PROVE  q \in Paths /\ q \in Listed(o, p) /\ SameOrChild(q, p)
  BY DEF VisibleFiles, VisibleDirectories, Listed, SameOrChild, IsStrictPrefix

LEMMA DeletePathKeeps ==
  ASSUME NEW o \in Overlays, NEW p \in Paths
  PROVE  LET n == DeletePath(o, p)
         IN  /\ n \in Overlays
             /\ n.deleted \subseteq o.deleted \cup {q \in Paths : SameOrChild(q, p)}
             /\ DOMAIN n.files \subseteq DOMAIN o.files
             /\ Tidy(o) => Tidy(n)
             /\ Live(o) => Live(n)
  <1>1. CASE Stat(o, p) = "file"
    <2>1. DeletePath(o, p) = DeleteFiles(o, {p})
      BY <1>1 DEF DeletePath
    <2> QED
      BY <2>1, DeleteFilesKeeps, BelowItself
  <1>2. CASE Stat(o, p) # "file"
    <2> DEFINE V == VisibleFiles(o, p)
               emptied == DeleteFiles(o, V)
    <2>1. V \subseteq {q \in Paths : SameOrChild(q, p)}
      BY VisibleIsBelow
    <2> HIDE DEF V
    <2>2. /\ emptied \in Overlays
          /\ emptied.deleted \subseteq o.deleted \cup {q \in Paths : SameOrChild(q, p)}
          /\ DOMAIN emptied.files \subseteq DOMAIN o.files
          /\ (Tidy(o) => Tidy(emptied)) /\ (Live(o) => Live(emptied))
      BY <2>1, DeleteFilesKeeps
    <2>3. DeletePath(o, p) = IF Kind(base, p) = "directory" THEN MarkDeleted(emptied, {p})
                             ELSE RemoveOverlayPaths(emptied, {p})
      BY <1>2 DEF DeletePath, V
    <2> HIDE DEF emptied
    <2>4. CASE Kind(base, p) = "directory"
      BY <2>2, <2>3, <2>4, MarkKeeps, BelowItself
    <2>5. CASE Kind(base, p) # "directory"
      <3> DEFINE n == RemoveOverlayPaths(emptied, {p})
      <3>1. /\ n \in Overlays /\ n.deleted = emptied.deleted
            /\ DOMAIN n.files \subseteq DOMAIN emptied.files
            /\ n.directories \subseteq emptied.directories
            /\ n.renames \subseteq emptied.renames
        BY <2>2, RemoveKeeps
      <3>2. (Tidy(emptied) => Tidy(n)) /\ (Live(emptied) => Live(n))
        BY <3>1, FewerTombstones
      <3>3. DeletePath(o, p) = n
        BY <2>3, <2>5
      <3> QED
        BY <2>2, <3>1, <3>2, <3>3
    <2> QED
      BY <2>4, <2>5
  <1> QED
    BY <1>1, <1>2

LEMMA ReadType ==
  ASSUME base \in Trees, NEW o \in Overlays, NEW p \in Paths, Stat(o, p) = "file"
  PROVE  Read(o, p) \in Contents
  <1>1. p # Root
    BY WorkingTreeAssumption
  <1>2. p \in DOMAIN o.files \/ p \in DOMAIN base
    BY <1>1 DEF Stat, Kind
  <1>3. o.files \in Trees
    BY DEF Overlays
  <1> QED
    BY <1>2, <1>3, TreeMeaning DEF Read

LEMMA MovedBack ==
  ASSUME NEW f \in Paths, NEW from \in Paths, NEW to \in Paths, SameOrChild(f, from)
  PROVE  Moved(Moved(f, from, to), to, from) = f
  <1>1. f \in Seq(STRING) /\ from \in Seq(STRING) /\ to \in Seq(STRING)
    BY WorkingTreeAssumption
  <1>2. Len(from) <= Len(f) /\ \A i \in 1 .. Len(from) : from[i] = f[i]
    BY <1>1, PrefixMeaning
  <1>3. Len(f) \in Nat /\ Len(from) \in Nat /\ Len(to) \in Nat
    BY <1>1
  <1> DEFINE t == SubSeq(f, Len(from) + 1, Len(f))
             x == to \o t
  <1>4. /\ t \in Seq(STRING) /\ Len(t) = Len(f) - Len(from)
        /\ \A i \in 1 .. Len(t) : t[i] = f[Len(from) + i]
    BY <1>1, <1>2, <1>3
  <1> HIDE DEF t
  <1>9. Len(t) \in Nat
    BY <1>4
  <1>5. /\ x \in Seq(STRING) /\ Len(x) = Len(to) + Len(t)
        /\ \A i \in 1 .. Len(t) : x[Len(to) + i] = t[i]
    <2>1. t \in Seq(STRING)
      BY <1>4
    <2>2. /\ x \in Seq(STRING) /\ Len(x) = Len(to) + Len(t)
          /\ \A i \in 1 .. Len(to) + Len(t) :
                x[i] = IF i <= Len(to) THEN to[i] ELSE t[i - Len(to)]
      BY <1>1, <2>1, ConcatProperties
    <2> HIDE DEF x
    <2> QED
      BY <1>3, <1>9, <2>2
  <1> HIDE DEF x
  <1>6. SubSeq(x, Len(to) + 1, Len(x)) = t
    <2>1. Len(t) \in Nat
      BY <1>4
    <2>2. SubSeq(x, Len(to) + 1, Len(x)) \in Seq(STRING)
      BY <1>5, <1>3, <2>1
    <2>3. Len(SubSeq(x, Len(to) + 1, Len(x))) = Len(t)
      BY <1>5, <1>3, <2>1
    <2>4. \A i \in 1 .. Len(t) : SubSeq(x, Len(to) + 1, Len(x))[i] = t[i]
      BY <1>5, <1>3, <2>1
    <2> QED
      BY <1>4, <2>2, <2>3, <2>4, SeqEqual
  <1>7. from \o t = f
    <2>1. from \o t \in Seq(STRING) /\ Len(from \o t) = Len(f)
      BY <1>1, <1>3, <1>4
    <2>2. ASSUME NEW i \in 1 .. Len(f)
          PROVE  (from \o t)[i] = f[i]
      BY <1>1, <1>2, <1>3, <1>4
    <2> QED
      BY <1>1, <2>1, <2>2, SeqEqual
  <1>8. Moved(f, from, to) = x
    BY DEF Moved, x, t
  <1> QED
    BY <1>6, <1>7, <1>8 DEF Moved

LEMMA AddRenamesKeeps ==
  ASSUME NEW o \in Overlays, NEW files \in SUBSET Paths, NEW from, NEW to,
         \A f \in files : Moved(f, from, to) \in Paths
  PROVE  LET n == AddRenames(o, files, from, to)
         IN  /\ n \in Overlays
             /\ Tidy(o) => Tidy(n)
             /\ Live(o) /\ (\A f \in files : ~IsDeleted(o, Moved(f, from, to))) => Live(n)
  <1> DEFINE new == {[from |-> f, to |-> Moved(f, from, to)] : f \in files}
             n == AddRenames(o, files, from, to)
  <1>1. n = [o EXCEPT !.renames = @ \cup new]
    BY DEF AddRenames
  <1>2. new \subseteq RenameRecord
    BY DEF RenameRecord
  <1>3. \A r \in new : \E f \in files : r.to = Moved(f, from, to)
    OBVIOUS
  <1> HIDE DEF new
  <1>4. /\ n \in Overlays
        /\ n.files = o.files /\ n.directories = o.directories /\ n.deleted = o.deleted
        /\ n.renames = o.renames \cup new
    BY <1>1, <1>2 DEF Overlays
  <1> HIDE DEF n
  <1>5. \A p : IsDeleted(n, p) <=> IsDeleted(o, p)
    BY <1>4 DEF IsDeleted
  <1> QED
    BY <1>3, <1>4, <1>5 DEF Tidy, Live, n

LEMMA OnlyTree ==
  ASSUME NEW p \in Paths, NEW c \in Contents
  PROVE  Only(p, c) \in Trees /\ DOMAIN Only(p, c) = {p}
  BY TreeMeaning DEF Only

LEMMA MovedItself ==
  ASSUME NEW from \in Paths, NEW to \in Paths
  PROVE  Moved(from, from, to) = to
  <1>1. from \in Seq(STRING) /\ to \in Seq(STRING)
    BY WorkingTreeAssumption
  <1>2. SubSeq(from, Len(from) + 1, Len(from)) = << >>
    BY <1>1
  <1> QED
    BY <1>1, <1>2 DEF Moved

LEMMA MoveFileKeeps ==
  ASSUME base \in Trees, NEW o \in Overlays, NEW from \in Paths, NEW to \in Paths,
         Stat(o, from) = "file"
  PROVE  LET n == MoveFile(o, from, to)
         IN  /\ n \in Overlays
             /\ Tidy(o) => Tidy(n)
             /\ Live(o) => Live(n)
  <1> DEFINE deleted == DeleteFiles(o, {from})
             content == Only(to, Read(o, from))
             set == SetFiles(deleted, content)
  <1>1. /\ deleted \in Overlays
        /\ (Tidy(o) => Tidy(deleted)) /\ (Live(o) => Live(deleted))
    BY DeleteFilesKeeps
  <1>2. content \in Trees /\ DOMAIN content = {to}
    BY ReadType, OnlyTree
  <1> HIDE DEF deleted, content
  <1>3. /\ set \in Overlays /\ ~IsDeleted(set, to)
        /\ (Tidy(deleted) => Tidy(set)) /\ (Live(deleted) => Live(set))
    BY <1>1, <1>2, SetFilesKeeps
  <1> HIDE DEF set
  <1>4. MoveFile(o, from, to) = AddRenames(set, {from}, from, to)
    BY DEF MoveFile, set, content, deleted
  <1>5. \A f \in {from} : Moved(f, from, to) = to
    BY MovedItself
  <1> QED
    BY <1>1, <1>3, <1>4, <1>5, AddRenamesKeeps

\* Two names, as in the instance that TLC checks.  With three, a file can be
\* written below a file that took the place of a deleted directory, and a
\* directory moved onto the file above it.
Shallow == \A p \in Paths : Len(p) <= 2

\* A path whose parent is not the root has nothing below it.
LEMMA ShallowParent ==
  ASSUME Shallow, NEW p \in Paths, Front(p) # Root, NEW f \in Paths, SameOrChild(f, p)
  PROVE  f = p
  <1>1. f \in Seq(STRING) /\ p \in Seq(STRING) /\ Len(p) \in Nat /\ Len(f) \in Nat
    BY WorkingTreeAssumption
  <1>2. Len(p) <= Len(f) /\ \A i \in 1 .. Len(p) : p[i] = f[i]
    BY <1>1, PrefixMeaning
  <1>3. Len(f) <= 2
    BY DEF Shallow
  <1>4. Len(p) > 1
    <2>1. SUFFICES ASSUME Len(p) - 1 < 1
                   PROVE  FALSE
      BY <1>1
    <2>2. SubSeq(p, 1, Len(p) - 1) = << >>
      BY <1>1, <2>1, SubSeqEmpty
    <2> QED
      BY <2>2 DEF Front, Root
  <1>5. Len(p) = Len(f)
    <2>1. Len(p) <= Len(f)
      BY <1>2
    <2> QED
      BY <1>1, <1>3, <1>4, <2>1
  <1> QED
    BY <1>1, <1>2, <1>5, SeqEqual

LEMMA OneOrTwo ==
  /\ \A m, n \in Nat : m # 0 /\ m <= n /\ m # n /\ n <= 2 => m = 1 /\ n = 2
  /\ \A n \in Nat : n # 0 /\ n + 1 <= 2 => n = 1
  OBVIOUS

LEMMA ShallowMove ==
  ASSUME Shallow, NEW f \in Paths, NEW from \in Paths, NEW to \in Paths,
         SameOrChild(f, from), f # from,
         Moved(f, from, to) \in Paths, ~SameOrChild(to, from)
  PROVE  ~SameOrChild(Moved(f, from, to), from)
  <1>1. /\ f \in Seq(STRING) /\ from \in Seq(STRING) /\ to \in Seq(STRING)
        /\ f # << >> /\ from # << >> /\ to # << >>
    BY WorkingTreeAssumption DEF Root
  <1>2. /\ Len(f) \in Nat /\ Len(from) \in Nat /\ Len(to) \in Nat
        /\ Len(from) # 0 /\ Len(to) # 0
    BY <1>1, EmptySeq
  <1>3. Len(from) <= Len(f) /\ \A i \in 1 .. Len(from) : from[i] = f[i]
    BY <1>1, PrefixMeaning
  <1>4. Len(from) # Len(f)
    BY <1>1, <1>2, <1>3, SeqEqual
  <1>5. Len(from) = 1 /\ Len(f) = 2
    <2>1. Len(f) <= 2
      BY DEF Shallow
    <2>2. Len(from) <= Len(f)
      BY <1>3
    <2> QED
      BY <1>2, <1>4, <2>1, <2>2, OneOrTwo
  <1> DEFINE t == SubSeq(f, 2, 2)
             x == to \o t
  <1>6. t \in Seq(STRING) /\ Len(t) = 1
    <2>1. 2 \in 1 .. Len(f)
      BY <1>5
    <2>2. f[2] \in STRING
      BY <1>1, <2>1, ElementOfSeq
    <2>3. \A i \in 2 .. 2 : f[i] \in STRING
      BY <2>2
    <2> QED
      BY <2>3, SubSeqProperties
  <1> HIDE DEF t
  <1>7. x \in Seq(STRING) /\ Len(x) = Len(to) + 1 /\ x[1] = to[1]
    <2>1. /\ x \in Seq(STRING) /\ Len(x) = Len(to) + Len(t)
          /\ \A i \in 1 .. Len(to) + Len(t) :
                x[i] = IF i <= Len(to) THEN to[i] ELSE t[i - Len(to)]
      BY <1>1, <1>6, ConcatProperties
    <2> HIDE DEF x
    <2> QED
      BY <1>2, <1>6, <2>1
  <1>8. Moved(f, from, to) = x
    BY <1>5 DEF Moved, x, t
  <1> HIDE DEF x
  <1>9. Len(to) = 1
    <2>1. x \in Paths
      BY <1>8
    <2>2. Len(x) <= 2
      BY <2>1 DEF Shallow
    <2> QED
      BY <1>2, <1>7, <2>2, OneOrTwo
  <1>10. from[1] # to[1]
    BY <1>1, <1>5, <1>9, PrefixMeaning
  <1> QED
    BY <1>1, <1>5, <1>7, <1>8, <1>10, PrefixMeaning

LEMMA MoveDirectoryKeeps ==
  ASSUME base \in Trees, NEW o \in Overlays, NEW from \in Paths, NEW to \in Paths,
         ~SameOrChild(to, from),
         \A q \in Listed(o, from) : Moved(q, from, to) \in Paths
  PROVE  LET n == MoveDirectory(o, from, to)
         IN  /\ n \in Overlays
             /\ Tidy(o) => Tidy(n)
             /\ Shallow /\ Live(o) => Live(n)
  <1> DEFINE files == VisibleFiles(o, from)
             targets == {Moved(f, from, to) : f \in files}
             directories == MovedDirectories(o, from, to)
             marked == SetDirectories(o, directories)
             content == [p \in targets |-> Read(o, Moved(p, to, from))]
             copied == SetFiles(marked, content)
             deleted == DeletePath(copied, from)
  <1>1. \A f \in files : /\ f \in Paths /\ SameOrChild(f, from) /\ f # from
                         /\ Moved(f, from, to) \in Paths /\ Stat(o, f) = "file"
    BY VisibleIsBelow DEF VisibleFiles, Listed, IsStrictPrefix
  <1>2. directories \in SUBSET Paths
    BY VisibleIsBelow DEF MovedDirectories
  <1>3. content \in Trees /\ DOMAIN content = targets
    <2>1. targets \subseteq Paths
      BY <1>1
    <2>2. ASSUME NEW p \in targets
          PROVE  Read(o, Moved(p, to, from)) \in Contents
      <3>1. PICK f \in files : p = Moved(f, from, to)
        OBVIOUS
      <3>2. Moved(p, to, from) = f
        BY <1>1, <3>1, MovedBack
      <3> QED
        BY <1>1, <3>2, ReadType
    <2>3. content \in [targets -> Contents]
      BY <2>2
    <2> QED
      BY <2>1, <2>3 DEF Trees
  <1>4. /\ marked \in Overlays
        /\ (Tidy(o) => Tidy(marked)) /\ (Live(o) => Live(marked))
    BY <1>2, SetDirectoriesKeeps
  <1>5. MoveDirectory(o, from, to) = AddRenames(deleted, files, from, to)
    BY DEF MoveDirectory
  <1> HIDE DEF marked, content
  <1>6. /\ copied \in Overlays
        /\ (Tidy(marked) => Tidy(copied)) /\ (Live(marked) => Live(copied))
        /\ \A p \in targets : ~IsDeleted(copied, p)
    BY <1>3, <1>4, SetFilesKeeps
  <1> HIDE DEF copied
  <1>7. /\ deleted \in Overlays
        /\ (Tidy(copied) => Tidy(deleted)) /\ (Live(copied) => Live(deleted))
        /\ deleted.deleted \subseteq copied.deleted \cup {q \in Paths : SameOrChild(q, from)}
    BY <1>6, DeletePathKeeps
  <1> HIDE DEF deleted
  <1>8. ASSUME Shallow, NEW f \in files
        PROVE  ~IsDeleted(deleted, Moved(f, from, to))
    <2>1. SUFFICES ASSUME NEW d \in deleted.deleted, SameOrChild(Moved(f, from, to), d)
                   PROVE  FALSE
      BY DEF IsDeleted
    <2>2. d \notin copied.deleted
      BY <1>6, <2>1 DEF IsDeleted
    <2>3. d \in Paths /\ SameOrChild(d, from)
      BY <1>7, <2>2
    <2>4. SameOrChild(Moved(f, from, to), from)
      BY <1>1, <2>1, <2>3, BelowBelow
    <2> QED
      BY <1>1, <1>8, <2>4, ShallowMove
  <1>9. \A f \in files : f \in Paths /\ Moved(f, from, to) \in Paths
    BY <1>1
  <1> HIDE DEF files
  <1> DEFINE n == AddRenames(deleted, files, from, to)
  <1>10. n \in Overlays /\ (Tidy(deleted) => Tidy(n))
    BY <1>7, <1>9, AddRenamesKeeps
  <1>11. Shallow /\ Live(deleted) => Live(n)
    BY <1>7, <1>8, <1>9, AddRenamesKeeps
  <1> QED
    BY <1>4, <1>5, <1>6, <1>7, <1>10, <1>11

-----------------------------------------------------------------------------
(* The layers agree. *)

\* Nothing at or above p is disputed.
Free(p, D) == \A d \in D : ~SameOrChild(p, d)

\* p is a file of a layer that no tombstone hides.
Shown(t, o, p) == p \in DOMAIN o.files \cup DOMAIN t /\ ~IsDeleted(o, p)

\* A layer says that a is a directory, and no file of the overlay says otherwise.
IsFolder(t, o, a) ==
    /\ a \notin DOMAIN o.files
    /\ a \in o.directories \/ \E f \in DOMAIN t : Under(f, a)

\* At p the overlay fits the tree: no directory marker is on one of its files,
\* such a file is deleted by a tombstone of its own, which a publication takes,
\* and what is above a file that is shown is a directory.
Fits(t, o, p) ==
    /\ p \in DOMAIN t => p \notin o.directories
    /\ p \in DOMAIN t /\ IsDeleted(o, p) => p \in o.deleted
    /\ Shown(t, o, p) => \A a \in Paths : Under(p, a) => IsFolder(t, o, a)

\* The tree has no file below a file, unless everything is disputed.
Flat(t, D) == Root \notin D => \A f, g \in DOMAIN t : ~Under(f, g)

Layers(t, o, D) == Flat(t, D) /\ \A p \in Paths : Free(p, D) => Fits(t, o, p)

LEMMA FreeMeans ==
  ASSUME NEW D \in SUBSET (Paths \cup {Root}), NEW p \in Paths, Free(p, D)
  PROVE  Root \notin D /\ \A a \in Paths : SameOrChild(p, a) => Free(a, D)
  <1>1. p \in Seq(STRING) /\ Root \in Seq(STRING) /\ Len(Root) = 0 /\ Len(p) \in Nat
    BY WorkingTreeAssumption DEF Root
  <1>2. Len(Root) <= Len(p) /\ \A i \in 1 .. Len(Root) : Root[i] = p[i]
    BY <1>1
  <1>3. SameOrChild(p, Root)
    BY <1>1, <1>2, PrefixMeaning
  <1>4. Root \notin D
    BY <1>3 DEF Free
  <1>5. ASSUME NEW a \in Paths, SameOrChild(p, a), NEW d \in D, SameOrChild(a, d)
        PROVE  FALSE
    <2>1. d \in Paths
      BY <1>4, <1>5
    <2> QED
      BY <1>5, <2>1, BelowBelow DEF Free
  <1> QED
    BY <1>4, <1>5 DEF Free

LEMMA MoreDisputed ==
  ASSUME NEW t, NEW o, NEW D, NEW E, D \subseteq E, Layers(t, o, D)
  PROVE  Layers(t, o, E)
  <1>1. \A p : Free(p, E) => Free(p, D)
    BY DEF Free
  <1> QED
    BY <1>1 DEF Layers, Flat

\* An overlay without changes fits every tree without a file below a file.
LEMMA CleanFits ==
  ASSUME NEW t, DOMAIN t \subseteq Paths, NEW o, ~HasChanges(o), NEW D, Flat(t, D)
  PROVE  Layers(t, o, D)
  <1>1. o.deleted = {} /\ o.directories = {} /\ DOMAIN o.files = {}
    BY DEF HasChanges
  <1>2. \A p : ~IsDeleted(o, p)
    BY <1>1 DEF IsDeleted
  <1>3. ASSUME NEW p \in Paths, Shown(t, o, p), NEW a \in Paths, Under(p, a)
        PROVE  IsFolder(t, o, a)
    BY <1>1, <1>3 DEF Shown, IsFolder
  <1> QED
    BY <1>1, <1>2, <1>3 DEF Layers, Fits

LEMMA RemoveFits ==
  ASSUME NEW t, NEW o \in Overlays, NEW S \in SUBSET Paths, NEW p \in Paths, Fits(t, o, p)
  PROVE  /\ Fits(t, RemoveOverlayPaths(o, S), p)
         /\ Shown(t, RemoveOverlayPaths(o, S), p) => Shown(t, o, p)
  <1> DEFINE n == RemoveOverlayPaths(o, S)
  <1>1. /\ n.deleted = o.deleted
        /\ DOMAIN n.files = {f \in DOMAIN o.files : \A s \in S : ~SameOrChild(f, s)}
        /\ n.directories = {d \in o.directories : \A s \in S : ~SameOrChild(d, s)}
    BY RemoveKeeps
  <1> HIDE DEF n
  <1>2. IsDeleted(n, p) <=> IsDeleted(o, p)
    BY <1>1 DEF IsDeleted
  <1>3. Shown(t, n, p) => Shown(t, o, p)
    BY <1>1, <1>2 DEF Shown
  <1>4. ASSUME Shown(t, n, p), NEW a \in Paths, Under(p, a)
        PROVE  IsFolder(t, n, a)
    <2>1. IsFolder(t, o, a)
      BY <1>3, <1>4 DEF Fits
    <2>2. CASE p \in DOMAIN t
      BY <1>1, <1>4, <2>1, <2>2 DEF IsFolder
    <2>3. CASE p \in DOMAIN n.files
      <3>1. ASSUME NEW s \in S, SameOrChild(a, s)
            PROVE  FALSE
        <4>1. SameOrChild(p, s)
          BY <1>4, <3>1, BelowBelow DEF Under
        <4> QED
          BY <1>1, <2>3, <4>1
      <3> QED
        BY <1>1, <2>1, <3>1 DEF IsFolder
    <2> QED
      BY <1>4, <2>2, <2>3 DEF Shown
  <1>5. /\ p \in DOMAIN t => p \notin n.directories
        /\ p \in DOMAIN t /\ IsDeleted(n, p) => p \in n.deleted
    BY <1>1, <1>2 DEF Fits
  <1> QED
    BY <1>3, <1>4, <1>5 DEF Fits, n

\* A tombstone above a file of the tree may come only with its own.
LEMMA MarkFits ==
  ASSUME NEW t, NEW o \in Overlays, NEW S \in SUBSET Paths, NEW p \in Paths, Fits(t, o, p),
         p \in DOMAIN t /\ (\E s \in S : SameOrChild(p, s)) => p \in o.deleted \cup S
  PROVE  /\ Fits(t, MarkDeleted(o, S), p)
         /\ Shown(t, MarkDeleted(o, S), p) => Shown(t, o, p)
  <1> DEFINE m == RemoveOverlayPaths(o, S)
             n == MarkDeleted(o, S)
  <1>1. n = [m EXCEPT !.deleted = @ \cup S]
    BY DEF MarkDeleted
  <1>2. /\ Fits(t, m, p) /\ (Shown(t, m, p) => Shown(t, o, p))
        /\ m \in Overlays /\ m.deleted = o.deleted
    BY RemoveFits, RemoveKeeps
  <1> HIDE DEF m
  <1>3. n.files = m.files /\ n.directories = m.directories /\ n.deleted = o.deleted \cup S
    BY <1>1, <1>2 DEF Overlays
  <1> HIDE DEF n
  <1>4. IsDeleted(n, p) <=> IsDeleted(m, p) \/ \E s \in S : SameOrChild(p, s)
    BY <1>2, <1>3 DEF IsDeleted
  <1>5. Shown(t, n, p) => Shown(t, m, p)
    BY <1>3, <1>4 DEF Shown
  <1>6. \A a : IsFolder(t, m, a) => IsFolder(t, n, a)
    BY <1>3 DEF IsFolder
  <1>7. p \in DOMAIN t => p \notin n.directories
    BY <1>2, <1>3 DEF Fits
  <1>8. p \in DOMAIN t /\ IsDeleted(n, p) => p \in n.deleted
    BY <1>2, <1>3, <1>4 DEF Fits
  <1> QED
    BY <1>2, <1>5, <1>6, <1>7, <1>8 DEF Fits, n

\* A tombstone may go only where the overlay has no file above.
LEMMA UnmarkFits ==
  ASSUME NEW t, NEW o \in Overlays, Tidy(o), NEW S \in SUBSET Paths, NEW p \in Paths,
         Fits(t, o, p),
         ASSUME p \in DOMAIN t, p \in o.deleted, NEW s \in S, SameOrChild(s, p),
                NEW a \in Paths, Under(p, a)
         PROVE  a \notin DOMAIN o.files
  PROVE  Fits(t, UnmarkDeleted(o, S), p)
  <1> DEFINE n == UnmarkDeleted(o, S)
  <1>1. /\ n.files = o.files /\ n.directories = o.directories
        /\ n.deleted = {d \in o.deleted : \A s \in S : ~SameOrChild(s, d)}
        /\ o.deleted \subseteq Paths
    BY DEF UnmarkDeleted, Overlays
  <1> HIDE DEF n
  <1>2. p \in DOMAIN t => p \notin n.directories
    BY <1>1 DEF Fits
  <1>3. ASSUME p \in DOMAIN t, IsDeleted(n, p)
        PROVE  p \in n.deleted
    <2>1. PICK d \in n.deleted : SameOrChild(p, d)
      BY <1>3 DEF IsDeleted
    <2>2. p \in o.deleted
      BY <1>1, <1>3, <2>1 DEF Fits, IsDeleted
    <2>3. \A s \in S : ~SameOrChild(s, p)
      BY <1>1, <2>1, BelowBelow
    <2> QED
      BY <1>1, <2>2, <2>3
  <1>4. ASSUME Shown(t, n, p), NEW a \in Paths, Under(p, a)
        PROVE  IsFolder(t, n, a)
    <2>1. CASE Shown(t, o, p)
      BY <1>1, <1>4, <2>1 DEF Fits, IsFolder
    <2>2. CASE ~Shown(t, o, p)
      <3>1. IsDeleted(o, p)
        BY <1>1, <1>4, <2>2 DEF Shown
      <3>2. p \in DOMAIN t
        BY <1>1, <1>4, <3>1 DEF Shown, Tidy
      <3>3. p \in o.deleted
        BY <3>1, <3>2 DEF Fits
      <3>4. p \notin n.deleted
        BY <1>4, BelowItself DEF Shown, IsDeleted
      <3>5. PICK s \in S : SameOrChild(s, p)
        BY <1>1, <3>3, <3>4
      <3>6. a \notin DOMAIN o.files
        BY <1>4, <3>2, <3>3, <3>5
      <3> QED
        BY <1>1, <1>4, <3>2, <3>6 DEF IsFolder
    <2> QED
      BY <2>1, <2>2
  <1> QED
    BY <1>2, <1>3, <1>4 DEF Fits, n

\* Files may be written below directories, where none is shown below them.
LEMMA SetFilesFits ==
  ASSUME NEW t, NEW o \in Overlays, Tidy(o), NEW content \in Trees, NEW p \in Paths,
         Fits(t, o, p),
         p \in DOMAIN content =>
             \A a \in Paths : Under(p, a) => a \notin DOMAIN content /\ IsFolder(t, o, a),
         p \notin DOMAIN content /\ Shown(t, o, p) => \A s \in DOMAIN content : ~Under(p, s),
         \A s \in DOMAIN content, d \in o.deleted : ~Under(s, d)
  PROVE  Fits(t, SetFiles(o, content), p)
  <1> DEFINE S == DOMAIN content
             n == SetFiles(o, content)
  <1>1. /\ DOMAIN n.files = S \cup DOMAIN o.files /\ n.directories = o.directories \ S
        /\ n.deleted = {d \in o.deleted : \A s \in S : ~SameOrChild(s, d)}
        /\ o.deleted \subseteq Paths /\ S \subseteq Paths
    BY SetFilesKeeps, TreeMeaning DEF Overlays
  <1> HIDE DEF n
  <1>2. p \in DOMAIN t => p \notin n.directories
    BY <1>1 DEF Fits
  <1>3. ASSUME p \in DOMAIN t, IsDeleted(n, p)
        PROVE  p \in n.deleted
    <2>1. PICK d \in n.deleted : SameOrChild(p, d)
      BY <1>3 DEF IsDeleted
    <2>2. p \in o.deleted
      BY <1>1, <1>3, <2>1 DEF Fits, IsDeleted
    <2>3. \A s \in S : ~SameOrChild(s, p)
      BY <1>1, <2>1, BelowBelow
    <2> QED
      BY <1>1, <2>2, <2>3
  <1>4. ASSUME Shown(t, n, p), NEW a \in Paths, Under(p, a)
        PROVE  IsFolder(t, n, a)
    <2>1. CASE p \in S
      BY <1>1, <1>4, <2>1 DEF IsFolder
    <2>2. CASE p \notin S
      <3>1. p \in DOMAIN o.files \cup DOMAIN t
        BY <1>1, <1>4, <2>2 DEF Shown
      <3>2. Shown(t, o, p)
        <4>1. SUFFICES ASSUME IsDeleted(o, p)
                       PROVE  FALSE
          BY <3>1 DEF Shown
        <4>2. p \in DOMAIN t /\ p \in o.deleted
          BY <3>1, <4>1 DEF Tidy, Fits
        <4>3. p \notin n.deleted
          BY <1>4, BelowItself DEF Shown, IsDeleted
        <4>4. PICK s \in S : SameOrChild(s, p)
          BY <1>1, <4>2, <4>3
        <4> QED
          BY <2>2, <4>2, <4>4 DEF Under
      <3>3. IsFolder(t, o, a) /\ a \notin S
        BY <1>4, <2>2, <3>2 DEF Fits
      <3> QED
        BY <1>1, <3>3 DEF IsFolder
    <2> QED
      BY <2>1, <2>2
  <1> QED
    BY <1>2, <1>3, <1>4 DEF Fits, n

\* A directory may be made anywhere but on a file of the tree.
LEMMA SetDirectoriesFits ==
  ASSUME NEW t, NEW o \in Overlays, Tidy(o), NEW S \in SUBSET Paths, NEW p \in Paths,
         Fits(t, o, p), p \in DOMAIN t => p \notin S
  PROVE  /\ Fits(t, SetDirectories(o, S), p)
         /\ Shown(t, SetDirectories(o, S), p) => Shown(t, o, p)
  <1> DEFINE n == SetDirectories(o, S)
  <1>1. /\ DOMAIN n.files = DOMAIN o.files \ S /\ n.directories = o.directories \cup S
        /\ n.deleted = o.deleted \ S
    BY SetDirectoriesKeeps
  <1> HIDE DEF n
  <1>2. p \in DOMAIN t => p \notin n.directories
    BY <1>1 DEF Fits
  <1>3. p \in DOMAIN t /\ IsDeleted(n, p) => p \in n.deleted
    BY <1>1 DEF Fits, IsDeleted
  <1>4. ASSUME Shown(t, n, p)
        PROVE  Shown(t, o, p)
    <2>1. p \in DOMAIN o.files \cup DOMAIN t
      BY <1>1, <1>4 DEF Shown
    <2>2. SUFFICES ASSUME IsDeleted(o, p)
                   PROVE  FALSE
      BY <2>1 DEF Shown
    <2>3. p \in DOMAIN t /\ p \in o.deleted
      BY <2>1, <2>2 DEF Tidy, Fits
    <2>4. p \in n.deleted
      BY <1>1, <2>3
    <2> QED
      BY <1>4, <2>4, BelowItself DEF Shown, IsDeleted
  <1>5. ASSUME Shown(t, n, p), NEW a \in Paths, Under(p, a)
        PROVE  IsFolder(t, n, a)
    <2>1. IsFolder(t, o, a)
      BY <1>4, <1>5 DEF Fits
    <2> QED
      BY <1>1, <2>1 DEF IsFolder
  <1> QED
    BY <1>2, <1>3, <1>4, <1>5 DEF Fits, n

\* Deleting shown files, none below another, leaves the tombstones of those that
\* the base has, and hides them.
LEMMA DeleteFilesFits ==
  ASSUME base \in Trees, NEW o \in Overlays, Tidy(o), NEW D \in SUBSET (Paths \cup {Root}),
         Layers(base, o, D), NEW S \in SUBSET Paths, \A s \in S : ~IsDeleted(o, s),
         \A s, u \in S : ~Under(s, u)
  PROVE  LET n == DeleteFiles(o, S)
         IN  /\ Layers(base, n, D)
             /\ n.deleted = o.deleted \cup (S \cap DOMAIN base)
             /\ \A d \in o.directories : (\A s \in S : ~SameOrChild(d, s)) => d \in n.directories
             /\ \A p \in Paths : Shown(base, n, p) => Shown(base, o, p) /\ p \notin S
  <1> DEFINE r == RemoveOverlayPaths(o, S)
             m == MarkDeleted(r, S \cap DOMAIN base)
             n == UnmarkDeleted(m, S \ DOMAIN base)
  <1>1. DeleteFiles(o, S) = n
    BY DEF DeleteFiles
  <1>2. /\ r \in Overlays /\ r.deleted = o.deleted
        /\ DOMAIN r.files = {f \in DOMAIN o.files : \A s \in S : ~SameOrChild(f, s)}
        /\ r.directories = {d \in o.directories : \A s \in S : ~SameOrChild(d, s)}
    BY RemoveKeeps
  <1>3. Tidy(r)
    <2>1. DOMAIN r.files \subseteq DOMAIN o.files /\ r.directories \subseteq o.directories
      BY <1>2
    <2> HIDE DEF r
    <2> QED
      BY <1>2, <2>1 DEF Tidy, IsDeleted
  <1>4. ASSUME NEW p \in Paths, Free(p, D)
        PROVE  Fits(base, r, p)
    BY <1>4, RemoveFits DEF Layers
  <1> HIDE DEF r
  <1>5. /\ m \in Overlays /\ m.deleted = o.deleted \cup (S \cap DOMAIN base) /\ Tidy(m)
        /\ DOMAIN m.files \subseteq DOMAIN r.files
    BY <1>2, <1>3, MarkKeeps
  <1>6. m.directories = r.directories
    <2>1. \A d \in r.directories : \A s \in S \cap DOMAIN base : ~SameOrChild(d, s)
      BY <1>2
    <2>2. LET x == RemoveOverlayPaths(r, S \cap DOMAIN base)
          IN  /\ x \in Overlays
              /\ x.directories =
                    {d \in r.directories : \A s \in S \cap DOMAIN base : ~SameOrChild(d, s)}
      BY <1>2, RemoveKeeps
    <2> DEFINE x == RemoveOverlayPaths(r, S \cap DOMAIN base)
    <2>3. m = [x EXCEPT !.deleted = @ \cup (S \cap DOMAIN base)] /\ x \in Overlays
      BY <2>2 DEF MarkDeleted
    <2> HIDE DEF x, m
    <2>4. m.directories = x.directories
      BY <2>3 DEF Overlays
    <2> QED
      BY <2>1, <2>2, <2>4 DEF x
  <1>7. ASSUME NEW p \in Paths, Free(p, D)
        PROVE  Fits(base, m, p)
    <2>1. ASSUME p \in DOMAIN base, NEW s \in S \cap DOMAIN base, SameOrChild(p, s)
          PROVE  p \in S
      BY <1>7, <2>1, FreeMeans DEF Layers, Flat, Under
    <2> QED
      BY <1>2, <1>4, <1>7, <2>1, MarkFits
  <1> HIDE DEF m
  <1>8. /\ n \in Overlays /\ n.files = m.files /\ n.directories = m.directories
        /\ n.deleted = {d \in m.deleted : \A s \in S \ DOMAIN base : ~SameOrChild(s, d)}
    BY <1>5, UnmarkKeeps DEF UnmarkDeleted, Overlays
  <1>9. ASSUME NEW s \in S \ DOMAIN base, NEW d \in m.deleted
        PROVE  ~SameOrChild(s, d)
    <2>1. CASE d \in o.deleted
      BY <2>1 DEF IsDeleted
    <2>2. CASE d \in S \cap DOMAIN base
      BY <2>2 DEF Under
    <2> QED
      BY <1>5, <2>1, <2>2
  <1>10. n.deleted = m.deleted
    BY <1>8, <1>9
  <1>11. ASSUME NEW p \in Paths, Free(p, D)
         PROVE  Fits(base, n, p)
    BY <1>5, <1>7, <1>9, <1>11, UnmarkFits
  <1> HIDE DEF n
  <1>12. Layers(base, n, D)
    BY <1>11 DEF Layers
  <1>13. ASSUME NEW p \in Paths, Shown(base, n, p)
         PROVE  Shown(base, o, p) /\ p \notin S
    <2>1. ~IsDeleted(n, p) /\ p \in DOMAIN r.files \cup DOMAIN base
      BY <1>5, <1>8, <1>13 DEF Shown
    <2>2. ~IsDeleted(o, p) /\ p \notin S \cap DOMAIN base
      BY <1>5, <1>10, <2>1, BelowItself DEF IsDeleted
    <2>3. p \in DOMAIN r.files => p \in DOMAIN o.files /\ p \notin S
      BY <1>2, BelowItself
    <2> QED
      BY <2>1, <2>2, <2>3 DEF Shown
  <1> QED
    BY <1>1, <1>2, <1>5, <1>6, <1>8, <1>10, <1>12, <1>13

-----------------------------------------------------------------------------
(* What is shown, and deleting it. *)

LEMMA StatIs ==
  ASSUME NEW o, NEW p \in Paths
  PROVE  Stat(o, p) = IF IsDeleted(o, p) THEN "none"
                      ELSE IF p \in DOMAIN o.files THEN "file"
                      ELSE IF p \in o.directories THEN "directory"
                      ELSE Kind(base, p)
  BY WorkingTreeAssumption DEF Stat

LEMMA KindIs ==
  ASSUME NEW t, DOMAIN t \subseteq Paths, NEW p \in Paths
  PROVE  /\ Kind(t, p) = "file" <=> p \in DOMAIN t
         /\ Kind(t, p) = "directory" <=> p \notin DOMAIN t /\ \E f \in DOMAIN t : Under(f, p)
  BY WorkingTreeAssumption DEF Kind, Under

\* At a free path the overlay and the base tell what is shown.
LEMMA FreeStat ==
  ASSUME base \in Trees, NEW o \in Overlays, NEW D \in SUBSET (Paths \cup {Root}),
         Layers(base, o, D), NEW p \in Paths, Free(p, D)
  PROVE  /\ Stat(o, p) = "file" <=> Shown(base, o, p)
         /\ IsFolder(base, o, p) /\ ~IsDeleted(o, p) => Stat(o, p) = "directory"
         /\ Shown(base, o, p) =>
               \A a \in Paths : Under(p, a) => Stat(o, a) = "directory"
  <1>1. DOMAIN base \subseteq Paths
    BY TreeMeaning
  <1>2. ASSUME NEW a \in Paths, Free(a, D)
        PROVE  /\ Stat(o, a) = "file" <=> Shown(base, o, a)
               /\ IsFolder(base, o, a) /\ ~IsDeleted(o, a) => Stat(o, a) = "directory"
    <2>1. a \in DOMAIN base => a \notin o.directories
      BY <1>2 DEF Layers, Fits
    <2>2. \A f \in DOMAIN base : Under(f, a) => a \notin DOMAIN base
      BY <1>2, FreeMeans DEF Layers, Flat
    <2> QED
      BY <1>1, <2>1, <2>2, StatIs, KindIs DEF Shown, IsFolder
  <1>3. ASSUME Shown(base, o, p), NEW a \in Paths, Under(p, a)
        PROVE  Stat(o, a) = "directory"
    <2>1. IsFolder(base, o, a) /\ Free(a, D)
      BY <1>3, FreeMeans DEF Layers, Fits, Under
    <2>2. ~IsDeleted(o, a)
      <3>1. \A d \in o.deleted : d \in Paths
        BY DEF Overlays
      <3> QED
        BY <1>3, <3>1, BelowBelow DEF Shown, IsDeleted, Under
    <2> QED
      BY <1>2, <2>1, <2>2
  <1> QED
    BY <1>2, <1>3

LEMMA ListedMeans ==
  ASSUME NEW o, NEW p \in Paths, NEW q \in Listed(o, p)
  PROVE  /\ q \in Paths /\ Under(q, p) /\ Stat(o, q) # "none"
         /\ \A a \in Paths : Under(q, a) /\ SameOrChild(a, p) => Stat(o, a) = "directory"
  <1>1. q \in Paths /\ Under(q, p) /\ Stat(o, q) # "none"
    BY DEF Listed, IsStrictPrefix, SameOrChild, Under
  <1>2. ASSUME NEW a \in Paths, Under(q, a), SameOrChild(a, p)
        PROVE  Stat(o, a) = "directory"
    <2>1. p \in Seq(STRING) /\ a \in Seq(STRING) /\ q \in Seq(STRING)
      BY <1>1, WorkingTreeAssumption
    <2>2. Len(p) <= Len(a)
      BY <1>2, <2>1, PrefixMeaning
    <2>3. Len(a) \in 1 .. Len(q) - 1 /\ a = SubSeq(q, 1, Len(a))
      BY <1>1, <1>2, UnderIsPart
    <2>4. Len(a) \in Len(p) .. Len(q) - 1
      BY <2>1, <2>2, <2>3
    <2> QED
      BY <2>3, <2>4 DEF Listed
  <1> QED
    BY <1>1, <1>2

LEMMA MeansListed ==
  ASSUME NEW o, NEW p \in Paths, NEW q \in Paths, Under(q, p), Stat(o, q) # "none",
         \A a \in Paths : Under(q, a) /\ SameOrChild(a, p) => Stat(o, a) = "directory"
  PROVE  q \in Listed(o, p)
  <1>1. IsStrictPrefix(p, q)
    BY DEF IsStrictPrefix, SameOrChild, Under
  <1>2. ASSUME NEW n \in Len(p) .. Len(q) - 1
        PROVE  Stat(o, SubSeq(q, 1, n)) = "directory"
    <2>1. /\ p \in Seq(STRING) /\ q \in Seq(STRING) /\ Len(p) \in Nat /\ Len(q) \in Nat
      BY WorkingTreeAssumption
    <2>2. Len(p) \in 1 .. Len(q) - 1 /\ p = SubSeq(q, 1, Len(p))
      BY UnderIsPart
    <2>3. n \in 1 .. Len(q) /\ n \in 0 .. Len(q) /\ n # Len(q) /\ Len(p) <= n
      BY <2>1, <2>2
    <2> DEFINE a == SubSeq(q, 1, n)
    <2>4. a \in Paths /\ Under(q, a)
      BY <2>1, <2>3, PartsArePaths, PartIsUnder
    <2>5. a \in Seq(STRING) /\ Len(a) = n /\ \A i \in 1 .. n : a[i] = q[i]
      BY <2>1, <2>3, Part
    <2> HIDE DEF a
    <2>6. \A i \in 1 .. Len(p) : p[i] = q[i]
      BY <2>1, PrefixMeaning DEF Under
    <2>7. Len(p) <= Len(a) /\ \A i \in 1 .. Len(p) : p[i] = a[i]
      BY <2>1, <2>3, <2>5, <2>6
    <2>8. SameOrChild(a, p)
      BY <2>1, <2>5, <2>7, PrefixMeaning
    <2> QED
      BY <2>4, <2>8 DEF a
  <1> QED
    BY <1>1, <1>2 DEF Listed

LEMMA DeletePathFits ==
  ASSUME base \in Trees, NEW o \in Overlays, Tidy(o), NEW D \in SUBSET (Paths \cup {Root}),
         Layers(base, o, D), NEW p \in Paths, Stat(o, p) # "none"
  PROVE  LET n == DeletePath(o, p)
         IN  /\ Layers(base, n, D)
             /\ \A d \in o.directories : ~SameOrChild(d, p) => d \in n.directories
             /\ \A q \in Paths : Free(q, D) /\ Shown(base, n, q) =>
                   Shown(base, o, q) /\ ~SameOrChild(q, p)
  <1>1. ~IsDeleted(o, p)
    BY StatIs
  <1>2. CASE Stat(o, p) = "file"
    <2> DEFINE n == DeleteFiles(o, {p})
    <2>1. DeletePath(o, p) = n
      BY <1>2 DEF DeletePath
    <2>2. /\ Layers(base, n, D)
          /\ \A d \in o.directories : ~SameOrChild(d, p) => d \in n.directories
          /\ \A q \in Paths : Shown(base, n, q) => Shown(base, o, q) /\ q # p
      BY <1>1, DeleteFilesFits DEF Under
    <2> HIDE DEF n
    <2>3. ASSUME NEW q \in Paths, Free(q, D), Shown(base, n, q), SameOrChild(q, p)
          PROVE  FALSE
      <3>1. Shown(base, o, q) /\ Under(q, p)
        BY <2>2, <2>3 DEF Under
      <3> QED
        BY <1>2, <2>3, <3>1, FreeStat
    <2> QED
      BY <2>1, <2>2, <2>3
  <1>3. CASE Stat(o, p) # "file"
    <2> DEFINE V == VisibleFiles(o, p)
               emptied == DeleteFiles(o, V)
    <2>1. \A q \in V : q \in Listed(o, p) /\ Stat(o, q) = "file"
      BY DEF VisibleFiles
    <2>2. \A q \in V : q \in Paths /\ Under(q, p) /\ ~IsDeleted(o, q)
      BY <2>1, ListedMeans, StatIs
    <2>3. \A q, u \in V : ~Under(q, u)
      BY <2>1, <2>2, ListedMeans DEF Under
    <2>4. ASSUME NEW q \in Paths, Free(q, D), Shown(base, o, q), SameOrChild(q, p)
          PROVE  q \in V
      <3>1. Stat(o, q) = "file" /\ \A a \in Paths : Under(q, a) => Stat(o, a) = "directory"
        BY <2>4, FreeStat
      <3>2. Under(q, p)
        BY <1>3, <2>4, <3>1 DEF Under
      <3>3. q \in Listed(o, p)
        BY <3>1, <3>2, MeansListed
      <3> QED
        BY <3>1, <3>3 DEF VisibleFiles
    <2> HIDE DEF V
    <2>5. /\ Layers(base, emptied, D)
          /\ emptied.deleted = o.deleted \cup (V \cap DOMAIN base)
          /\ \A d \in o.directories :
                (\A s \in V : ~SameOrChild(d, s)) => d \in emptied.directories
          /\ \A q \in Paths : Shown(base, emptied, q) => Shown(base, o, q) /\ q \notin V
      BY <2>2, <2>3, DeleteFilesFits
    <2>6. emptied \in Overlays
      BY <2>2, DeleteFilesKeeps
    <2>7. DeletePath(o, p) = IF Kind(base, p) = "directory" THEN MarkDeleted(emptied, {p})
                             ELSE RemoveOverlayPaths(emptied, {p})
      BY <1>3 DEF DeletePath, V
    <2> HIDE DEF emptied
    <2>8. ASSUME NEW q \in DOMAIN base, q \in Paths, Free(q, D), SameOrChild(q, p)
          PROVE  q \in emptied.deleted
      BY <2>4, <2>5, <2>8 DEF Layers, Fits, Shown
    <2>9. ASSUME NEW d \in o.directories, ~SameOrChild(d, p)
          PROVE  d \in emptied.directories
      <3>1. d \in Paths
        BY DEF Overlays
      <3>2. \A s \in V : ~SameOrChild(d, s)
        BY <2>2, <2>9, <3>1, BelowBelow DEF Under
      <3> QED
        BY <2>5, <3>2
    <2> DEFINE removed == RemoveOverlayPaths(emptied, {p})
               marked == MarkDeleted(emptied, {p})
    <2>10. /\ removed \in Overlays /\ removed.deleted = emptied.deleted
           /\ removed.directories = {d \in emptied.directories : ~SameOrChild(d, p)}
      <3>1. removed.directories = {d \in emptied.directories : \A s \in {p} : ~SameOrChild(d, s)}
        BY <2>6, RemoveKeeps
      <3> QED
        BY <2>6, <3>1, RemoveKeeps
    <2>11. marked.directories = removed.directories
      <3>1. marked = [removed EXCEPT !.deleted = @ \cup {p}]
        BY DEF MarkDeleted
      <3> HIDE DEF removed, marked
      <3> QED
        BY <2>10, <3>1 DEF Overlays
    <2>12. ASSUME NEW q \in Paths, Free(q, D)
           PROVE  /\ Fits(base, removed, q) /\ Fits(base, marked, q)
                  /\ Shown(base, removed, q) \/ Shown(base, marked, q)
                        => Shown(base, emptied, q)
      <3>1. Fits(base, emptied, q)
        BY <2>5, <2>12 DEF Layers
      <3> HIDE DEF removed, marked
      <3> QED
        BY <2>6, <2>8, <2>12, <3>1, RemoveFits, MarkFits DEF removed, marked
    <2> HIDE DEF removed, marked
    <2>13. ASSUME NEW n \in {removed, marked}
           PROVE  /\ Layers(base, n, D)
                  /\ \A d \in o.directories : ~SameOrChild(d, p) => d \in n.directories
                  /\ \A q \in Paths : Free(q, D) /\ Shown(base, n, q) =>
                        Shown(base, o, q) /\ ~SameOrChild(q, p)
      <3>1. Layers(base, n, D)
        BY <2>12, <2>13 DEF Layers
      <3>2. \A d \in o.directories : ~SameOrChild(d, p) => d \in n.directories
        BY <2>9, <2>10, <2>11, <2>13
      <3>3. \A q \in Paths : Free(q, D) /\ Shown(base, n, q) =>
                Shown(base, o, q) /\ ~SameOrChild(q, p)
        BY <2>4, <2>5, <2>12, <2>13
      <3> QED
        BY <3>1, <3>2, <3>3
    <2>14. DeletePath(o, p) \in {removed, marked}
      BY <2>7 DEF removed, marked
    <2> QED
      BY <2>13, <2>14
  <1> QED
    BY <1>2, <1>3

-----------------------------------------------------------------------------
(* Moving. *)

LEMMA SameLayers ==
  ASSUME NEW t, NEW o, NEW n, n.files = o.files, n.directories = o.directories,
         n.deleted = o.deleted, NEW p, Fits(t, o, p)
  PROVE  Fits(t, n, p)
  BY DEF Fits, Shown, IsFolder, IsDeleted

LEMMA AddRenamesFits ==
  ASSUME NEW t, NEW o \in Overlays, NEW files, NEW from, NEW to, NEW p, Fits(t, o, p)
  PROVE  Fits(t, AddRenames(o, files, from, to), p)
  <1> DEFINE n == AddRenames(o, files, from, to)
  <1>1. n.files = o.files /\ n.directories = o.directories /\ n.deleted = o.deleted
    BY DEF AddRenames, Overlays
  <1> HIDE DEF n
  <1>2. Fits(t, n, p)
    BY <1>1, SameLayers
  <1> QED
    BY <1>2 DEF n

\* x is `to` followed by what f has below `from`.
MovesTo(f, from, to, x) ==
  /\ x \in Seq(STRING) /\ Len(x) = Len(to) + (Len(f) - Len(from))
  /\ \A i \in 1 .. Len(to) : x[i] = to[i]
  /\ \A i \in 1 .. Len(f) - Len(from) : x[Len(to) + i] = f[Len(from) + i]

LEMMA MovedIs ==
  ASSUME NEW f \in Paths, NEW from \in Paths, NEW to \in Paths, SameOrChild(f, from)
  PROVE  MovesTo(f, from, to, Moved(f, from, to))
  <1>1. f \in Seq(STRING) /\ from \in Seq(STRING) /\ to \in Seq(STRING)
    BY WorkingTreeAssumption
  <1>2. /\ Len(from) \in Nat /\ Len(f) \in Nat /\ Len(to) \in Nat
        /\ Len(from) <= Len(f)
    BY <1>1, PrefixMeaning
  <1> DEFINE t == SubSeq(f, Len(from) + 1, Len(f))
             x == to \o t
  <1>3. /\ t \in Seq(STRING) /\ Len(t) = Len(f) - Len(from)
        /\ \A i \in 1 .. Len(f) - Len(from) : t[i] = f[Len(from) + i]
    BY <1>1, <1>2
  <1> HIDE DEF t
  <1>4. /\ x \in Seq(STRING) /\ Len(x) = Len(to) + Len(t)
        /\ \A i \in 1 .. Len(to) + Len(t) :
              x[i] = IF i <= Len(to) THEN to[i] ELSE t[i - Len(to)]
    BY <1>1, <1>3, ConcatProperties
  <1> HIDE DEF x
  <1>5. ASSUME NEW i \in 1 .. Len(to)
        PROVE  x[i] = to[i]
    <2>1. i \in 1 .. Len(to) + Len(t) /\ i <= Len(to)
      BY <1>2, <1>3
    <2> QED
      BY <1>4, <2>1
  <1>6. ASSUME NEW i \in 1 .. Len(f) - Len(from)
        PROVE  x[Len(to) + i] = f[Len(from) + i]
    <2>1. Len(to) + i \in 1 .. Len(to) + Len(t)
      BY <1>2, <1>3
    <2>2. ~(Len(to) + i <= Len(to)) /\ Len(to) + i - Len(to) = i
      BY <1>2
    <2> QED
      BY <1>3, <1>4, <2>1, <2>2
  <1>7. Moved(f, from, to) = x
    BY DEF Moved, x, t
  <1>8. MovesTo(f, from, to, x)
    BY <1>3, <1>4, <1>5, <1>6 DEF MovesTo
  <1> QED
    BY <1>7, <1>8

LEMMA MovedBelow ==
  ASSUME NEW f \in Paths, NEW from \in Paths, NEW to \in Paths, SameOrChild(f, from),
         Moved(f, from, to) \in Paths
  PROVE  SameOrChild(Moved(f, from, to), to)
  <1> DEFINE x == Moved(f, from, to)
  <1>0. MovesTo(f, from, to, x)
    BY MovedIs
  <1> HIDE DEF x
  <1>1. /\ x \in Seq(STRING) /\ Len(x) = Len(to) + (Len(f) - Len(from))
        /\ \A i \in 1 .. Len(to) : x[i] = to[i]
    BY <1>0 DEF MovesTo
  <1>2. f \in Seq(STRING) /\ from \in Seq(STRING) /\ to \in Seq(STRING)
    BY WorkingTreeAssumption
  <1>3. Len(from) <= Len(f)
    BY <1>2, PrefixMeaning
  <1>4. Len(f) \in Nat /\ Len(from) \in Nat /\ Len(to) \in Nat
    BY <1>2
  <1>5. Len(to) <= Len(x) /\ \A i \in 1 .. Len(to) : to[i] = x[i]
    BY <1>1, <1>3, <1>4
  <1>6. SameOrChild(x, to)
    BY <1>1, <1>2, <1>5, PrefixMeaning
  <1> QED
    BY <1>6 DEF x

\* What is between the target and a moved path was moved, too.
LEMMA MovedBetween ==
  ASSUME NEW f \in Paths, NEW from \in Paths, NEW to \in Paths, SameOrChild(f, from),
         Moved(f, from, to) \in Paths, NEW a \in Paths, Under(Moved(f, from, to), a),
         SameOrChild(a, to)
  PROVE  \E b \in Paths : Under(f, b) /\ SameOrChild(b, from) /\ a = Moved(b, from, to)
  <1> DEFINE x == Moved(f, from, to)
             n == Len(from) + (Len(a) - Len(to))
             b == SubSeq(f, 1, n)
             y == Moved(b, from, to)
  <1>1. f \in Seq(STRING) /\ from \in Seq(STRING) /\ to \in Seq(STRING) /\ a \in Seq(STRING)
    BY WorkingTreeAssumption
  <1>0. MovesTo(f, from, to, x) /\ x \in Paths /\ Under(x, a)
    BY MovedIs
  <1> HIDE DEF x
  <1>2. /\ x \in Seq(STRING) /\ Len(x) = Len(to) + (Len(f) - Len(from))
        /\ \A i \in 1 .. Len(to) : x[i] = to[i]
        /\ \A i \in 1 .. Len(f) - Len(from) : x[Len(to) + i] = f[Len(from) + i]
    BY <1>0 DEF MovesTo
  <1>3. Len(a) \in 1 .. Len(x) - 1
    BY <1>0, UnderIsPart
  <1>4. \A i \in 1 .. Len(a) : a[i] = x[i]
    BY <1>0, <1>1, <1>2, PrefixMeaning DEF Under
  <1>5. Len(to) <= Len(a) /\ Len(from) <= Len(f) /\ \A i \in 1 .. Len(from) : from[i] = f[i]
    BY <1>1, PrefixMeaning
  <1>6. /\ Len(f) \in Nat /\ Len(from) \in Nat /\ Len(to) \in Nat /\ Len(a) \in Nat
        /\ Len(from) # 0
    <2>1. from # << >>
      BY WorkingTreeAssumption DEF Root
    <2> QED
      BY <1>1, <2>1, EmptySeq
  <1>7. /\ n \in 1 .. Len(f) /\ n \in 0 .. Len(f) /\ n # Len(f) /\ Len(from) <= n
        /\ n - Len(from) = Len(a) - Len(to)
        /\ Len(to) + (n - Len(from)) = Len(a) /\ Len(a) - Len(to) \in Nat
        /\ Len(a) - Len(to) <= Len(f) - Len(from)
    BY <1>2, <1>3, <1>5, <1>6
  <1>8. b \in Paths /\ Under(f, b)
    BY <1>1, <1>7, PartsArePaths, PartIsUnder
  <1>9. b \in Seq(STRING) /\ Len(b) = n /\ \A i \in 1 .. n : b[i] = f[i]
    BY <1>1, <1>7, Part
  <1> HIDE DEF b, n
  <1>10. SameOrChild(b, from)
    <2>1. \A i \in 1 .. Len(from) : i \in 1 .. n
      BY <1>6, <1>7
    <2>2. Len(from) <= Len(b) /\ \A i \in 1 .. Len(from) : from[i] = b[i]
      BY <1>5, <1>7, <1>9, <2>1
    <2> QED
      BY <1>1, <1>9, <2>2, PrefixMeaning
  <1>11. /\ y \in Seq(STRING) /\ Len(y) = Len(to) + (Len(b) - Len(from))
         /\ \A i \in 1 .. Len(to) : y[i] = to[i]
         /\ \A i \in 1 .. Len(b) - Len(from) : y[Len(to) + i] = b[Len(from) + i]
    <2>1. MovesTo(b, from, to, y)
      BY <1>8, <1>10, MovedIs
    <2> QED
      BY <2>1 DEF MovesTo
  <1> HIDE DEF y
  <1>12. ASSUME NEW i \in 1 .. Len(a)
         PROVE  a[i] = y[i]
    <2>1. CASE i \in 1 .. Len(to)
      BY <1>2, <1>4, <1>11, <1>12, <2>1
    <2>2. CASE i \notin 1 .. Len(to)
      <3> DEFINE j == i - Len(to)
      <3>1. /\ j \in 1 .. Len(a) - Len(to) /\ i = Len(to) + j
            /\ j \in 1 .. Len(f) - Len(from) /\ Len(from) + j \in 1 .. n
        BY <1>6, <1>7, <1>12, <2>2
      <3> HIDE DEF j
      <3>2. a[i] = f[Len(from) + j]
        BY <1>2, <1>4, <1>12, <3>1
      <3>3. j \in 1 .. Len(b) - Len(from)
        BY <1>7, <1>9, <3>1
      <3>4. y[i] = b[Len(from) + j]
        BY <1>11, <3>1, <3>3
      <3> QED
        BY <1>9, <3>1, <3>2, <3>4
    <2> QED
      BY <2>1, <2>2
  <1>13. a = y
    BY <1>1, <1>7, <1>9, <1>11, <1>12, SeqEqual
  <1> QED
    BY <1>8, <1>10, <1>13 DEF y

LEMMA NoTombstoneAbove ==
  ASSUME NEW o \in Overlays, NEW p \in Paths, Stat(o, Front(p)) = "directory",
         NEW d \in o.deleted, Under(p, d)
  PROVE  FALSE
  <1>1. d \in Paths
    BY DEF Overlays
  <1>2. Front(p) \in Paths /\ SameOrChild(Front(p), d)
    BY <1>1, UnderParent
  <1> QED
    BY <1>2, StatIs DEF IsDeleted

LEMMA DirectoryIsFolder ==
  ASSUME base \in Trees, NEW o, NEW a \in Paths, Stat(o, a) = "directory"
  PROVE  IsFolder(base, o, a)
  <1>1. DOMAIN base \subseteq Paths
    BY TreeMeaning
  <1> QED
    BY <1>1, StatIs, KindIs DEF IsFolder

\* Nothing is in the place of a target that was free, or was deleted, but for
\* the directories above it.
Vacant(o, to, D, E) ==
    /\ \A q \in Paths : Free(q, D) /\ Shown(base, o, q) => ~SameOrChild(q, to)
    /\ \A d \in o.deleted : ~Under(to, d)
    /\ Free(to, E) => \A a \in Paths : Under(to, a) => IsFolder(base, o, a)

LEMMA TargetIsVacant ==
  ASSUME base \in Trees, NEW o \in Overlays, Tidy(o),
         NEW D \in SUBSET (Paths \cup {Root}), Layers(base, o, D), NEW E,
         NEW to \in Paths, Stat(o, Front(to)) = "directory",
         Free(to, E) => \A a \in Paths : Under(to, a) => Stat(o, a) = "directory"
  PROVE  LET n == IF Stat(o, to) = "none" THEN o ELSE DeletePath(o, to)
         IN  /\ n \in Overlays /\ Tidy(n) /\ Layers(base, n, D)
             /\ Vacant(n, to, D, E)
  <1> DEFINE n == IF Stat(o, to) = "none" THEN o ELSE DeletePath(o, to)
  <1>1. /\ n \in Overlays /\ Tidy(n) /\ DOMAIN n.files \subseteq DOMAIN o.files
        /\ n.deleted \subseteq o.deleted \cup {q \in Paths : SameOrChild(q, to)}
    BY DeletePathKeeps
  <1>2. /\ Layers(base, n, D)
        /\ \A d \in o.directories : ~SameOrChild(d, to) => d \in n.directories
    BY DeletePathFits
  <1>3. ASSUME NEW q \in Paths, Free(q, D), Shown(base, n, q), SameOrChild(q, to)
        PROVE  FALSE
    <2>1. CASE Stat(o, to) # "none"
      BY <1>3, <2>1, DeletePathFits
    <2>2. CASE Stat(o, to) = "none"
      <3>1. Shown(base, o, q)
        BY <1>3, <2>2
      <3>2. Stat(o, q) = "file" /\ \A a \in Paths : Under(q, a) => Stat(o, a) = "directory"
        BY <1>3, <3>1, FreeStat
      <3> QED
        BY <1>3, <2>2, <3>2 DEF Under
    <2> QED
      BY <2>1, <2>2
  <1> HIDE DEF n
  <1>4. ASSUME NEW d \in n.deleted, Under(to, d)
        PROVE  FALSE
    <2>1. d \notin o.deleted
      BY <1>4, NoTombstoneAbove
    <2>2. d \in Paths /\ SameOrChild(d, to)
      BY <1>1, <2>1
    <2> QED
      BY <1>4, <2>2, BelowBoth DEF Under
  <1>5. ASSUME Free(to, E), NEW a \in Paths, Under(to, a)
        PROVE  IsFolder(base, n, a)
    <2>1. IsFolder(base, o, a)
      BY <1>5, DirectoryIsFolder
    <2>2. ~SameOrChild(a, to)
      BY <1>5, BelowBoth DEF Under
    <2> QED
      BY <1>1, <1>2, <2>1, <2>2 DEF IsFolder
  <1>6. Vacant(n, to, D, E)
    BY <1>3, <1>4, <1>5 DEF Vacant
  <1> QED
    BY <1>1, <1>2, <1>6 DEF n

LEMMA MoveFileFits ==
  ASSUME base \in Trees, NEW o \in Overlays, Tidy(o),
         NEW D \in SUBSET (Paths \cup {Root}), Layers(base, o, D), NEW E, D \subseteq E,
         NEW from \in Paths, NEW to \in Paths, ~SameOrChild(to, from),
         Stat(o, from) = "file", Vacant(o, to, D, E)
  PROVE  Layers(base, MoveFile(o, from, to), E)
  <1> DEFINE deleted == DeleteFiles(o, {from})
             content == Only(to, Read(o, from))
             set == SetFiles(deleted, content)
  <1>1. content \in Trees /\ DOMAIN content = {to}
    BY ReadType, OnlyTree
  <1>2. /\ deleted \in Overlays /\ Tidy(deleted) /\ DOMAIN deleted.files \subseteq DOMAIN o.files
    BY DeleteFilesKeeps
  <1>3. ~IsDeleted(o, from)
    BY StatIs
  <1>4. /\ Layers(base, deleted, D)
        /\ deleted.deleted = o.deleted \cup ({from} \cap DOMAIN base)
        /\ \A d \in o.directories : ~SameOrChild(d, from) => d \in deleted.directories
        /\ \A p \in Paths : Shown(base, deleted, p) => Shown(base, o, p)
    BY <1>3, DeleteFilesFits DEF Under
  <1>5. MoveFile(o, from, to) = AddRenames(set, {from}, from, to)
    BY DEF MoveFile
  <1> HIDE DEF deleted, content
  <1>6. ASSUME NEW p \in Paths, Free(p, E)
        PROVE  Fits(base, set, p)
    <2>1. Free(p, D) /\ Fits(base, deleted, p)
      BY <1>4, <1>6 DEF Free, Layers
    <2>2. ASSUME p = to, NEW a \in Paths, Under(p, a)
          PROVE  a \notin {to} /\ IsFolder(base, deleted, a)
      <3>1. IsFolder(base, o, a)
        BY <1>6, <2>2 DEF Vacant
      <3>2. ~SameOrChild(a, from)
        BY <2>2, BelowBelow DEF Under
      <3> QED
        BY <1>2, <1>4, <2>2, <3>1, <3>2 DEF IsFolder, Under
    <2>3. Shown(base, deleted, p) => ~Under(p, to)
      BY <1>4, <2>1 DEF Vacant, Under
    <2>4. \A s \in {to}, d \in deleted.deleted : ~Under(s, d)
      BY <1>4 DEF Vacant, Under
    <2> QED
      BY <1>1, <1>2, <2>1, <2>2, <2>3, <2>4, SetFilesFits
  <1>7. set \in Overlays
    BY <1>1, <1>2, SetFilesKeeps
  <1> HIDE DEF set
  <1>8. \A p \in Paths : Free(p, E) => Fits(base, AddRenames(set, {from}, from, to), p)
    BY <1>6, <1>7, AddRenamesFits
  <1>9. Flat(base, E)
    BY DEF Layers, Flat
  <1> QED
    BY <1>5, <1>8, <1>9 DEF Layers

LEMMA MoveDirectoryFits ==
  ASSUME base \in Trees, NEW o \in Overlays, Tidy(o),
         NEW D \in SUBSET (Paths \cup {Root}), Layers(base, o, D),
         NEW E \in SUBSET (Paths \cup {Root}), D \subseteq E,
         NEW from \in Paths, NEW to \in Paths, ~SameOrChild(to, from),
         Stat(o, from) = "directory",
         \A q \in Listed(o, from) : Moved(q, from, to) \in Paths,
         Vacant(o, to, D, E), MovedDirectories(o, from, to) \cap DOMAIN base \subseteq E
  PROVE  Layers(base, MoveDirectory(o, from, to), E)
  <1> DEFINE files == VisibleFiles(o, from)
             targets == {Moved(f, from, to) : f \in files}
             directories == MovedDirectories(o, from, to)
             marked == SetDirectories(o, directories)
             content == [p \in targets |-> Read(o, Moved(p, to, from))]
             copied == SetFiles(marked, content)
             deleted == DeletePath(copied, from)
  <1>1. MoveDirectory(o, from, to) = AddRenames(deleted, files, from, to)
    BY DEF MoveDirectory
  <1>2. ASSUME NEW f \in files
        PROVE  /\ f \in Paths /\ Under(f, from) /\ Stat(o, f) = "file"
               /\ Moved(f, from, to) \in Paths
               /\ \A a \in Paths : Under(f, a) /\ SameOrChild(a, from) =>
                     Stat(o, a) = "directory"
    BY ListedMeans DEF VisibleFiles
  <1>3. targets \subseteq Paths /\ \A x \in targets : SameOrChild(x, to)
    BY <1>2, MovedBelow DEF Under
  <1>4. directories \in SUBSET Paths
    BY VisibleIsBelow DEF MovedDirectories
  \* A directory is no target of a file.
  <1>5. ASSUME NEW b \in Paths, SameOrChild(b, from), Stat(o, b) = "directory"
        PROVE  Moved(b, from, to) \notin targets
    <2>1. SUFFICES ASSUME NEW h \in files, Moved(b, from, to) = Moved(h, from, to)
                   PROVE  FALSE
      OBVIOUS
    <2>2. Moved(Moved(b, from, to), to, from) = b
      BY <1>5, MovedBack
    <2>3. Moved(Moved(h, from, to), to, from) = h
      BY <1>2, MovedBack DEF Under
    <2> QED
      BY <1>2, <1>5, <2>1, <2>2, <2>3
  \* The directories above a target are made, or were above.
  <1>6. ASSUME NEW x \in targets, NEW a \in Paths, Under(x, a)
        PROVE  a \notin targets /\ (a \in directories \/ Under(to, a))
    <2>1. PICK f \in files : x = Moved(f, from, to)
      OBVIOUS
    <2>2. f \in Paths /\ SameOrChild(f, from) /\ Moved(f, from, to) \in Paths
      BY <1>2 DEF Under
    <2>3. CASE SameOrChild(a, to)
      <3>1. PICK b \in Paths : /\ Under(f, b) /\ SameOrChild(b, from)
                               /\ a = Moved(b, from, to)
        BY <1>6, <2>1, <2>2, <2>3, MovedBetween
      <3>2. Stat(o, b) = "directory"
        BY <1>2, <3>1
      <3>3. CASE b = from
        BY <1>5, <3>1, <3>2, <3>3, MovedItself DEF MovedDirectories
      <3>4. CASE b # from
        <4>1. \A c \in Paths : Under(b, c) => Under(f, c)
          BY <2>2, <3>1, UnderUnder DEF Under
        <4>2. \A c \in Paths : Under(b, c) /\ SameOrChild(c, from) => Stat(o, c) = "directory"
          BY <1>2, <4>1
        <4>3. b \in VisibleDirectories(o, from)
          BY <3>1, <3>2, <3>4, <4>2, MeansListed DEF Under, VisibleDirectories
        <4> QED
          BY <1>5, <3>1, <3>2, <4>3 DEF MovedDirectories
      <3> QED
        BY <3>3, <3>4
    <2>4. CASE ~SameOrChild(a, to)
      <3>1. SameOrChild(to, a)
        BY <1>3, <1>6, <2>4, AboveBoth DEF Under
      <3>2. Under(to, a)
        BY <2>4, <3>1, BelowItself DEF Under
      <3> QED
        BY <1>3, <2>4, <3>2
    <2> QED
      BY <2>3, <2>4
  <1>7. content \in Trees /\ DOMAIN content = targets
    <2>1. ASSUME NEW p \in targets
          PROVE  Read(o, Moved(p, to, from)) \in Contents
      <3>1. PICK f \in files : p = Moved(f, from, to)
        OBVIOUS
      <3>2. Moved(p, to, from) = f
        BY <1>2, <3>1, MovedBack DEF Under
      <3> QED
        BY <1>2, <3>2, ReadType
    <2>2. content \in [targets -> Contents]
      BY <2>1
    <2> QED
      BY <1>3, <2>2 DEF Trees
  <1> HIDE DEF content
  <1>8. /\ marked \in Overlays /\ Tidy(marked)
        /\ DOMAIN marked.files = DOMAIN o.files \ directories
        /\ marked.directories = o.directories \cup directories
        /\ marked.deleted = o.deleted \ directories
    BY <1>4, SetDirectoriesKeeps
  <1>9. ASSUME NEW p \in Paths, Free(p, E)
        PROVE  /\ Free(p, D) /\ Fits(base, marked, p)
               /\ Shown(base, marked, p) => Shown(base, o, p)
    <2>1. Free(p, D) /\ Fits(base, o, p)
      BY <1>9 DEF Free, Layers
    <2>2. p \in DOMAIN base => p \notin directories
      BY <1>9, BelowItself DEF Free
    <2> QED
      BY <1>4, <2>1, <2>2, SetDirectoriesFits
  <1> HIDE DEF files, directories, marked
  <1>10. /\ copied \in Overlays /\ Tidy(copied)
         /\ DOMAIN copied.files = targets \cup DOMAIN marked.files
         /\ copied.directories = marked.directories \ targets
         /\ copied.deleted \subseteq marked.deleted
    BY <1>7, <1>8, SetFilesKeeps
  <1>11. ASSUME NEW p \in Paths, Free(p, E)
         PROVE  Fits(base, copied, p)
    <2> HIDE DEF targets
    <2>1. Free(p, D) /\ Fits(base, marked, p)
      BY <1>9, <1>11
    <2>2. ASSUME p \in targets, NEW a \in Paths, Under(p, a)
          PROVE  a \notin targets /\ IsFolder(base, marked, a)
      <3>1. a \notin targets /\ (a \in directories \/ Under(to, a))
        BY <1>6, <2>2
      <3>2. CASE a \in directories
        BY <1>8, <3>1, <3>2 DEF IsFolder
      <3>3. CASE Under(to, a)
        <4>1. Free(to, E)
          BY <1>3, <1>11, <2>2, FreeMeans
        <4>2. IsFolder(base, o, a)
          BY <3>3, <4>1 DEF Vacant
        <4> QED
          BY <1>8, <3>1, <4>2 DEF IsFolder
      <3> QED
        BY <3>1, <3>2, <3>3
    <2>3. ASSUME Shown(base, marked, p), NEW s \in targets, Under(p, s)
          PROVE  FALSE
      <3>1. SameOrChild(p, to)
        BY <1>3, <2>3, BelowBelow DEF Under
      <3> QED
        BY <1>9, <1>11, <2>1, <2>3, <3>1 DEF Vacant
    <2>4. ASSUME NEW s \in targets, NEW d \in marked.deleted, Under(s, d)
          PROVE  FALSE
      <3>1. d \in Paths /\ d \in o.deleted /\ d \notin directories
        BY <1>8 DEF Overlays
      <3>2. Under(to, d)
        BY <1>6, <2>4, <3>1
      <3> QED
        BY <3>1, <3>2 DEF Vacant
    <2>5. \A s \in DOMAIN content, d \in marked.deleted : ~Under(s, d)
      BY <1>7, <2>4
    <2>6. p \notin DOMAIN content /\ Shown(base, marked, p) =>
              \A s \in DOMAIN content : ~Under(p, s)
      BY <1>7, <2>3
    <2>7. p \in DOMAIN content =>
              \A a \in Paths : Under(p, a) => a \notin DOMAIN content /\ IsFolder(base, marked, a)
      BY <1>7, <2>2
    <2> QED
      BY <1>7, <1>8, <2>1, <2>5, <2>6, <2>7, SetFilesFits
  <1> HIDE DEF copied, targets
  <1>12. Layers(base, copied, E)
    BY <1>11 DEF Layers, Flat
  <1>13. Stat(copied, from) # "none"
    <2>1. ~IsDeleted(o, from) /\ (from \in o.directories \/ Kind(base, from) = "directory")
      BY StatIs
    <2>2. ~IsDeleted(copied, from)
      BY <1>8, <1>10, <2>1 DEF IsDeleted
    <2> QED
      BY <1>8, <1>10, <2>1, <2>2, StatIs
  <1>14. Layers(base, deleted, E) /\ deleted \in Overlays
    BY <1>10, <1>12, <1>13, DeletePathFits, DeletePathKeeps
  <1> HIDE DEF deleted
  <1>15. \A p \in Paths : Free(p, E) => Fits(base, AddRenames(deleted, files, from, to), p)
    BY <1>14, AddRenamesFits DEF Layers
  <1> QED
    BY <1>1, <1>14, <1>15 DEF Layers

-----------------------------------------------------------------------------
(* Publication. *)

LEMMA PublishedIs ==
  ASSUME base \in Trees, overlay \in Overlays, NEW scope
  PROVE  LET tree == Published(scope)
             writes == Written(overlay) \cap scope
             deletes == (DeletedBaseFiles(overlay) \ Written(overlay)) \cap scope
         IN  /\ tree \in Trees
             /\ DOMAIN tree = writes \cup (DOMAIN base \ deletes)
             /\ \A p \in writes : tree[p] = overlay.files[p]
             /\ \A p \in DOMAIN base \ (writes \cup deletes) : tree[p] = base[p]
  <1> DEFINE writes == Written(overlay) \cap scope
             deletes == (DeletedBaseFiles(overlay) \ Written(overlay)) \cap scope
             f == Restrict(overlay.files, writes)
             g == Without(base, deletes)
  <1>1. writes \subseteq DOMAIN overlay.files
    BY DEF Written
  <1>2. overlay.files \in Trees
    BY DEF Overlays
  <1>3. /\ g \in Trees /\ DOMAIN g = DOMAIN base \ deletes
        /\ \A p \in DOMAIN base \ deletes : g[p] = base[p]
    BY WithoutTree
  <1>4. Published(scope) = Over(f, g)
    BY DEF Published, Applied, CommitWrites, CommitDeletes
  <1> HIDE DEF writes, deletes
  <1>5. f = [p \in writes |-> overlay.files[p]]
    BY DEF Restrict
  <1>6. f \in [writes -> Contents] /\ writes \subseteq Paths
    BY <1>1, <1>2, <1>5, TreeMeaning
  <1>7. /\ f \in Trees /\ DOMAIN f = writes
        /\ \A p \in writes : f[p] = overlay.files[p]
    BY <1>5, <1>6 DEF Trees
  <1> HIDE DEF f, g
  <1>8. /\ Over(f, g) \in Trees /\ DOMAIN Over(f, g) = writes \cup (DOMAIN base \ deletes)
        /\ \A p \in writes : Over(f, g)[p] = overlay.files[p]
        /\ \A p \in (DOMAIN base \ deletes) \ writes : Over(f, g)[p] = base[p]
    <2> DEFINE h == Over(f, g)
    <2>1. /\ h \in Trees /\ DOMAIN h = DOMAIN f \cup DOMAIN g
          /\ \A p \in DOMAIN f : h[p] = f[p]
          /\ \A p \in DOMAIN g \ DOMAIN f : h[p] = g[p]
      BY <1>3, <1>7, OverTree
    <2> HIDE DEF h
    <2>2. \A p \in writes : h[p] = overlay.files[p]
      BY <1>7, <2>1
    <2>3. \A p \in (DOMAIN base \ deletes) \ writes : h[p] = base[p]
      BY <1>3, <1>7, <2>1
    <2> QED
      BY <1>3, <1>7, <2>1, <2>2, <2>3 DEF h
  <1> QED
    BY <1>4, <1>8 DEF writes, deletes

LEMMA RebasedKeeps ==
  ASSUME NEW o \in Overlays, NEW tree
  PROVE  LET n == Rebased(o, tree)
         IN  /\ n \in Overlays
             /\ (Tidy(o) => Tidy(n)) /\ (Live(o) => Live(n))
             /\ DOMAIN n.files = {p \in DOMAIN o.files :
                                    ~(p \in DOMAIN tree /\ tree[p] = o.files[p])}
             /\ \A p \in DOMAIN n.files : n.files[p] = o.files[p]
             /\ n.directories = {d \in o.directories : Kind(tree, d) # "directory"}
             /\ n.deleted = {d \in o.deleted : Kind(tree, d) # "none"}
  <1> DEFINE n == Rebased(o, tree)
             files == Without(o.files, {p \in DOMAIN o.files :
                                          p \in DOMAIN tree /\ tree[p] = o.files[p]})
             directories == {d \in o.directories : Kind(tree, d) # "directory"}
             tombs == {d \in o.deleted : Kind(tree, d) # "none"}
             renames == {r \in o.renames :
                           Kind(tree, r.from) # "none" \/ Kind(tree, r.to) = "none"}
  <1>1. /\ files \in Trees
        /\ DOMAIN files = {p \in DOMAIN o.files :
                             ~(p \in DOMAIN tree /\ tree[p] = o.files[p])}
        /\ \A p \in DOMAIN files : files[p] = o.files[p]
    <2> DEFINE old == o.files
               same == {p \in DOMAIN old : p \in DOMAIN tree /\ tree[p] = old[p]}
    <2>1. old \in Trees
      BY DEF Overlays
    <2> HIDE DEF old
    <2>2. /\ Without(old, same) \in Trees
          /\ DOMAIN Without(old, same) = DOMAIN old \ same
          /\ \A p \in DOMAIN old \ same : Without(old, same)[p] = old[p]
      BY <2>1, WithoutTree
    <2>3. DOMAIN old \ same = {p \in DOMAIN old : ~(p \in DOMAIN tree /\ tree[p] = old[p])}
      OBVIOUS
    <2> QED
      BY <2>2, <2>3 DEF old
  <1>2. n = [files |-> files, directories |-> directories, deleted |-> tombs,
             renames |-> renames]
    BY DEF Rebased
  <1> HIDE DEF files
  <1>3. /\ directories \subseteq o.directories /\ tombs \subseteq o.deleted
        /\ renames \subseteq o.renames
    OBVIOUS
  <1>4. n \in Overlays
    BY <1>1, <1>2, <1>3 DEF Overlays
  <1>5. DOMAIN files \subseteq DOMAIN o.files
    BY <1>1
  <1>6. (Tidy(o) => Tidy(n)) /\ (Live(o) => Live(n))
    BY <1>2, <1>3, <1>5, FewerTombstones
  <1> QED
    BY <1>1, <1>2, <1>4, <1>6


\* What is published leaves the overlay, what is not stays: the rebase drops a
\* file exactly if the tree has it now, a marker if the tree has the directory,
\* and a tombstone if nothing is left of it.
LEMMA SelectionFits ==
  ASSUME base \in Trees, overlay \in Overlays, Tidy(overlay),
         NEW D \in SUBSET (Paths \cup {Root}), Layers(base, overlay, D), NEW scope,
         NEW p \in Paths, Free(p, D)
  PROVE  LET tree == Published(scope)
             n == Rebased(overlay, tree)
         IN  /\ Shown(tree, n, p) <=> Shown(base, overlay, p)
             /\ Shown(base, overlay, p) =>
                   Read(overlay, p) = IF p \in DOMAIN n.files THEN n.files[p] ELSE tree[p]
             /\ (\A a \in Orphaned(tree, n) : ~SameOrChild(p, a)) => Fits(tree, n, p)
  <1> DEFINE tree == Published(scope)
             n == Rebased(overlay, tree)
             written == Written(overlay)
             deleted == DeletedBaseFiles(overlay) \ written
  <1>1. /\ tree \in Trees
        /\ DOMAIN tree = (written \cap scope) \cup (DOMAIN base \ (deleted \cap scope))
        /\ \A q \in written \cap scope : tree[q] = overlay.files[q]
        /\ \A q \in DOMAIN base \ ((written \cap scope) \cup (deleted \cap scope)) :
              tree[q] = base[q]
    BY PublishedIs
  <1> HIDE DEF tree
  <1>2. /\ DOMAIN n.files = {q \in DOMAIN overlay.files :
                               ~(q \in DOMAIN tree /\ tree[q] = overlay.files[q])}
        /\ \A q \in DOMAIN n.files : n.files[q] = overlay.files[q]
        /\ n.directories = {d \in overlay.directories : Kind(tree, d) # "directory"}
        /\ n.deleted = {d \in overlay.deleted : Kind(tree, d) # "none"}
    BY RebasedKeeps
  <1> HIDE DEF n
  <1>3. /\ \A q : q \in written <=> /\ q \in DOMAIN overlay.files
                                    /\ q \notin DOMAIN base \/ base[q] # overlay.files[q]
        /\ \A q : q \in deleted <=> /\ q \in DOMAIN base /\ IsDeleted(overlay, q)
                                    /\ q \notin written
    BY DEF Written, DeletedBaseFiles
  <1> HIDE DEF written, deleted
  <1>4. DOMAIN base \subseteq Paths /\ DOMAIN tree \subseteq Paths
    BY <1>1, TreeMeaning
  <1>5. Fits(base, overlay, p) /\ Root \notin D
    BY FreeMeans DEF Layers
  <1>6. p \in DOMAIN overlay.files => p \notin overlay.directories /\ ~IsDeleted(overlay, p)
    BY DEF Tidy
  <1>7. IsDeleted(n, p) => IsDeleted(overlay, p)
    BY <1>2 DEF IsDeleted
  <1>8. p \in DOMAIN tree /\ IsDeleted(overlay, p) => p \in DOMAIN base /\ p \in n.deleted
    <2>1. SUFFICES ASSUME p \in DOMAIN tree, IsDeleted(overlay, p)
                   PROVE  p \in DOMAIN base /\ p \in n.deleted
      OBVIOUS
    <2>2. p \in DOMAIN base
      BY <1>1, <1>3, <1>6, <2>1
    <2>3. p \in overlay.deleted
      BY <1>5, <2>1, <2>2 DEF Fits
    <2>4. Kind(tree, p) # "none"
      BY <2>1 DEF Kind
    <2> QED
      BY <1>2, <2>2, <2>3, <2>4
  <1>9. Shown(tree, n, p) => Shown(base, overlay, p)
    <2>1. SUFFICES ASSUME Shown(tree, n, p)
                   PROVE  Shown(base, overlay, p)
      OBVIOUS
    <2>2. p \in DOMAIN n.files => p \in DOMAIN overlay.files
      BY <1>2
    <2>3. p \in DOMAIN tree => p \in DOMAIN overlay.files \cup DOMAIN base
      BY <1>1, <1>3
    <2>4. ~IsDeleted(overlay, p)
      BY <1>6, <1>8, <2>1, <2>2, BelowItself DEF Shown, IsDeleted
    <2> QED
      BY <2>1, <2>2, <2>3, <2>4 DEF Shown
  <1>10. ASSUME Shown(base, overlay, p)
         PROVE  /\ Shown(tree, n, p)
                /\ Read(overlay, p) = IF p \in DOMAIN n.files THEN n.files[p] ELSE tree[p]
    <2>1. ~IsDeleted(n, p) /\ ~IsDeleted(overlay, p)
      BY <1>7, <1>10 DEF Shown
    <2>2. p \notin deleted
      BY <1>3, <2>1
    <2>3. CASE p \in DOMAIN overlay.files
      <3>1. p \in DOMAIN n.files \cup DOMAIN tree
        BY <1>2, <2>3
      <3>2. Read(overlay, p) = overlay.files[p]
        BY <2>3 DEF Read
      <3> QED
        BY <1>2, <2>1, <2>3, <3>1, <3>2 DEF Shown
    <2>4. CASE p \notin DOMAIN overlay.files
      <3>1. p \in DOMAIN base /\ p \notin written
        BY <1>3, <1>10, <2>4 DEF Shown
      <3>2. p \in DOMAIN tree /\ tree[p] = base[p] /\ p \notin DOMAIN n.files
        BY <1>1, <1>2, <2>2, <2>4, <3>1
      <3> QED
        BY <2>1, <2>4, <3>2 DEF Shown, Read
    <2> QED
      BY <2>3, <2>4
  <1>11. ASSUME \A a \in Orphaned(tree, n) : ~SameOrChild(p, a)
         PROVE  Fits(tree, n, p)
    <2>1. p \in DOMAIN tree => p \notin n.directories
      BY <1>1, <1>2, <1>3, <1>5, <1>6 DEF Fits
    <2>2. p \in DOMAIN tree /\ IsDeleted(n, p) => p \in n.deleted
      BY <1>7, <1>8
    <2>3. ASSUME Shown(tree, n, p), NEW a \in Paths, Under(p, a)
          PROVE  IsFolder(tree, n, a)
      <3>1. IsFolder(base, overlay, a)
        BY <1>5, <1>9, <2>3 DEF Fits
      <3>2. a \notin DOMAIN n.files /\ a \notin written
        BY <1>2, <1>3, <3>1 DEF IsFolder
      <3>3. Kind(tree, a) = "directory" => IsFolder(tree, n, a)
        BY <1>4, <3>2, KindIs DEF IsFolder
      <3>4. CASE a \in overlay.directories
        BY <1>2, <3>2, <3>3, <3>4 DEF IsFolder
      <3>5. CASE a \notin overlay.directories
        <4>1. PICK f \in DOMAIN base : Under(f, a)
          BY <3>1, <3>5 DEF IsFolder
        <4>2. a \notin DOMAIN base
          BY <1>5, <4>1 DEF Layers, Flat
        <4>3. Kind(base, a) = "directory"
          BY <1>4, <4>1, <4>2, KindIs
        <4>4. a \notin DOMAIN tree
          BY <1>1, <3>2, <4>2
        <4>5. CASE p \in DOMAIN tree
          BY <2>3, <3>2, <4>5 DEF IsFolder
        <4>6. CASE p \in DOMAIN n.files
          <5>1. IsStrictPrefix(a, p) /\ SameOrChild(p, a)
            BY <2>3 DEF IsStrictPrefix, SameOrChild, Under
          <5>2. a \notin Orphaned(tree, n)
            BY <1>11, <5>1
          <5>3. Kind(tree, a) # "none"
            BY <3>5, <4>3, <4>6, <5>1, <5>2 DEF Orphaned
          <5>4. Kind(tree, a) = "directory"
            BY <4>4, <5>3 DEF Kind
          <5> QED
            BY <3>3, <5>4
        <4> QED
          BY <2>3, <4>5, <4>6 DEF Shown
      <3> QED
        BY <3>4, <3>5
    <2> QED
      BY <2>1, <2>2, <2>3 DEF Fits
  <1> QED
    BY <1>9, <1>10, <1>11 DEF n, tree

-----------------------------------------------------------------------------
(* The invariants. *)

TreeInv == TreeTypeOK /\ Tidy(overlay) /\ Layers(base, overlay, disputed)

\* The base is a tree since the adapter refuses others (IsTree).
ShallowInv == TreeInv /\ Live(overlay) /\ IsTree(base)

\* The trees of others have no file below a file.
LEMMA BaseIsTree ==
  ASSUME NEW t \in BaseTrees
  PROVE  t \in Trees /\ IsTree(t)
  <1>1. t \in Trees
    BY WorkingTreeAssumption
  <1>2. SUFFICES ASSUME NEW f \in DOMAIN t, Front(f) \in DOMAIN t
                 PROVE  FALSE
    BY <1>1 DEF IsTree
  <1>3. f \in Paths /\ Front(f) \in Paths
    BY <1>1, <1>2, TreeMeaning
  <1>4. SameOrChild(f, Front(f)) /\ Front(f) # f
    BY <1>3, FrontIsAbove
  <1> QED
    BY <1>2, <1>4, WorkingTreeAssumption

LEMMA TreeStart == TreeInit => ShallowInv
  <1> SUFFICES ASSUME TreeInit
               PROVE  ShallowInv
    OBVIOUS
  <1>1. base \in BaseTrees /\ base \in Trees
    BY WorkingTreeAssumption DEF TreeInit
  <1>2. EmptyOverlay.files \in Trees
    BY NothingIsATree DEF EmptyOverlay
  <1>3. overlay \in Overlays
    BY <1>2 DEF TreeInit, EmptyOverlay, Overlays
  <1>4. steps \in 0 .. MaxSteps
    BY WorkingTreeAssumption DEF TreeInit
  <1>5. Tidy(overlay) /\ Live(overlay)
    BY DEF TreeInit, EmptyOverlay, Tidy, Live
  <1>6. IsTree(base)
    BY <1>1, BaseIsTree
  <1>7. disputed = {} /\ ~HasChanges(overlay)
    BY DEF TreeInit, EmptyOverlay, HasChanges
  <1>8. Flat(base, disputed)
    BY <1>1, WorkingTreeAssumption DEF Flat, Under
  <1>9. Layers(base, overlay, disputed)
    BY <1>1, <1>7, <1>8, CleanFits, TreeMeaning
  <1> QED
    BY <1>1, <1>3, <1>4, <1>5, <1>6, <1>7, <1>9 DEF ShallowInv, TreeInv, TreeTypeOK

LEMMA TreeStep ==
  ASSUME TreeInv, TreeNext
  PROVE  /\ overlay' \in Overlays /\ Tidy(overlay') /\ base' \in Trees
         /\ steps' \in 0 .. MaxSteps
         /\ Shallow /\ Live(overlay) => Live(overlay')
         /\ IsTree(base) => IsTree(base')
  <1> USE DEF TreeInv, TreeTypeOK
  <1> DEFINE Good(n) == /\ n \in Overlays /\ Tidy(n)
                        /\ Shallow /\ Live(overlay) => Live(n)
  <1>1. SUFFICES /\ Good(overlay') /\ steps' \in 0 .. MaxSteps
                 /\ base' \in Trees /\ (IsTree(base) => IsTree(base'))
    OBVIOUS
  <1>2. ASSUME Tick
        PROVE  steps' \in 0 .. MaxSteps
    BY <1>2, WorkingTreeAssumption DEF Tick
  <1>3. ASSUME NEW o \in Overlays, NEW p \in Paths, NEW q \in Paths,
               Tidy(o), Live(overlay) => Live(o)
        PROVE  Good(UnmarkDeleted(RemoveOverlayPaths(o, {p}), {q}))
    <2> DEFINE m == RemoveOverlayPaths(o, {p})
               n == UnmarkDeleted(m, {q})
    <2>1. /\ m \in Overlays /\ m.deleted \subseteq o.deleted
          /\ DOMAIN m.files \subseteq DOMAIN o.files /\ m.directories \subseteq o.directories
          /\ m.renames \subseteq o.renames
      BY RemoveKeeps
    <2> HIDE DEF m
    <2>2. /\ n \in Overlays /\ n.deleted \subseteq m.deleted
          /\ n.files = m.files /\ n.directories = m.directories /\ n.renames = m.renames
      BY <2>1, UnmarkKeeps
    <2> HIDE DEF n
    <2>3. (Tidy(o) => Tidy(n)) /\ (Live(o) => Live(n))
      BY <2>1, <2>2, FewerTombstones
    <2> QED
      BY <1>3, <2>2, <2>3 DEF n, m
  <1>4. ASSUME NEW p \in Paths, NEW c \in Contents, WriteFile(p, c)
        PROVE  Good(overlay')
    <2>1. CASE overlay' = UnmarkDeleted(RemoveOverlayPaths(overlay, {p}), {p})
      BY <1>3, <2>1
    <2>2. CASE overlay' = SetFiles(overlay, Only(p, c))
      <3>1. Only(p, c) \in Trees
        BY OnlyTree
      <3> QED
        BY <2>2, <3>1, SetFilesKeeps
    <2> QED
      BY <1>4, <2>1, <2>2 DEF WriteFile
  <1>5. ASSUME NEW p \in Paths, CreateDirectory(p)
        PROVE  Good(overlay')
    BY <1>5, SetDirectoriesKeeps DEF CreateDirectory
  <1>6. ASSUME NEW p \in Paths, Delete(p)
        PROVE  Good(overlay')
    BY <1>6, DeletePathKeeps DEF Delete
  <1>7. ASSUME NEW from \in Paths, NEW to \in Paths, Rename(from, to)
        PROVE  Good(overlay')
    <2> DEFINE free == IF Stat(overlay, to) = "none" THEN overlay ELSE DeletePath(overlay, to)
    <2>1. Good(free)
      BY DeletePathKeeps
    <2>2. /\ ~SameOrChild(to, from) /\ Stat(free, from) = Stat(overlay, from)
          /\ \/ Stat(overlay, from) = "file" /\ overlay' = MoveFile(free, from, to)
             \/ /\ \A q \in Listed(free, from) : Moved(q, from, to) \in Paths
                /\ overlay' = MoveDirectory(free, from, to)
      BY <1>7 DEF Rename
    <2> HIDE DEF free
    <2>3. CASE Stat(overlay, from) = "file" /\ overlay' = MoveFile(free, from, to)
      BY <2>1, <2>2, <2>3, MoveFileKeeps
    <2>4. CASE /\ \A q \in Listed(free, from) : Moved(q, from, to) \in Paths
               /\ overlay' = MoveDirectory(free, from, to)
      BY <2>1, <2>2, <2>4, MoveDirectoryKeeps
    <2> QED
      BY <2>2, <2>3, <2>4
  <1>8. ASSUME NEW p \in Paths, Revert(p)
        PROVE  Good(overlay')
    <2>1. CASE \E r \in overlay.renames :
                  /\ r.to = p
                  /\ overlay' = UnmarkDeleted(
                        RemoveOverlayPaths([overlay EXCEPT !.renames = @ \ {r}], {p}), {r.from})
      <3>1. PICK r \in overlay.renames :
                  overlay' = UnmarkDeleted(
                     RemoveOverlayPaths([overlay EXCEPT !.renames = @ \ {r}], {p}), {r.from})
        BY <2>1
      <3> DEFINE o == [overlay EXCEPT !.renames = @ \ {r}]
      <3>2. r.from \in Paths
        BY DEF Overlays, RenameRecord
      <3>3. /\ o \in Overlays /\ o.files = overlay.files
            /\ o.directories = overlay.directories /\ o.deleted = overlay.deleted
            /\ o.renames \subseteq overlay.renames
        BY DEF Overlays
      <3> HIDE DEF o
      <3>4. Tidy(o) /\ (Live(overlay) => Live(o))
        BY <3>3, FewerTombstones
      <3>5. overlay' = UnmarkDeleted(RemoveOverlayPaths(o, {p}), {r.from})
        BY <3>1 DEF o
      <3> QED
        BY <1>3, <3>2, <3>3, <3>4, <3>5
    <2>2. CASE overlay' = UnmarkDeleted(RemoveOverlayPaths(overlay, {p}), {p})
      BY <1>3, <2>2
    <2> QED
      BY <1>8, <2>1, <2>2 DEF Revert
  <1>9. Good(EmptyOverlay)
    <2>1. EmptyOverlay.files \in Trees
      BY NothingIsATree DEF EmptyOverlay
    <2> QED
      BY <2>1 DEF EmptyOverlay, Overlays, Tidy, Live
  <1>10. ASSUME NEW scope, NEW rest, Good(rest), Publish(Published(scope), rest)
         PROVE  Good(overlay') /\ base' \in Trees /\ IsTree(base')
    BY <1>10, PublishedIs DEF Publish
  <1>11. ASSUME NEW selected, PublishSelected(selected)
         PROVE  Good(overlay') /\ base' \in Trees /\ IsTree(base')
    <2> DEFINE tree == Published(SelectedCommitPaths(overlay, selected))
    <2>1. Good(Rebased(overlay, tree))
      BY RebasedKeeps
    <2> QED
      BY <1>10, <1>11, <2>1 DEF PublishSelected
  <1>12. ASSUME RebindCleanBase
         PROVE  base' \in BaseTrees
    BY <1>12 DEF RebindCleanBase
  <1>13. \A t \in BaseTrees : t \in Trees /\ IsTree(t)
    BY BaseIsTree
  <1>14. ASSUME UNCHANGED base, Good(overlay'), Tick
         PROVE  /\ Good(overlay') /\ steps' \in 0 .. MaxSteps
                /\ base' \in Trees /\ (IsTree(base) => IsTree(base'))
    BY <1>2, <1>14 DEF IsTree
  <1>15. CASE \E p \in Paths, c \in Contents : WriteFile(p, c)
    BY <1>4, <1>14, <1>15 DEF WriteFile
  <1>16. CASE \E p \in Paths : CreateDirectory(p) \/ Delete(p) \/ Revert(p)
    BY <1>5, <1>6, <1>8, <1>14, <1>16 DEF CreateDirectory, Delete, Revert
  <1>17. CASE \E p, q \in Paths : Rename(p, q)
    BY <1>7, <1>14, <1>17 DEF Rename
  <1>18. CASE RevertAll
    BY <1>9, <1>14, <1>18 DEF RevertAll
  <1>19. CASE PublishAll
    BY <1>2, <1>9, <1>10, <1>19 DEF PublishAll, Publish
  <1>20. CASE RebindCleanBase
    BY <1>2, <1>12, <1>13, <1>20 DEF RebindCleanBase
  <1>21. CASE \E selected \in SUBSET ChangedPaths(overlay) : PublishSelected(selected)
    BY <1>2, <1>11, <1>21 DEF PublishSelected, Publish
  <1> QED
    BY <1>15, <1>16, <1>17, <1>18, <1>19, <1>20, <1>21 DEF TreeNext


\* Without changes nothing is disputed any more, but for a base that is no tree.
LEMMA DisputesSettle ==
  ASSUME base' \in Trees, NEW S, S \subseteq Paths \cup {Root},
         disputed \subseteq Paths \cup {Root}, Disputes(S),
         Layers(base', overlay', disputed \cup S)
  PROVE  disputed' \subseteq Paths \cup {Root} /\ Layers(base', overlay', disputed')
  <1>1. disputed' \subseteq Paths \cup {Root}
    BY DEF Disputes
  <1>2. CASE HasChanges(overlay)'
    BY <1>1, <1>2 DEF Disputes
  <1>3. CASE ~HasChanges(overlay)'
    <2>1. disputed' = (disputed \cup S) \cap {Root}
      BY <1>3 DEF Disputes
    <2>2. Flat(base', disputed')
      BY <2>1 DEF Layers, Flat
    <2>3. ~HasChanges(overlay')
      BY <1>3 DEF HasChanges
    <2>4. DOMAIN base' \subseteq Paths
      BY TreeMeaning
    <2> QED
      BY <1>1, <2>2, <2>3, <2>4, CleanFits
  <1> QED
    BY <1>2, <1>3

LEMMA NotMisplaced ==
  ASSUME NEW p \in Paths, ~Misplaced(p), NEW a \in Paths, Under(p, a)
  PROVE  Stat(overlay, a) = "directory"
  <1>1. Len(a) \in 1 .. Len(p) - 1 /\ a = SubSeq(p, 1, Len(a))
    BY UnderIsPart
  <1> QED
    BY <1>1 DEF Misplaced

LEMMA WriteFits ==
  ASSUME TreeInv, NEW p \in Paths, NEW c \in Contents, WriteFile(p, c)
  PROVE  Layers(base, overlay', disputed \cup {q \in {p} : Misplaced(q)})
  <1> USE DEF TreeInv, TreeTypeOK
  <1> DEFINE E == disputed \cup {q \in {p} : Misplaced(q)}
  <1>1. Stat(overlay, p) # "directory" /\ Stat(overlay, Front(p)) = "directory"
    BY DEF WriteFile
  <1>2. ASSUME NEW q \in Paths, Free(q, E)
        PROVE  Free(q, disputed) /\ Fits(base, overlay, q)
    BY <1>2 DEF Free, Layers
  <1>3. ASSUME Free(p, E), NEW a \in Paths, Under(p, a)
        PROVE  Stat(overlay, a) = "directory"
    <2>1. ~Misplaced(p)
      BY <1>3, BelowItself DEF Free
    <2> QED
      BY <1>3, <2>1, NotMisplaced
  <1>4. \A d \in overlay.deleted : ~Under(p, d)
    BY <1>1, NoTombstoneAbove
  <1>5. CASE overlay' = UnmarkDeleted(RemoveOverlayPaths(overlay, {p}), {p})
    <2> DEFINE m == RemoveOverlayPaths(overlay, {p})
    <2>1. /\ m \in Overlays /\ m.deleted = overlay.deleted
          /\ DOMAIN m.files \subseteq DOMAIN overlay.files
          /\ m.directories \subseteq overlay.directories /\ m.renames \subseteq overlay.renames
      BY RemoveKeeps
    <2>2. \A q \in Paths : Free(q, E) => Fits(base, m, q)
      BY <1>2, RemoveFits
    <2> HIDE DEF m
    <2>3. Tidy(m)
      BY <2>1, FewerTombstones
    <2>4. ASSUME NEW q \in Paths, Free(q, E), q \in m.deleted, SameOrChild(p, q),
                 NEW a \in Paths, Under(q, a)
          PROVE  a \notin DOMAIN m.files
      <3>1. p = q
        BY <1>4, <2>1, <2>4 DEF Under
      <3>2. Stat(overlay, a) = "directory"
        BY <1>3, <2>4, <3>1
      <3> QED
        BY <2>1, <3>2, StatIs
    <2>5. ASSUME NEW q \in Paths, Free(q, E)
          PROVE  Fits(base, UnmarkDeleted(m, {p}), q)
      BY <2>1, <2>2, <2>3, <2>4, <2>5, UnmarkFits
    <2> QED
      BY <1>5, <2>5 DEF Layers, Flat, m
  <1>6. CASE overlay' = SetFiles(overlay, Only(p, c))
    <2> DEFINE content == Only(p, c)
    <2>1. content \in Trees /\ DOMAIN content = {p}
      BY OnlyTree
    <2> HIDE DEF content
    <2>2. ASSUME NEW q \in Paths, Free(q, E)
          PROVE  Fits(base, SetFiles(overlay, content), q)
      <3>1. ASSUME q = p, NEW a \in Paths, Under(q, a)
            PROVE  a \notin {p} /\ IsFolder(base, overlay, a)
        <4>1. IsFolder(base, overlay, a)
          BY <1>3, <2>2, <3>1, DirectoryIsFolder
        <4> QED
          BY <3>1, <4>1 DEF Under
      <3>2. Shown(base, overlay, q) => ~Under(q, p)
        BY <1>1, <1>2, <2>2, FreeStat
      <3> QED
        BY <1>2, <1>4, <2>1, <2>2, <3>1, <3>2, SetFilesFits
    <2> QED
      BY <1>6, <2>2 DEF Layers, Flat, content
  <1> QED
    BY <1>5, <1>6 DEF WriteFile

LEMMA RevertFits ==
  ASSUME TreeInv, NEW o \in Overlays, o.files = overlay.files,
         o.directories = overlay.directories, o.deleted = overlay.deleted,
         o.renames \subseteq overlay.renames, NEW p \in Paths, NEW x \in Paths
  PROVE  Layers(base, UnmarkDeleted(RemoveOverlayPaths(o, {p}), {x}), disputed \cup Buried(x))
  <1> USE DEF TreeInv, TreeTypeOK
  <1> DEFINE E == disputed \cup Buried(x)
             m == RemoveOverlayPaths(o, {p})
  <1>1. /\ m \in Overlays /\ m.deleted = o.deleted
        /\ DOMAIN m.files \subseteq DOMAIN o.files
        /\ m.directories \subseteq o.directories /\ m.renames \subseteq o.renames
    BY RemoveKeeps
  <1>2. ASSUME NEW q \in Paths, Free(q, E)
        PROVE  Fits(base, m, q)
    <2>1. Fits(base, overlay, q)
      BY <1>2 DEF Free, Layers
    <2>2. Fits(base, o, q)
      BY <2>1, SameLayers
    <2> QED
      BY <2>2, RemoveFits
  <1> HIDE DEF m
  <1>3. Tidy(o) /\ Tidy(m)
    BY <1>1, FewerTombstones DEF Tidy, IsDeleted
  <1>4. ASSUME NEW q \in Paths, Free(q, E), q \in DOMAIN base, SameOrChild(x, q),
               NEW a \in Paths, Under(q, a), a \in DOMAIN m.files
        PROVE  FALSE
    <2>1. a \in DOMAIN overlay.files /\ ~IsDeleted(overlay, a)
      BY <1>1, <1>4 DEF Tidy
    <2>2. Stat(overlay, a) = "file"
      BY <2>1, StatIs
    <2>3. Len(a) \in 1 .. Len(q) - 1 /\ a = SubSeq(q, 1, Len(a))
      BY <1>4, UnderIsPart
    <2>4. q \in Buried(x)
      BY <1>4, <2>2, <2>3 DEF Buried
    <2> QED
      BY <1>4, <2>4, BelowItself DEF Free
  <1>5. ASSUME NEW q \in Paths, Free(q, E)
        PROVE  Fits(base, UnmarkDeleted(m, {x}), q)
    BY <1>1, <1>2, <1>3, <1>4, <1>5, UnmarkFits
  <1> QED
    BY <1>5 DEF Layers, Flat, m

LEMMA RenameFits ==
  ASSUME TreeInv, NEW from \in Paths, NEW to \in Paths, Rename(from, to)
  PROVE  \E S \in SUBSET Paths : Disputes(S) /\ Layers(base, overlay', disputed \cup S)
  <1> USE DEF TreeInv, TreeTypeOK
  <1> DEFINE o == IF Stat(overlay, to) = "none" THEN overlay ELSE DeletePath(overlay, to)
             M == {q \in {to} : Misplaced(q)}
             T == MovedDirectories(o, from, to) \cap DOMAIN base
  <1>1. /\ ~SameOrChild(to, from) /\ Stat(overlay, Front(to)) = "directory"
        /\ Stat(o, from) = Stat(overlay, from)
        /\ \/ /\ Stat(overlay, from) = "file"
              /\ overlay' = MoveFile(o, from, to) /\ Disputes(M)
           \/ /\ Stat(overlay, from) = "directory"
              /\ \A q \in Listed(o, from) : Moved(q, from, to) \in Paths
              /\ overlay' = MoveDirectory(o, from, to) /\ Disputes(M \cup T)
    BY DEF Rename
  <1>2. M \subseteq Paths /\ T \subseteq Paths
    BY TreeMeaning
  <1>3. ASSUME NEW E, M \subseteq E, Free(to, E), NEW a \in Paths, Under(to, a)
        PROVE  Stat(overlay, a) = "directory"
    <2>1. ~Misplaced(to)
      BY <1>3, BelowItself DEF Free
    <2> QED
      BY <1>3, <2>1, NotMisplaced
  <1>4. ASSUME NEW E, M \subseteq E
        PROVE  /\ o \in Overlays /\ Tidy(o) /\ Layers(base, o, disputed)
               /\ Vacant(o, to, disputed, E)
    BY <1>1, <1>3, <1>4, TargetIsVacant
  <1> HIDE DEF o, M
  <1>5. CASE overlay' = MoveFile(o, from, to) /\ Disputes(M) /\ Stat(o, from) = "file"
    <2> DEFINE E == disputed \cup M
    <2>1. M \subseteq E /\ disputed \subseteq E
      OBVIOUS
    <2> HIDE DEF E
    <2>2. Layers(base, MoveFile(o, from, to), E)
      BY <1>1, <1>4, <1>5, <2>1, MoveFileFits
    <2> QED
      BY <1>2, <1>5, <2>2 DEF E
  <1>6. CASE /\ \A q \in Listed(o, from) : Moved(q, from, to) \in Paths
             /\ overlay' = MoveDirectory(o, from, to) /\ Disputes(M \cup T)
             /\ Stat(o, from) = "directory"
    <2> DEFINE E == disputed \cup (M \cup T)
    <2>1. M \subseteq E /\ disputed \subseteq E /\ T \subseteq E /\ E \subseteq Paths \cup {Root}
      BY <1>2
    <2> HIDE DEF E
    <2>2. Layers(base, MoveDirectory(o, from, to), E)
      BY <1>1, <1>4, <1>6, <2>1, MoveDirectoryFits
    <2>3. M \cup T \subseteq Paths
      BY <1>2
    <2> QED
      BY <1>6, <2>2, <2>3 DEF E
  <1> QED
    BY <1>1, <1>5, <1>6

LEMMA LayersStep ==
  ASSUME TreeInv, TreeNext
  PROVE  disputed' \subseteq Paths \cup {Root} /\ Layers(base', overlay', disputed')
  <1> USE DEF TreeInv, TreeTypeOK
  <1>1. base' \in Trees /\ DOMAIN base \subseteq Paths /\ DOMAIN base' \subseteq Paths
    BY TreeStep, TreeMeaning
  <1>2. ASSUME NEW S \in SUBSET (Paths \cup {Root}), Disputes(S),
               Layers(base', overlay', disputed \cup S)
        PROVE  disputed' \subseteq Paths \cup {Root} /\ Layers(base', overlay', disputed')
    BY <1>1, <1>2, DisputesSettle
  <1>3. ASSUME NEW S, NEW o, Layers(base, o, disputed), S \subseteq {}
        PROVE  Layers(base, o, disputed \cup S)
    BY <1>3, MoreDisputed
  <1>4. ASSUME NEW p \in Paths, NEW c \in Contents, WriteFile(p, c)
        PROVE  disputed' \subseteq Paths \cup {Root} /\ Layers(base', overlay', disputed')
    <2>1. {q \in {p} : Misplaced(q)} \in SUBSET (Paths \cup {Root})
      OBVIOUS
    <2>2. base' = base /\ Disputes({q \in {p} : Misplaced(q)})
      BY <1>4 DEF WriteFile
    <2>3. Layers(base, overlay', disputed \cup {q \in {p} : Misplaced(q)})
      BY <1>4, WriteFits
    <2> QED
      BY <1>2, <2>1, <2>2, <2>3
  <1>5. ASSUME NEW p \in Paths, CreateDirectory(p)
        PROVE  disputed' \subseteq Paths \cup {Root} /\ Layers(base', overlay', disputed')
    <2> DEFINE S == {p} \cap DOMAIN base
               n == SetDirectories(overlay, {p})
    <2>1. base' = base /\ overlay' = n /\ Disputes(S)
      BY <1>5 DEF CreateDirectory
    <2> HIDE DEF n
    <2>2. ASSUME NEW q \in Paths, Free(q, disputed \cup S)
          PROVE  Fits(base, n, q)
      <3>1. Fits(base, overlay, q)
        BY <2>2 DEF Free, Layers
      <3>2. q \in DOMAIN base => q \notin {p}
        BY <2>2, BelowItself DEF Free
      <3> QED
        BY <3>1, <3>2, SetDirectoriesFits DEF n
    <2>3. Layers(base, n, disputed \cup S)
      BY <2>2 DEF Layers, Flat
    <2> QED
      BY <1>2, <2>1, <2>3
  <1>6. ASSUME NEW p \in Paths, Delete(p)
        PROVE  disputed' \subseteq Paths \cup {Root} /\ Layers(base', overlay', disputed')
    <2>1. /\ base' = base /\ overlay' = DeletePath(overlay, p) /\ Disputes({})
          /\ Stat(overlay, p) # "none"
      BY <1>6 DEF Delete
    <2>2. Layers(base, DeletePath(overlay, p), disputed)
      BY <2>1, DeletePathFits
    <2> QED
      BY <1>2, <1>3, <2>1, <2>2
  <1>7. ASSUME NEW from \in Paths, NEW to \in Paths, Rename(from, to)
        PROVE  disputed' \subseteq Paths \cup {Root} /\ Layers(base', overlay', disputed')
    <2>1. base' = base
      BY <1>7 DEF Rename
    <2>2. PICK S \in SUBSET Paths : Disputes(S) /\ Layers(base, overlay', disputed \cup S)
      BY <1>7, RenameFits
    <2> QED
      BY <1>2, <2>1, <2>2
  <1>8. ASSUME NEW p \in Paths, Revert(p)
        PROVE  disputed' \subseteq Paths \cup {Root} /\ Layers(base', overlay', disputed')
    <2>1. base' = base
      BY <1>8 DEF Revert
    <2>2. \A x : Buried(x) \in SUBSET (Paths \cup {Root})
      BY <1>1 DEF Buried
    <2>3. ASSUME NEW r \in overlay.renames, Disputes(Buried(r.from)),
                 overlay' = UnmarkDeleted(
                    RemoveOverlayPaths([overlay EXCEPT !.renames = @ \ {r}], {p}), {r.from})
          PROVE  Layers(base, overlay', disputed \cup Buried(r.from))
      <3> DEFINE o == [overlay EXCEPT !.renames = @ \ {r}]
      <3>1. r.from \in Paths
        BY DEF Overlays, RenameRecord
      <3>2. /\ o \in Overlays /\ o.files = overlay.files
            /\ o.directories = overlay.directories /\ o.deleted = overlay.deleted
            /\ o.renames \subseteq overlay.renames
        BY DEF Overlays
      <3>3. overlay' = UnmarkDeleted(RemoveOverlayPaths(o, {p}), {r.from})
        BY <2>3
      <3> HIDE DEF o
      <3> QED
        BY <3>1, <3>2, <3>3, RevertFits
    <2>4. CASE overlay' = UnmarkDeleted(RemoveOverlayPaths(overlay, {p}), {p})
               /\ Disputes(Buried(p))
      <3>1. Layers(base, overlay', disputed \cup Buried(p))
        BY <2>4, RevertFits
      <3> QED
        BY <1>2, <2>1, <2>2, <2>4, <3>1
    <2>5. CASE \E r \in overlay.renames :
                  /\ overlay' = UnmarkDeleted(
                        RemoveOverlayPaths([overlay EXCEPT !.renames = @ \ {r}], {p}), {r.from})
                  /\ Disputes(Buried(r.from))
      BY <1>2, <2>1, <2>2, <2>3, <2>5
    <2> QED
      BY <1>8, <2>4, <2>5 DEF Revert
  <1>9. CASE RevertAll
    <2>1. base' = base /\ overlay' = EmptyOverlay /\ Disputes({})
      BY <1>9 DEF RevertAll
    <2>2. Layers(base, EmptyOverlay, disputed)
      BY <1>1, CleanFits DEF Layers, EmptyOverlay, HasChanges
    <2> QED
      BY <1>2, <1>3, <2>1, <2>2
  <1>10. ASSUME NEW scope, NEW rest, Publish(Published(scope), rest),
                ASSUME Flat(base', disputed \cup
                          (Orphaned(base', rest)
                           \cup {d \in {Root} : \E f, g \in DOMAIN base' : IsStrictPrefix(f, g)}))
                PROVE  Layers(base', rest, disputed \cup
                          (Orphaned(base', rest)
                           \cup {d \in {Root} : \E f, g \in DOMAIN base' : IsStrictPrefix(f, g)}))
         PROVE  disputed' \subseteq Paths \cup {Root} /\ Layers(base', overlay', disputed')
    <2> DEFINE S == Orphaned(base', rest)
                    \cup {d \in {Root} : \E f, g \in DOMAIN base' : IsStrictPrefix(f, g)}
    <2>1. overlay' = rest /\ Disputes(S)
      BY <1>10 DEF Publish
    <2>2. S \in SUBSET (Paths \cup {Root})
      BY DEF Orphaned
    <2>3. Flat(base', disputed \cup S)
      BY DEF Flat, Under, IsStrictPrefix, SameOrChild
    <2>4. Layers(base', rest, disputed \cup S)
      BY <1>10, <2>3
    <2> QED
      BY <1>2, <2>1, <2>2, <2>4
  <1>11. CASE PublishAll
    <2>1. \A D : Flat(base', D) => Layers(base', EmptyOverlay, D)
      BY <1>1, CleanFits DEF EmptyOverlay, HasChanges
    <2> QED
      BY <1>10, <1>11, <2>1 DEF PublishAll
  <1>12. ASSUME NEW selected, PublishSelected(selected)
         PROVE  disputed' \subseteq Paths \cup {Root} /\ Layers(base', overlay', disputed')
    <2> DEFINE scope == SelectedCommitPaths(overlay, selected)
               rest == Rebased(overlay, base')
    <2>1. Publish(Published(scope), rest) /\ base' = Published(scope)
      BY <1>12 DEF PublishSelected, Publish
    <2>2. ASSUME NEW E, Flat(base', disputed \cup E), Orphaned(base', rest) \subseteq E
          PROVE  Layers(base', rest, disputed \cup E)
      <3>1. ASSUME NEW p \in Paths, Free(p, disputed \cup E)
            PROVE  Fits(base', rest, p)
        <4>1. Free(p, disputed) /\ \A a \in Orphaned(base', rest) : ~SameOrChild(p, a)
          BY <2>2, <3>1 DEF Free
        <4> QED
          BY <2>1, <4>1, SelectionFits
      <3> QED
        BY <2>2, <3>1 DEF Layers
    <2> HIDE DEF scope, rest
    <2> QED
      BY <1>10, <2>1, <2>2
  <1>13. CASE RebindCleanBase
    <2>1. /\ overlay' = overlay /\ disputed' = disputed /\ ~HasChanges(overlay)
          /\ base' \in BaseTrees
      BY <1>13 DEF RebindCleanBase
    <2>2. Flat(base', disputed)
      BY <2>1, WorkingTreeAssumption DEF Flat, Under
    <2> QED
      BY <1>1, <2>1, <2>2, CleanFits
  <1> QED
    BY <1>4, <1>5, <1>6, <1>7, <1>8, <1>9, <1>11, <1>12, <1>13 DEF TreeNext

-----------------------------------------------------------------------------
(* The properties. *)

\* Publishing everything takes each file that is shown, as it is shown.
LEMMA PublishedIsVisible ==
  ASSUME TreeInv, NEW p \in Paths
  PROVE  /\ p \in DOMAIN Published(Paths) <=> Shown(base, overlay, p)
         /\ Shown(base, overlay, p) => Published(Paths)[p] = Read(overlay, p)
  <1> DEFINE tree == Published(Paths)
             written == Written(overlay)
             deleted == DeletedBaseFiles(overlay) \ written
  <1>1. /\ DOMAIN tree = (written \cap Paths) \cup (DOMAIN base \ (deleted \cap Paths))
        /\ \A q \in written \cap Paths : tree[q] = overlay.files[q]
        /\ \A q \in DOMAIN base \ ((written \cap Paths) \cup (deleted \cap Paths)) :
              tree[q] = base[q]
    BY PublishedIs DEF TreeInv, TreeTypeOK
  <1> HIDE DEF tree
  <1>2. /\ p \in written <=> /\ p \in DOMAIN overlay.files
                             /\ p \notin DOMAIN base \/ base[p] # overlay.files[p]
        /\ p \in deleted <=> /\ p \in DOMAIN base /\ IsDeleted(overlay, p)
                             /\ p \notin written
    BY DEF Written, DeletedBaseFiles
  <1> HIDE DEF written, deleted
  <1>3. p \in DOMAIN overlay.files => ~IsDeleted(overlay, p)
    BY DEF TreeInv, Tidy
  <1>4. p \in DOMAIN tree <=> Shown(base, overlay, p)
    BY <1>1, <1>2, <1>3 DEF Shown
  <1>5. Shown(base, overlay, p) => tree[p] = Read(overlay, p)
    BY <1>1, <1>2, <1>3 DEF Shown, Read
  <1> QED
    BY <1>4, <1>5 DEF tree

\* A walk from the root meets a file exactly if a layer shows it.
LEMMA ViewIs ==
  ASSUME base \in Trees, overlay \in Overlays, NEW D \in SUBSET (Paths \cup {Root}),
         Layers(base, overlay, D), NEW p \in Paths, Free(p, D)
  PROVE  /\ p \in DOMAIN View(overlay) <=> Shown(base, overlay, p)
         /\ p \in DOMAIN View(overlay) => View(overlay)[p] = Read(overlay, p)
  <1>1. View(overlay) = [f \in VisibleFiles(overlay, Root) |-> Read(overlay, f)]
    BY DEF View
  <1>2. p \in VisibleFiles(overlay, Root) => Shown(base, overlay, p)
    BY FreeStat DEF VisibleFiles
  <1>3. ASSUME Shown(base, overlay, p)
        PROVE  p \in VisibleFiles(overlay, Root)
    <2>1. /\ Stat(overlay, p) = "file"
          /\ \A a \in Paths : Under(p, a) => Stat(overlay, a) = "directory"
      BY <1>3, FreeStat
    <2>2. /\ p \in Seq(STRING) /\ p # Root /\ Len(p) \in Nat /\ Len(Root) = 0
          /\ \A m \in Int : m < 1 => SubSeq(p, 1, m) = Root /\ SubSeq(Root, 1, m) = Root
      BY WorkingTreeAssumption, SubSeqEmpty DEF Root
    <2>3. IsStrictPrefix(Root, p)
      BY <2>2 DEF IsStrictPrefix, IsPrefix
    <2>4. ASSUME NEW n \in Len(Root) .. Len(p) - 1
          PROVE  Stat(overlay, SubSeq(p, 1, n)) = "directory"
      <3>1. CASE n = 0
        <4>1. SubSeq(p, 1, n) = Root
          BY <2>2, <3>1
        <4> QED
          BY <4>1 DEF Stat
      <3>2. CASE n # 0
        <4>1. n \in 1 .. Len(p) /\ n \in 0 .. Len(p) /\ n # Len(p)
          BY <2>2, <2>4, <3>2
        <4>2. SubSeq(p, 1, n) \in Paths /\ Under(p, SubSeq(p, 1, n))
          BY <2>2, <4>1, PartsArePaths, PartIsUnder
        <4> QED
          BY <2>1, <4>2
      <3> QED
        BY <3>1, <3>2
    <2>5. p \in Listed(overlay, Root)
      BY <2>1, <2>3, <2>4 DEF Listed
    <2> QED
      BY <2>1, <2>5 DEF VisibleFiles
  <1> QED
    BY <1>1, <1>2, <1>3

LEMMA ViewIsPublished ==
  ASSUME TreeInv
  PROVE  PublicationMatchesView
  <1>1. SUFFICES ASSUME NEW p \in Paths, Agreed(p)
                 PROVE  /\ p \in DOMAIN Published(Paths) <=> p \in DOMAIN View(overlay)
                        /\ p \in DOMAIN Published(Paths) =>
                              Published(Paths)[p] = View(overlay)[p]
    BY DEF PublicationMatchesView
  <1>2. /\ p \in DOMAIN View(overlay) <=> Shown(base, overlay, p)
        /\ p \in DOMAIN View(overlay) => View(overlay)[p] = Read(overlay, p)
    BY <1>1, ViewIs DEF TreeInv, TreeTypeOK, Agreed, Free
  <1> QED
    BY <1>2, PublishedIsVisible

LEMMA ChangesNameAll ==
  ASSUME TreeInv
  PROVE  ChangesAreComplete
  <1>1. SUFFICES ASSUME NEW p \in Paths, Agreed(p), ~AsInBase(overlay, p)
                 PROVE  \E c \in Changes(overlay) : p \in {c.path, c.from}
    BY DEF ChangesAreComplete
  <1>2. p # Root
    BY WorkingTreeAssumption
  <1>3. ASSUME NEW r \in overlay.renames, p \in {r.to, r.from}
        PROVE  \E c \in Changes(overlay) : p \in {c.path, c.from}
    <2>1. Change("renamed", r.to, r.from) \in Changes(overlay)
      BY DEF Changes
    <2> QED
      BY <1>3, <2>1 DEF Change
  <1>4. ASSUME p \in Written(overlay)
        PROVE  \E c \in Changes(overlay) : p \in {c.path, c.from}
    <2>1. CASE p \in {r.to : r \in overlay.renames}
      BY <1>3, <2>1
    <2>2. CASE p \notin {r.to : r \in overlay.renames}
      <3>1. Change(IF p \in DOMAIN base THEN "modified" ELSE "added", p, p) \in Changes(overlay)
        BY <1>4, <2>2 DEF Changes
      <3> QED
        BY <3>1 DEF Change
    <2> QED
      BY <2>1, <2>2
  <1>5. ASSUME p \in DeletedBaseFiles(overlay)
        PROVE  \E c \in Changes(overlay) : p \in {c.path, c.from}
    <2>1. CASE p \in {r.from : r \in overlay.renames}
      BY <1>3, <2>1
    <2>2. CASE p \notin {r.from : r \in overlay.renames}
      <3>1. Change("deleted", p, p) \in Changes(overlay)
        BY <1>5, <2>2 DEF Changes
      <3> QED
        BY <3>1 DEF Change
    <2> QED
      BY <2>1, <2>2
  <1>6. p \in Written(overlay) \/ p \in DeletedBaseFiles(overlay)
    <2>1. Kind(base, p) = "file" <=> p \in DOMAIN base
      BY DEF Kind
    <2>2. p \in DOMAIN base => p \notin overlay.directories
      BY <1>1 DEF TreeInv, Layers, Fits, Agreed, Free
    <2>3. Stat(overlay, p) =
             IF IsDeleted(overlay, p) THEN "none"
             ELSE IF p \in DOMAIN overlay.files THEN "file"
             ELSE IF p \in overlay.directories THEN "directory"
             ELSE Kind(base, p)
      BY <1>2 DEF Stat
    <2> QED
      BY <1>1, <2>1, <2>2, <2>3 DEF AsInBase, Read, Written, DeletedBaseFiles
  <1> QED
    BY <1>4, <1>5, <1>6

\* Paths of two names leave no room for a file two levels below another.
LEMMA ShallowFlat ==
  ASSUME Shallow, NEW t \in Trees, IsTree(t)
  PROVE  Flat(t, {})
  <1>1. SUFFICES ASSUME NEW f \in DOMAIN t, NEW g \in DOMAIN t, Under(f, g)
                 PROVE  FALSE
    BY DEF Flat
  <1>2. f \in Paths /\ g \in Paths
    BY TreeMeaning
  <1>3. Front(f) \in Paths /\ SameOrChild(Front(f), g)
    BY <1>1, <1>2, UnderParent
  <1>4. Front(f) # g
    BY <1>1 DEF IsTree
  <1>5. Front(Front(f)) \in Paths
    BY <1>2, <1>3, <1>4, UnderParent DEF Under
  <1>6. SameOrChild(f, Front(f)) /\ Front(f) # f
    BY <1>2, <1>3, FrontIsAbove
  <1>7. Front(Front(f)) # Root
    BY <1>5, WorkingTreeAssumption
  <1> QED
    BY <1>2, <1>3, <1>6, <1>7, ShallowParent

LEMMA CleanShowsBase ==
  ASSUME Shallow, ShallowInv
  PROVE  CleanTreeShowsBase
  <1> USE DEF ShallowInv, TreeInv, TreeTypeOK
  <1>1. SUFFICES ASSUME ~HasChanges(overlay)
                 PROVE  View(overlay) = base
    BY DEF CleanTreeShowsBase
  <1>2. overlay.deleted = {} /\ DOMAIN overlay.files = {}
    BY <1>1 DEF HasChanges
  <1>3. DOMAIN base \subseteq Paths /\ base = [p \in DOMAIN base |-> base[p]]
    BY TreeMeaning
  <1>4. Layers(base, overlay, {})
    BY <1>1, <1>3, CleanFits, ShallowFlat
  <1>5. \A p : Shown(base, overlay, p) <=> p \in DOMAIN base
    BY <1>2 DEF Shown, IsDeleted
  <1>6. \A p \in Paths : /\ p \in DOMAIN View(overlay) <=> p \in DOMAIN base
                         /\ p \in DOMAIN View(overlay) => View(overlay)[p] = base[p]
    <2>1. \A p \in Paths : /\ p \in DOMAIN View(overlay) <=> Shown(base, overlay, p)
                           /\ p \in DOMAIN View(overlay) => View(overlay)[p] = Read(overlay, p)
      BY <1>4, ViewIs DEF Free
    <2>2. \A p : Read(overlay, p) = base[p]
      BY <1>2 DEF Read
    <2> QED
      BY <1>5, <2>1, <2>2
  <1> DEFINE v == View(overlay)
  <1>7. v = [p \in DOMAIN v |-> v[p]] /\ DOMAIN v \subseteq Paths
    BY DEF View, VisibleFiles, Listed
  <1> HIDE DEF v
  <1>8. DOMAIN v = DOMAIN base
    BY <1>3, <1>6, <1>7 DEF v
  <1>9. v = base
    BY <1>3, <1>6, <1>7, <1>8 DEF v
  <1> QED
    BY <1>9 DEF v

LEMMA RevertStep ==
  ASSUME TreeInv, Live(overlay), NEW p \in Paths, Revert(p)
  PROVE  AsInBase(overlay, p)'
  <1> DEFINE n == overlay'
  <1>1. PICK o \in Overlays, x \in Paths :
           /\ o.deleted = overlay.deleted
           /\ n = UnmarkDeleted(RemoveOverlayPaths(o, {p}), {x})
           /\ x = p \/ ~IsDeleted(overlay, p)
    <2>1. CASE \E r \in overlay.renames :
                  /\ r.to = p
                  /\ overlay' = UnmarkDeleted(
                        RemoveOverlayPaths([overlay EXCEPT !.renames = @ \ {r}], {p}), {r.from})
      <3>1. PICK r \in overlay.renames :
                  /\ r.to = p
                  /\ overlay' = UnmarkDeleted(
                        RemoveOverlayPaths([overlay EXCEPT !.renames = @ \ {r}], {p}), {r.from})
        BY <2>1
      <3> DEFINE o == [overlay EXCEPT !.renames = @ \ {r}]
      <3>2. r.from \in Paths /\ o \in Overlays /\ o.deleted = overlay.deleted
        BY DEF TreeInv, TreeTypeOK, Overlays, RenameRecord
      <3>3. ~IsDeleted(overlay, p)
        BY <3>1 DEF Live
      <3> QED
        BY <3>1, <3>2, <3>3
    <2>2. CASE overlay' = UnmarkDeleted(RemoveOverlayPaths(overlay, {p}), {p})
      BY <2>2 DEF TreeInv, TreeTypeOK
    <2> QED
      BY <2>1, <2>2 DEF Revert
  <1>2. base' = base
    BY DEF Revert
  <1> DEFINE m == RemoveOverlayPaths(o, {p})
  <1>3. /\ m \in Overlays /\ m.deleted = overlay.deleted
        /\ p \notin DOMAIN m.files /\ p \notin m.directories
    BY <1>1, RemoveKeeps, BelowItself
  <1> HIDE DEF m
  <1>4. /\ n.files = m.files /\ n.directories = m.directories
        /\ n.deleted \subseteq m.deleted /\ ~IsDeleted(n, x)
    BY <1>1, <1>3, UnmarkKeeps DEF m
  <1>5. ~IsDeleted(n, p)
    BY <1>1, <1>3, <1>4 DEF IsDeleted
  <1>6. p # Root
    BY WorkingTreeAssumption
  <1>7. /\ ~IsDeleted(overlay, p)'
        /\ p \notin (DOMAIN overlay.files)' /\ p \notin overlay.directories'
    BY <1>3, <1>4, <1>5 DEF IsDeleted
  <1>8. Stat(overlay, p)' = Kind(base, p)'
    BY <1>6, <1>7 DEF Stat
  <1>9. /\ p \in DOMAIN base' => Kind(base, p)' = "file"
        /\ p \notin DOMAIN base' => Kind(base, p)' # "file"
        /\ Read(overlay, p)' = base'[p]
    BY <1>7 DEF Kind, Read
  <1> QED
    BY <1>8, <1>9 DEF AsInBase

\* The view before and after a step.
ViewAgrees ==
    TreeInv => \A p \in Paths : Agreed(p) =>
        /\ p \in DOMAIN View(overlay) <=> Shown(base, overlay, p)
        /\ p \in DOMAIN View(overlay) => View(overlay)[p] = Read(overlay, p)

LEMMA ViewsAgree == ViewAgrees /\ ViewAgrees'
  <1>1. ViewAgrees
    BY ViewIs DEF ViewAgrees, TreeInv, TreeTypeOK, Agreed, Free
  <1>2. ViewAgrees'
    BY <1>1, PTL
  <1> QED
    BY <1>1, <1>2

LEMMA PublicationStep ==
  ASSUME TreeInv, TreeInv', TreeNext, base' # base, HasChanges(overlay),
         NEW p \in Paths, Agreed(p), Agreed(p)'
  PROVE  ShownAsBefore(p)
  <1> DEFINE v == View(overlay)
             w == View(overlay)'
             read == IF p \in DOMAIN overlay'.files THEN overlay'.files[p] ELSE base'[p]
  <1>1. /\ p \in DOMAIN v <=> Shown(base, overlay, p)
        /\ p \in DOMAIN v => v[p] = Read(overlay, p)
    BY ViewsAgree DEF ViewAgrees
  <1>2. /\ p \in DOMAIN w <=> Shown(base', overlay', p)
        /\ p \in DOMAIN w => w[p] = read
    BY ViewsAgree DEF ViewAgrees, Read
  <1> HIDE DEF v, w
  <1>3. /\ Shown(base', overlay', p) <=> Shown(base, overlay, p)
        /\ Shown(base, overlay, p) => read = Read(overlay, p)
    <2>1. CASE PublishAll
      <3>1. base' = Published(Paths) /\ overlay' = EmptyOverlay
        BY <2>1 DEF PublishAll, Publish
      <3>2. Shown(base', overlay', p) <=> p \in DOMAIN base'
        BY <3>1 DEF Shown, EmptyOverlay, IsDeleted
      <3>3. read = base'[p]
        BY <3>1 DEF EmptyOverlay
      <3> QED
        BY <3>1, <3>2, <3>3, PublishedIsVisible
    <2>2. ASSUME NEW selected, PublishSelected(selected)
          PROVE  /\ Shown(base', overlay', p) <=> Shown(base, overlay, p)
                 /\ Shown(base, overlay, p) => read = Read(overlay, p)
      <3> DEFINE scope == SelectedCommitPaths(overlay, selected)
      <3>1. base' = Published(scope) /\ overlay' = Rebased(overlay, base')
        BY <2>2 DEF PublishSelected, Publish
      <3> HIDE DEF scope
      <3>2. Free(p, disputed)
        BY DEF Agreed, Free
      <3> QED
        BY <3>1, <3>2, SelectionFits DEF TreeInv, TreeTypeOK
    <2>3. \/ PublishAll \/ RebindCleanBase
          \/ \E selected \in SUBSET ChangedPaths(overlay) : PublishSelected(selected)
      BY DEF TreeNext, WriteFile, CreateDirectory, Delete, Rename, Revert, RevertAll
    <2>4. CASE RebindCleanBase
      BY <2>4 DEF RebindCleanBase
    <2> QED
      BY <2>1, <2>2, <2>3, <2>4
  <1> QED
    BY <1>1, <1>2, <1>3 DEF ShownAsBefore, v, w

LEMMA TreeInvariant == TreeSpec => []TreeInv
  <1>1. TreeInit => TreeInv
    BY TreeStart DEF ShallowInv
  <1>2. TreeInv /\ [TreeNext]_treeVars => TreeInv'
    <2>1. ASSUME TreeInv, UNCHANGED treeVars
          PROVE  TreeInv'
      BY <2>1 DEF TreeInv, TreeTypeOK, Tidy, IsDeleted, treeVars
    <2>2. ASSUME TreeInv, TreeNext
          PROVE  TreeInv'
      BY <2>2, TreeStep, LayersStep DEF TreeInv, TreeTypeOK, Tidy, IsDeleted
    <2> QED
      BY <2>1, <2>2
  <1> QED
    BY <1>1, <1>2, PTL DEF TreeSpec

LEMMA ShallowInvariant ==
  ASSUME Shallow
  PROVE  TreeSpec => []ShallowInv
  <1> DEFINE Half == Live(overlay) /\ IsTree(base)
  <1>1. TreeInit => Half
    BY TreeStart DEF ShallowInv
  <1>2. TreeInv /\ Half /\ [TreeNext]_treeVars => Half'
    <2>1. ASSUME Half, UNCHANGED treeVars
          PROVE  Half'
      BY <2>1 DEF Live, IsDeleted, IsTree, treeVars
    <2>2. ASSUME TreeInv, Half, TreeNext
          PROVE  Half'
      BY <2>2, TreeStep DEF Live, IsDeleted, IsTree
    <2> QED
      BY <2>1, <2>2
  <1>3. TreeInv /\ Half => ShallowInv
    BY DEF ShallowInv
  <1> HIDE DEF Half
  <1> QED
    BY <1>1, <1>2, <1>3, TreeInvariant, PTL DEF TreeSpec

\* What is published is what is shown: the tree that a commit of every change
\* (buildAllCommitChanges) makes of the base is the tree the user saw, at every
\* path on which the code keeps the two layers in agreement.
THEOREM PublishedIsShown == TreeSpec => []PublicationMatchesView
  <1>1. TreeInv => PublicationMatchesView
    BY ViewIsPublished
  <1> QED
    BY <1>1, TreeInvariant, PTL

\* Whatever differs from the base is named by the change list
\* (getWorkingTreeChanges), where the layers agree.
THEOREM ChangesAreListed == TreeSpec => []ChangesAreComplete
  <1>1. TreeInv => ChangesAreComplete
    BY ChangesNameAll
  <1> QED
    BY <1>1, TreeInvariant, PTL

\* A publication, whole or of staged paths (acceptPublishedRevision and
\* acceptPartiallyPublishedRevision), changes no file that is shown, where the
\* layers agree before and after.
THEOREM PublicationsKeepFiles == TreeSpec => PublicationKeepsFiles
  <1>1. TreeInv /\ TreeInv' /\ [TreeNext]_treeVars =>
           [base' # base /\ HasChanges(overlay)
              => \A p \in Paths : Agreed(p) /\ Agreed(p)' => ShownAsBefore(p)]_treeVars
    BY PublicationStep DEF treeVars
  <1> QED
    BY <1>1, TreeInvariant, PTL DEF TreeSpec, PublicationKeepsFiles

\* With paths of at most two names, a tree without changes (hasChanges) shows
\* its base, so that rebindCleanBase may move it.
THEOREM CleanTreesShowTheirBase ==
  ASSUME Shallow
  PROVE  TreeSpec => []CleanTreeShowsBase
  <1>1. ShallowInv => CleanTreeShowsBase
    BY CleanShowsBase
  <1> QED
    BY <1>1, ShallowInvariant, PTL

\* With paths of at most two names, a reverted path (revert) is as in the base.
THEOREM RevertsRestoreTheBase ==
  ASSUME Shallow
  PROVE  TreeSpec => RevertRestoresBase
  <1>1. ShallowInv /\ [TreeNext]_treeVars =>
           [\A p \in Paths : Revert(p) => AsInBase(overlay, p)']_treeVars
    BY RevertStep DEF ShallowInv
  <1> QED
    BY <1>1, ShallowInvariant, PTL DEF TreeSpec, RevertRestoresBase

\* The types of base and overlay hold: every path that renameDirectory or the
\* rebase makes is a path, every content a content.
THEOREM TreeTypeCorrect == TreeSpec => []TreeTypeOK
  <1>1. TreeInv => TreeTypeOK
    BY DEF TreeInv
  <1> QED
    BY <1>1, TreeInvariant, PTL
=============================================================================
