--------------------------- MODULE MCContractRoom ---------------------------
(***************************************************************************)
(* Two contracts that move between two steps of two agents, two roles, and *)
(* a user who has one of them: overlapping requests of this user do what   *)
(* those of several users can.                                             *)
(*                                                                         *)
(* Two bounds.  The calls of a behaviour are counted.  And once something  *)
(* is shared or summarized, the work goes on by the JSON API, and no roles *)
(* are linked: no step reads both.                                         *)
(***************************************************************************)
EXTENDS ContractRoom, TLC

CONSTANTS draft, sign,       \* steps
          drafting, signing, \* their agents
          nda, lease,        \* contracts
          d1, d2, e1,        \* their documents
          MaxCalls           \* bound: the calls of a behaviour

VARIABLE calls  \* how many have begun, acts and assistants counted twice

MCInit == Init /\ calls = 0

\* Calls that are one step count too; those of time do not.
Begun ==
    IF \E w \in Workers : ~Acts(w) /\ Acts(w)' THEN 2
    ELSE IF \/ \E w \in Workers : request[w] = Idle /\ request'[w] # Idle
            \/ request' = request /\ <<linked, roleOf, work>>' # <<linked, roleOf, work>>
         THEN 1
    ELSE 0

NothingChecked ==
    /\ linked = [r \in Roles |-> None]
    /\ \A w \in Workers : ~Acts(w) /\ request[w].op # "reconcile"

NothingShared ==
    /\ \A l \in Links : link[l] = None
    /\ \A d \in Documents : summary[d] = 0
    /\ \A w \in Workers : request[w].op \notin {"share", "summarize"}

MCNext ==
    /\ Next
    /\ (NothingChecked \/ NothingShared)'
    /\ calls' = calls + Begun
    /\ calls' <= MaxCalls

\* Every call has ended, and none need come.
MCDone ==
    /\ \A w \in Workers : request[w] = Idle
    /\ UNCHANGED <<vars, calls>>

MCSpec == MCInit /\ [][MCNext \/ MCDone]_<<vars, calls>>

MCEdges == {[from |-> draft, action |-> "approve", to |-> sign],
            [from |-> sign, action |-> "request_changes", to |-> draft]}

MCOwner == (draft :> drafting) @@ (sign :> signing)

MCFirstStep == (nda :> draft) @@ (lease :> sign)

MCContractOf == (d1 :> nda) @@ (d2 :> nda) @@ (e1 :> lease)

MCMainDocument == (nda :> d1) @@ (lease :> e1)

\* An assistant that may only move the contract; no AI at all.
MCConfigs == {[enabled |-> TRUE, tools |-> {"advance_workflow_step"}],
              [enabled |-> FALSE, tools |-> {}]}

RoomSymmetry ==
    Permutations(Workers) \cup Permutations(Roles)
=============================================================================
