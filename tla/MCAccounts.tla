----------------------------- MODULE MCAccounts -----------------------------
(***************************************************************************)
(* Two people, one of whom Google knows under both addresses.  The calls   *)
(* of a behaviour are counted, to bound it.                                *)
(***************************************************************************)
EXTENDS Accounts, TLC

CONSTANTS ann, bob, sub,
          MaxCalls  \* bound: the calls of a behaviour

VARIABLE calls  \* how many have begun

MCInit == Init /\ calls = 0

Began == {w \in Workers : request[w] = Idle /\ request'[w] # Idle}

MCNext ==
    /\ Next
    /\ calls' = calls + Cardinality(Began)
    /\ calls' <= MaxCalls

\* Every call has ended, and none need come.
MCDone ==
    /\ \A w \in Workers : request[w] = Idle
    /\ UNCHANGED <<vars, calls>>

MCSpec == MCInit /\ [][MCNext \/ MCDone]_<<vars, calls>>

OneSub == [email : {ann, bob}, sub : {sub}]

RequestSymmetry ==
    Permutations(Workers) \cup Permutations(Tokens) \cup Permutations(Sessions)
        \cup Permutations(Passwords) \cup Permutations(Emails)
=============================================================================
