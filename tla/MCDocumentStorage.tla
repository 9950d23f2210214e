-------------------------- MODULE MCDocumentStorage -------------------------
(***************************************************************************)
(* The calls of a behaviour are counted, so that the model checker can     *)
(* follow every interleaving of a few of them on several providers.        *)
(***************************************************************************)
EXTENDS DocumentStorage, TLC

CONSTANTS spaced, underscored, x, y,
          MaxCalls  \* bound: the calls of a behaviour

VARIABLE calls  \* how many have begun

MCInit == Init /\ calls = 0

Began == {w \in Workers : request[w] = Idle /\ request'[w] # Idle}

MCNext ==
    /\ Next
    /\ calls' = calls + Cardinality(Began)
    /\ calls' <= MaxCalls

\* The bound is reached and every call has ended.
MCDone ==
    /\ calls = MaxCalls /\ \A w \in Workers : request[w] = Idle
    /\ UNCHANGED <<vars, calls>>

MCSpec == MCInit /\ [][MCNext \/ MCDone]_<<vars, calls>>

\* Two names with one safe form, as "draft 1" and "draft_1" have.
MCSafeName == (spaced :> underscored) @@ (underscored :> underscored)

CollidingFiles ==
    {[name |-> spaced, bytes |-> x], [name |-> underscored, bytes |-> y]}

RequestSymmetry == Permutations(Buckets) \cup Permutations(Workers)
=============================================================================
