------------------------- MODULE MCContractWorkflow -------------------------
(***************************************************************************)
(* Small definitions for the model checker.  Review has two start steps,   *)
(* as overlapping add_step calls can leave behind, a fork, a loop on one   *)
(* step, an action name used at several steps, and an end step with a way  *)
(* out of it.  Rework goes back and forth between two steps.               *)
(***************************************************************************)
EXTENDS ContractWorkflow, TLC

CONSTANTS a, b, z, go, alt

Plain(k) == [key |-> k, initial |-> FALSE, terminal |-> FALSE]

StartAt(k) == [key |-> k, initial |-> TRUE, terminal |-> FALSE]

EndAt(k) == [key |-> k, initial |-> FALSE, terminal |-> TRUE]

Edge(f, n, t) == [from |-> f, action |-> n, to |-> t]

Review ==
    [status |-> "active",
     steps |-> {StartAt(a), StartAt(b), EndAt(z)},
     transitions |-> {Edge(a, go, b), Edge(a, alt, z), Edge(b, go, z),
                      Edge(b, alt, b), Edge(z, alt, a)}]

Rework ==
    [status |-> "active",
     steps |-> {StartAt(a), Plain(b), EndAt(z)},
     transitions |-> {Edge(a, go, a), Edge(a, alt, b), Edge(b, go, a),
                      Edge(b, alt, z)}]

Draft == [Rework EXCEPT !.status = "draft"]

ReviewDefinitions == {Review, Rework, Draft}

OneReview == {[Review EXCEPT !.steps = {StartAt(a), Plain(b), EndAt(z)}]}

\* The start step is also an end step.
StartIsEnd ==
    {[status |-> "active",
      steps |-> {[key |-> a, initial |-> TRUE, terminal |-> TRUE]},
      transitions |-> {}]}

\* The readiness check accepts the definitions that the findings rest on.
ASSUME ActivatableAssumption ==
    \A d \in StartIsEnd \cup OneReview :
        ValidGraph({a, b, z}, d.steps, d.transitions)

RequestSymmetry == Permutations(Contracts) \cup Permutations(Workers)
=============================================================================
