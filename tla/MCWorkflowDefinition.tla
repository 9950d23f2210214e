------------------------ MODULE MCWorkflowDefinition ------------------------
(***************************************************************************)
(* Sets of calls for the model checker, over two step keys.                *)
(***************************************************************************)
EXTENDS WorkflowDefinition, TLC

CONSTANTS k1, k2, go, w1, w2

\* Two calls may both ask for a start step, any step may also be an end, and
\* transitions go both ways.
AllCalls == AddStepCalls \cup AddTransitionCalls \cup {ActivateCall, DuplicateCall}

\* k1 is usually the start and k2 is not; either may be an end, and an end may
\* be a start or not: clones with two start steps, with none, and loops occur.
EditCalls ==
    {c \in AddStepCalls : c.initial = (c.key = k1) \/ c.terminal}
        \cup {c \in AddTransitionCalls : c.from = k1 \/ c.to = k1}
        \cup {ActivateCall, DuplicateCall}

WorkerSymmetry == Permutations(Workers)
=============================================================================
