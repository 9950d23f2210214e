------------------------ MODULE MCWorkflowValidation ------------------------
(***************************************************************************)
(* Every graph over three step keys: any set of edges, and the steps k1;   *)
(* k1, k2; or k1, k2, k3 under any combination of flags (or no step).  A   *)
(* transition is named after its target, so out-degrees up to three occur. *)
(* When fewer than three steps are loaded the edges may lead to steps that *)
(* the caller's list does not have.                                        *)
(***************************************************************************)
EXTENDS WorkflowValidation

CONSTANTS k1, k2, k3

MCKeys == {k1, k2, k3}

MCActions == MCKeys

StepsOver(K) == {S \in SUBSET StepOf(K) : KeysOf(S) = K /\ UniqueKeys(S)}

MCSteps == UNION {StepsOver(K) : K \in {{}, {k1}, {k1, k2}, MCKeys}}

MCTransitions ==
    {{[from |-> e[1], action |-> e[2], to |-> e[2]] : e \in E} :
        E \in SUBSET (MCKeys \X MCKeys)}

MCDefinitions == [steps : MCSteps, transitions : MCTransitions]
=============================================================================
