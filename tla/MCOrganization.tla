--------------------------- MODULE MCOrganization ---------------------------
(***************************************************************************)
(* A small plan, the preset "Simple Approval", names with one slug, and    *)
(* one or two subscriptions.  The calls of a behaviour are counted, to     *)
(* bound it.                                                               *)
(***************************************************************************)
EXTENDS Organization, WorkflowPresets, TLC

CONSTANTS MaxCalls,      \* bound: the calls, checkouts and steps of designers
          MaxDeliveries  \* bound: the webhooks that are handled

VARIABLES calls, deliveries  \* how many have begun

MCInit == Init /\ calls = 0 /\ deliveries = 0

Begun(w) == request[w] = Idle /\ request'[w] # Idle

Delivered == \E w \in Workers : Begun(w) /\ request'[w].op = "webhook"

Called ==
    \/ \E w \in Workers : Begun(w) /\ request'[w].op # "webhook"
    \/ request' = request /\ workflow' # workflow

MCNext ==
    /\ Next
    /\ calls' = IF Called THEN calls + 1 ELSE calls
    /\ deliveries' = IF Delivered THEN deliveries + 1 ELSE deliveries
    /\ calls' <= MaxCalls /\ deliveries' <= MaxDeliveries

\* Every call has ended, and none need come.
MCDone ==
    /\ \A w \in Workers : request[w] = Idle
    /\ UNCHANGED <<vars, calls, deliveries>>

MCSpec == MCInit /\ [][MCNext \/ MCDone]_<<vars, calls, deliveries>>

\* All the presets pass the readiness check once they are applied.
ASSUME PresetsAreReady ==
    \A p \in WORKFLOW_PRESETS :
        /\ ValidGraph(KeysOf(Range(p.steps)), Range(p.steps), Range(p.transitions))
        /\ UniqueKeys(Range(p.steps)) /\ Unambiguous(Range(p.transitions))
        /\ Len(p.steps) = Cardinality(KeysOf(Range(p.steps)))
        /\ TransitionsJoin(Range(p.steps), Range(p.transitions))

Small(free, team) == [free |-> free, team |-> team, business |-> None]

SmallLimits ==
    [p \in Plans |->
        [users |-> Small(1, 2)[p], contracts |-> Small(1, None)[p],
         agents |-> Small(2, None)[p], workflows |-> Small(1, None)[p]]]

TeamPrice == [team |-> "team"]

OnePreset == {SimpleApproval}

PresetAgents == {"Author", "Reviewer", "REVIEWER"}

FewWorkflowNames == {"Simple Approval", "Simple Approval 2", "Simple Approval (copy)"}

MCSlug ==
    [n \in PresetAgents \cup FewWorkflowNames |-> IF n = "REVIEWER" THEN "Reviewer" ELSE n]

MCCopyNames ==
    [n \in FewWorkflowNames |->
        IF n = "Simple Approval" THEN <<"Simple Approval (copy)">> ELSE <<>>]

MCPresetNames ==
    [n \in {"Simple Approval"} |-> <<"Simple Approval", "Simple Approval 2">>]

RowSymmetry ==
    Permutations(Workers) \cup Permutations(Agents) \cup Permutations(Workflows)
        \cup Permutations(Customers) \cup Permutations(Subscriptions)
=============================================================================
