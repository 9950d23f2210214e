---------------------------- MODULE Organization ----------------------------
(***************************************************************************)
(* What an organization's plan limits: its users, contracts, agents and    *)
(* workflows, created under concurrent requests while webhooks change the  *)
(* plan; and the two ways to a ready-made workflow, a clone and a preset.  *)
(*                                                                         *)
(* A preset is not one call: the handler lists the agents, creates each    *)
(* that is missing, chooses a name, creates the workflow and adds its      *)
(* steps and transitions, each in a unit of work of its own, and stops at  *)
(* the first that fails.  What was committed by then stays.                *)
(***************************************************************************)
EXTENDS Billing, Functions, Sequences, WorkflowGraph

CONSTANTS Limit,          \* PLAN_LIMITS: plan -> what is counted -> number or None
          Agents,         \* bound: the agents rows that are followed
          Workflows,      \* bound: the workflow_definitions rows
          AgentNames, WorkflowNames,
          Slug,           \* slugify, as a function of the names
          CopyNames,      \* of each name, the names a clone tries in turn
          Presets,        \* the presets that are applied
          PresetNames     \* of each preset's name, the names it tries in turn

Kinds == {"users", "contracts", "agents", "workflows"}

ASSUME LimitAssumption ==
    \A p \in Plans, k \in Kinds : Limit[p][k] = None \/ Limit[p][k] \in Nat

ASSUME PresetsAssumption ==
    \A p \in Presets :
        /\ p.name \in DOMAIN PresetNames /\ PresetNames[p.name] \in Seq(WorkflowNames)
        /\ p.agents \in Seq(AgentNames)
        /\ p.steps \in Seq(Range(p.steps)) /\ p.transitions \in Seq(Range(p.transitions))
        /\ \A s \in Range(p.steps) : /\ s.owner \in Range(p.agents)
                                    /\ {s.initial, s.terminal} \subseteq BOOLEAN

ASSUME NamesAssumption == CopyNames \in [WorkflowNames -> Seq(WorkflowNames)]

ASSUME RowsAssumption ==
    /\ IsFiniteSet(Agents) /\ IsFiniteSet(Workflows)
    /\ None \notin Agents \cup Workflows \cup AgentNames \cup WorkflowNames
    /\ None \notin Presets

VARIABLES tally,     \* how many users and contracts there are
          agent,     \* the name in each agents row
          workflow   \* each workflow_definitions row with its graph

library == <<tally, agent, workflow>>

vars == <<billing, library, request>>

Keys == UNION {KeysOf(Range(p.steps)) : p \in Presets}

StepRows == [key : Keys, initial : BOOLEAN, terminal : BOOLEAN, agent : Agents]

Edges == UNION {Range(p.transitions) : p \in Presets}

WorkflowOf == [name : WorkflowNames, active : BOOLEAN, clone : BOOLEAN,
               steps : SUBSET StepRows, transitions : SUBSET Edges]

ASSUME NoWorkflowAssumption == None \notin WorkflowOf

NoTask == [preset |-> None]

\* How far the application of a preset has come: the agents that were found or
\* made, the name and the row of the workflow, how many parts it has.
TaskOK(t) ==
    \/ t = NoTask
    \/ /\ t.preset \in Presets
       /\ t.ids \in [Range(t.preset.agents) -> Agents \cup {None}]
       /\ t.name \in WorkflowNames \cup {None}
       /\ t.workflow \in Workflows \cup {None}
       /\ t.built \in 0..Len(t.preset.steps) + Len(t.preset.transitions)

RenameOf == [op : {"rename"}, workflow : Workflows, name : WorkflowNames]

RenameAgentOf == [op : {"renameAgent"}, agent : Agents, name : AgentNames]

RequestOK(r) ==
    \/ r = Idle
    \/ r \in CheckoutOf
    \/ r.op = "webhook" /\ r.event \in EventOf /\ r.row \in OrgOf
    \/ r.op = "create" /\ r.kind \in Kinds /\ r.plan \in held /\ TaskOK(r.task)
    \/ r.op = "duplicate" /\ r.name \in WorkflowNames
    \/ r \in RenameOf \/ r \in RenameAgentOf
    \/ r.op = "preset" /\ r.task # NoTask /\ TaskOK(r.task)

AgentRows == {a \in Agents : agent[a] # None}

WorkflowRows == {d \in Workflows : workflow[d] # None}

\* A step belongs to an agent that exists.
TypeOK ==
    /\ BillingTypeOK
    /\ tally \in [{"users", "contracts"} -> Nat]
    /\ agent \in [Agents -> AgentNames \cup {None}]
    /\ \A d \in WorkflowRows :
           /\ workflow[d] \in WorkflowOf
           /\ \A s \in workflow[d].steps : s.agent \in AgentRows
    /\ \A w \in Workers : RequestOK(request[w])

Init ==
    /\ BillingInit
    /\ tally = [k \in {"users", "contracts"} |-> 0]
    /\ agent = [a \in Agents |-> None]
    /\ workflow = [d \in Workflows |-> None]
    /\ request = [w \in Workers |-> Idle]

AgentSlugs == {Slug[agent[a]] : a \in AgentRows}

\* Of the workflows other than those in D.
SlugsBeside(D) == {Slug[workflow[d].name] : d \in WorkflowRows \ D}

----------------------------------------------------------------------------
(***************************************************************************)
(* Count, then insert: create_user, create_contract, create_agent and      *)
(* create_definition.                                                      *)
(***************************************************************************)
Rows(kind) ==
    CASE kind = "agents" -> Cardinality(AgentRows)
      [] kind = "workflows" -> Cardinality(WorkflowRows)
      [] OTHER -> tally[kind]

\* The row of the organization is read first.
Creating(kind, name, task) ==
    [op |-> "create", kind |-> kind, name |-> name, plan |-> org.plan,
     counted |-> FALSE, task |-> task]

LoadForCreate(w) ==
    /\ \E k \in Kinds :
           \E n \in CASE k = "agents" -> AgentNames [] k = "workflows" -> WorkflowNames
                      [] OTHER -> {None} :
               Begin(w, Creating(k, n, NoTask))
    /\ UNCHANGED <<billing, library>>

\* Mutant: one more than the limit.
AtMost(limit, n) == limit # None => n <= limit

\* can_add_user, can_add_contract, can_add_agent, can_add_workflow
CanAdd(limit, n) == limit # None => n < limit

\* The rows are listed, to be counted.
CountRows(w) ==
    LET r == request[w]
    IN  /\ r.op = "create" /\ ~r.counted
        /\ CanAdd(Limit[r.plan][r.kind], Rows(r.kind))
        /\ request' = [request EXCEPT ![w].counted = TRUE]
        /\ UNCHANGED <<billing, library>>

\* What was made is what the call is for, or a part of a preset's.
GoOn(w, task) ==
    IF request[w].task = NoTask THEN Close(w)
    ELSE request' = [request EXCEPT ![w] = [op |-> "preset", task |-> task]]

\* For a user, uq_user_email is left to Accounts.
InsertUserOrContract(w) ==
    LET r == request[w]
    IN  /\ r.op = "create" /\ r.counted /\ r.kind \in DOMAIN tally
        /\ tally' = [tally EXCEPT ![r.kind] = @ + 1]
        /\ Close(w)
        /\ UNCHANGED <<billing, agent, workflow>>

\* uq_agent_org_slug
InsertAgent(w) ==
    LET r == request[w]
    IN  /\ r.op = "create" /\ r.counted /\ r.kind = "agents"
        /\ Slug[r.name] \notin AgentSlugs
        /\ \E a \in Agents \ AgentRows :
               /\ agent' = [agent EXCEPT ![a] = r.name]
               /\ GoOn(w, [r.task EXCEPT !.ids[r.name] = a])
        /\ UNCHANGED <<billing, tally, workflow>>

Draft(name) == [name |-> name, active |-> FALSE, clone |-> FALSE,
                steps |-> {}, transitions |-> {}]

\* uq_workflow_org_slug
InsertWorkflow(w) ==
    LET r == request[w]
    IN  /\ r.op = "create" /\ r.counted /\ r.kind = "workflows"
        /\ Slug[r.name] \notin SlugsBeside({})
        /\ \E d \in Workflows \ WorkflowRows :
               /\ workflow' = [workflow EXCEPT ![d] = Draft(r.name)]
               /\ GoOn(w, [r.task EXCEPT !.workflow = d])
        /\ UNCHANGED <<billing, tally, agent>>

----------------------------------------------------------------------------
(***************************************************************************)
(* Renaming and cloning.                                                   *)
(***************************************************************************)
\* rename_agent looks for no clash: the constraint finds it.
LoadForRenameAgent(w) ==
    /\ \E a \in AgentRows, n \in AgentNames :
           Begin(w, [op |-> "renameAgent", agent |-> a, name |-> n])
    /\ UNCHANGED <<billing, library>>

RenameAgent(w) ==
    LET r == request[w]
    IN  /\ r.op = "renameAgent"
        /\ \A a \in AgentRows \ {r.agent} : Slug[agent[a]] # Slug[r.name]
        /\ agent' = [agent EXCEPT ![r.agent] = r.name]
        /\ Close(w)
        /\ UNCHANGED <<billing, tally, workflow>>

\* update_details looks for a clash first.
LoadForRename(w) ==
    /\ \E d \in WorkflowRows, n \in WorkflowNames :
           /\ Slug[n] \notin SlugsBeside({d})
           /\ Begin(w, [op |-> "rename", workflow |-> d, name |-> n])
    /\ UNCHANGED <<billing, library>>

RenameWorkflow(w) ==
    LET r == request[w]
    IN  /\ r.op = "rename"
        /\ Slug[r.name] \notin SlugsBeside({r.workflow})
        /\ workflow' = [workflow EXCEPT ![r.workflow].name = r.name]
        /\ Close(w)
        /\ UNCHANGED <<billing, tally, agent>>

\* _unique_copy_name and _unique_workflow_name
FirstFree(names, slugs) ==
    names[CHOOSE i \in DOMAIN names :
              Slug[names[i]] \notin slugs /\ \A j \in 1..i - 1 : Slug[names[j]] \in slugs]

SomeFree(names, slugs) == \E n \in Range(names) : Slug[n] \notin slugs

\* duplicate_definition reads the source and the list of the workflows, but
\* neither the plan nor the number of workflows.
LoadForDuplicate(w) ==
    /\ \E d \in WorkflowRows :
           LET names == CopyNames[workflow[d].name]
           IN  /\ SomeFree(names, SlugsBeside({}))
               /\ Begin(w, [op |-> "duplicate", source |-> workflow[d],
                            name |-> FirstFree(names, SlugsBeside({}))])
    /\ UNCHANGED <<billing, library>>

InsertClone(w) ==
    LET r == request[w]
    IN  /\ r.op = "duplicate"
        /\ Slug[r.name] \notin SlugsBeside({})
        /\ \E d \in Workflows \ WorkflowRows :
               workflow' = [workflow EXCEPT ![d] =
                   [r.source EXCEPT !.name = r.name, !.active = FALSE, !.clone = TRUE]]
        /\ Close(w)
        /\ UNCHANGED <<billing, tally, agent>>

----------------------------------------------------------------------------
(***************************************************************************)
(* Applying a preset.                                                      *)
(***************************************************************************)
IdOf(name) ==
    IF \E a \in AgentRows : agent[a] = name
    THEN CHOOSE a \in AgentRows : agent[a] = name ELSE None

\* The agents are listed once.
LoadForPreset(w) ==
    /\ \E p \in Presets :
           Begin(w, [op |-> "preset",
                     task |-> [preset |-> p, ids |-> [n \in Range(p.agents) |-> IdOf(n)],
                               name |-> None, workflow |-> None, built |-> 0]])
    /\ UNCHANGED <<billing, library>>

\* Mutant: the agents that are missing are not created.
NoneMissing(t) == {}

Missing(t) == {i \in DOMAIN t.preset.agents : t.ids[t.preset.agents[i]] = None}

CreateMissingAgent(w) ==
    LET t == request[w].task
    IN  /\ request[w].op = "preset"
        /\ \E i \in Missing(t) :
               /\ \A j \in Missing(t) : i <= j
               /\ request' = [request EXCEPT ![w] =
                      Creating("agents", t.preset.agents[i], t)]
        /\ UNCHANGED <<billing, library>>

ChooseName(w) ==
    LET t == request[w].task
        names == PresetNames[t.preset.name]
    IN  /\ request[w].op = "preset" /\ Missing(t) = {} /\ t.name = None
        /\ SomeFree(names, SlugsBeside({}))
        /\ request' = [request EXCEPT ![w].task.name = FirstFree(names, SlugsBeside({}))]
        /\ UNCHANGED <<billing, library>>

CreatePresetWorkflow(w) ==
    LET t == request[w].task
    IN  /\ request[w].op = "preset" /\ t.name # None /\ t.workflow = None
        /\ request' = [request EXCEPT ![w] = Creating("workflows", t.name, t)]
        /\ UNCHANGED <<billing, library>>

StepRow(s, ids) ==
    [key |-> s.key, initial |-> s.initial, terminal |-> s.terminal, agent |-> ids[s.owner]]

\* What add_step and add_transition ask of the definition (WorkflowDefinition
\* follows the reads inside these calls; here each is one step).
StepFits(row, s) ==
    /\ ~row.active
    /\ s.key \notin KeysOf(row.steps)
    /\ s.initial => InitialSteps(row.steps) = {}

EdgeFits(row, e) ==
    /\ ~row.active
    /\ {e.from, e.to} \subseteq KeysOf(row.steps)
    /\ \A x \in TransitionsFrom(row.transitions, e.from) : x.action # e.action

\* Mutant: a step that is refused is passed over.
AddNextStepOrSkip(w) ==
    LET t == request[w].task
        s == t.preset.steps[t.built + 1]
    IN  /\ request[w].op = "preset" /\ t.workflow # None
        /\ t.built < Len(t.preset.steps)
        /\ workflow' = IF StepFits(workflow[t.workflow], s)
                       THEN [workflow EXCEPT ![t.workflow].steps = @ \cup {StepRow(s, t.ids)}]
                       ELSE workflow
        /\ request' = [request EXCEPT ![w].task.built = @ + 1]
        /\ UNCHANGED <<billing, tally, agent>>

AddNextStep(w) ==
    LET t == request[w].task
        s == t.preset.steps[t.built + 1]
    IN  /\ request[w].op = "preset" /\ t.workflow # None
        /\ t.built < Len(t.preset.steps)
        /\ StepFits(workflow[t.workflow], s)
        /\ workflow' = [workflow EXCEPT ![t.workflow].steps = @ \cup {StepRow(s, t.ids)}]
        /\ request' = [request EXCEPT ![w].task.built = @ + 1]
        /\ UNCHANGED <<billing, tally, agent>>

AddNextTransition(w) ==
    LET t == request[w].task
        i == t.built + 1 - Len(t.preset.steps)
    IN  /\ request[w].op = "preset" /\ t.workflow # None
        /\ i \in DOMAIN t.preset.transitions
        /\ EdgeFits(workflow[t.workflow], t.preset.transitions[i])
        /\ workflow' = [workflow EXCEPT ![t.workflow].transitions =
                            @ \cup {t.preset.transitions[i]}]
        /\ request' = [request EXCEPT ![w].task.built = @ + 1]
        /\ UNCHANGED <<billing, tally, agent>>

Built(t) == t.built = Len(t.preset.steps) + Len(t.preset.transitions)

FinishPreset(w) ==
    /\ request[w].op = "preset" /\ Built(request[w].task)
    /\ Close(w)
    /\ UNCHANGED <<billing, library>>

----------------------------------------------------------------------------
\* Others find the draft in the list and work on it at once: any step, and any
\* transition of the presets (the bound).
DesignStep(d) ==
    /\ \E s \in StepRows :
           /\ s.agent \in AgentRows
           /\ StepFits(workflow[d], s)
           /\ workflow' = [workflow EXCEPT ![d].steps = @ \cup {s}]
    /\ UNCHANGED <<billing, tally, agent, request>>

DesignTransition(d) ==
    /\ \E e \in Edges :
           /\ EdgeFits(workflow[d], e)
           /\ workflow' = [workflow EXCEPT ![d].transitions = @ \cup {e}]
    /\ UNCHANGED <<billing, tally, agent, request>>

Activate(d) ==
    /\ ~workflow[d].active
    /\ ValidGraph(Keys, workflow[d].steps, workflow[d].transitions)
    /\ workflow' = [workflow EXCEPT ![d].active = TRUE]
    /\ UNCHANGED <<billing, tally, agent, request>>

\* A limit, a constraint, a lock or a lost process ends a call or the
\* application of a preset where it is.
Stop(w) ==
    /\ request[w].op \notin {"none", "checkout"}
    /\ Close(w)
    /\ UNCHANGED <<billing, library>>

LibraryNext ==
    \/ \E w \in Workers :
           \/ LoadForCreate(w) \/ CountRows(w)
           \/ InsertUserOrContract(w) \/ InsertAgent(w) \/ InsertWorkflow(w)
           \/ LoadForRenameAgent(w) \/ RenameAgent(w)
           \/ LoadForRename(w) \/ RenameWorkflow(w)
           \/ LoadForDuplicate(w) \/ InsertClone(w)
           \/ LoadForPreset(w) \/ CreateMissingAgent(w) \/ ChooseName(w)
           \/ CreatePresetWorkflow(w) \/ AddNextStep(w) \/ AddNextTransition(w)
           \/ FinishPreset(w) \/ Stop(w)
    \/ \E d \in WorkflowRows : DesignStep(d) \/ DesignTransition(d) \/ Activate(d)

Next == (BillingNext /\ UNCHANGED library) \/ LibraryNext

Spec == Init /\ [][Next]_vars

----------------------------------------------------------------------------
(***************************************************************************)
(* What holds however the requests and the webhooks interleave.            *)
(***************************************************************************)
\* The rows that were counted before they were inserted: not the clones.
Counted(kind) ==
    IF kind = "workflows" THEN Cardinality({d \in WorkflowRows : ~workflow[d].clone})
    ELSE Rows(kind)

\* "the plan is limited to N users" and so on: through overlapping requests and
\* changes of the plan the organization exceeds the largest limit it ever had
\* by the requests in progress at most, clones aside.
LimitsNearlyKept ==
    \A k \in Kinds :
        (\A p \in held : Limit[p][k] # None) =>
            \E p \in held : Counted(k) <= Limit[p][k] + Cardinality(Workers) - 1

\* As far as the application of a preset has come without a refusal, the
\* workflow has that part of the preset's graph and every step belongs to the
\* agent that the preset names for it, whatever others do to the draft.
PresetsAreWhole ==
    \A w \in Workers :
        LET t == request[w].task
        IN  request[w].op = "preset" /\ t.workflow # None =>
                /\ \A i \in 1..t.built :
                       \/ i > Len(t.preset.steps)
                       \/ StepRow(t.preset.steps[i], t.ids) \in workflow[t.workflow].steps
                /\ \A i \in 1..t.built - Len(t.preset.steps) :
                       t.preset.transitions[i] \in workflow[t.workflow].transitions
=============================================================================
