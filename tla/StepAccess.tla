----------------------------- MODULE StepAccess -----------------------------
(***************************************************************************)
(* Who may work on a contract: the roles linked to the agent that owns its *)
(* current step.  The rule is tested by the routes of the web page and by  *)
(* each tool call of the AI assistant, by three reads in units of work of  *)
(* their own (the instance, the definition, the agent's roles); the deed   *)
(* follows in another.  The user whose role is tested was loaded by the    *)
(* login gate when the request came in, and the assistant keeps it for its *)
(* whole run.  The rule is tested for the contract that the call names; an *)
(* upload then goes to the document that it names, of whichever contract.  *)
(* The routes of the JSON API do the same deeds and test no rule.          *)
(*                                                                         *)
(* Meanwhile admins link roles to agents, one form at a time or with the   *)
(* checklist of an agent, which commits role by role.  A transition itself *)
(* is one step here: ContractWorkflow follows what happens inside it.      *)
(***************************************************************************)
EXTENDS FiniteSets, Naturals

CONSTANTS Steps,        \* the steps of the definitions, locked
          Edges,        \* their transitions: [from, action, to]
          Owner,        \* the agent of each step, as a function
          Agents, Roles, Users,
          Contracts,
          FirstStep,    \* the step each contract starts at, as a function
          Documents,    \* bound: the documents that the contracts may get
          ContractOf,   \* documents.contract_id, as a function
          MainDocument, \* the one each contract is created with, as a function
          MaxVersions,  \* bound: the versions of a document
          Configs,      \* the AI settings that are saved
          Workers,      \* the requests that may be in progress at once
          None          \* Python's None

Tools == {"advance_workflow_step", "add_document_to_contract", "upload_document_version"}

ASSUME StepsAssumption ==
    /\ \A e \in Edges : {e.from, e.to} \subseteq Steps
    /\ Owner \in [Steps -> Agents]
    /\ FirstStep \in [Contracts -> Steps]

ASSUME DocumentsAssumption ==
    /\ ContractOf \in [Documents -> Contracts]
    /\ MainDocument \in [Contracts -> Documents]
    /\ \A c \in Contracts : ContractOf[MainDocument[c]] = c

ASSUME ConfigsAssumption == Configs \subseteq [enabled : BOOLEAN, tools : SUBSET Tools]

ASSUME NoneAssumption == None \notin Agents \cup Steps

ASSUME VersionsAssumption == MaxVersions \in Nat

ASSUME WorkersAssumption == IsFiniteSet(Workers)

VARIABLES linked,     \* roles.agent_id
          roleOf,     \* users.role_id
          place,      \* current_step_key of each contract's instance
          documents,  \* the documents of all contracts
          versions,   \* how many versions each has
          ai,         \* ai_config of each contract: enabled, allowed_tools
          request,    \* what each worker has read, and for which call
          overtaken,  \* history: the workers who have read a step, or the list
                      \* of roles, before somebody else changed one of them
          late        \* history: how many deeds the rule would have refused to
                      \* each contract, since it moved or roles were linked

work == <<place, documents, versions, ai>>

access == <<linked, roleOf, work, overtaken, late>>

\* No settings: everything is allowed.
DefaultConfig == [enabled |-> TRUE, tools |-> Tools]

\* What a form or a tool call asks for.
Deeds ==
    [tool : {"advance_workflow_step"}, action : {e.action : e \in Edges}]
    \cup [tool : {"add_document_to_contract"}]
    \cup [tool : {"upload_document_version"}, document : Documents]
    \cup [tool : {"set_ai_config"}, config : Configs]

Idle == [op |-> "none"]

\* An act is one route of the web page; an assistant performs one deed after
\* another.
ActOf == [op : {"act", "assistant"}, user : Users, role : Roles, contract : Contracts,
          tools : SUBSET Tools, deed : Deeds \cup {None}, step : Steps \cup {None},
          may : BOOLEAN]

ReconcileOf == [op : {"reconcile"}, agent : Agents, ticked : SUBSET Roles,
                todo : SUBSET Roles]

Acts(w) == request[w].op \in {"act", "assistant"}

\* Those who have read where contract c is.
ReadersOf(c) == {w \in Workers : Acts(w) /\ request[w].contract = c /\ request[w].step # None}

\* Those who have read a step, or which roles are linked.
Readers == {w \in Workers : request[w].op = "reconcile"} \cup UNION {ReadersOf(c) : c \in Contracts}

AccessTypeOK ==
    /\ linked \in [Roles -> Agents \cup {None}]
    /\ roleOf \in [Users -> Roles]
    /\ place \in [Contracts -> Steps]
    /\ documents \subseteq Documents
    /\ versions \in [Documents -> 0..MaxVersions]
    /\ \A d \in Documents \ documents : versions[d] = 0
    /\ ai \in [Contracts -> Configs \cup {DefaultConfig}]
    /\ overtaken \subseteq Readers
    /\ late \in [Contracts -> Nat]

AccessInit ==
    /\ linked = [r \in Roles |-> None]
    /\ roleOf \in [Users -> Roles]
    /\ place = FirstStep
    /\ documents = {MainDocument[c] : c \in Contracts}
    /\ versions = [d \in Documents |-> 0]
    /\ ai = [c \in Contracts |-> DefaultConfig]
    /\ overtaken = {}
    /\ late = [c \in Contracts |-> 0]

Begin(w, r) == request' = [request EXCEPT ![w] = r]

\* What w has read is dropped.
Close(w) ==
    /\ request' = [request EXCEPT ![w] = Idle]
    /\ overtaken' = overtaken \ {w}

LinkedTo(a) == {r \in Roles : linked[r] = a}

\* can_edit_step, domain and service: the rule.
CanEdit(role, agent) == LinkedTo(agent) = {} \/ role \in LinkedTo(agent)

----------------------------------------------------------------------------
(***************************************************************************)
(* Admins.                                                                 *)
(***************************************************************************)
\* Roles were linked while others had read a step or the list of roles.
Linking(others) ==
    /\ overtaken' = overtaken \cup others
    /\ late' = [c \in Contracts |-> 0]
    /\ UNCHANGED <<roleOf, work>>

\* create_role and update_role, with the agent that the form names.
SetRoleAgent(r) ==
    /\ \E a \in Agents \cup {None} : linked' = [linked EXCEPT ![r] = a]
    /\ Linking(Readers)
    /\ UNCHANGED request

\* update_profile
SetUserRole(u) ==
    /\ \E r \in Roles : roleOf' = [roleOf EXCEPT ![u] = r]
    /\ UNCHANGED <<linked, work, request, overtaken, late>>

\* Mutant: roles that are no longer ticked stay linked.
TodoLinksOnly(a, ticked) == ticked \ LinkedTo(a)

\* _reconcile_agent_roles: the roles to be linked and those to be unlinked.
Todo(a, ticked) == (ticked \ LinkedTo(a)) \cup (LinkedTo(a) \ ticked)

LoadForReconcile(w) ==
    /\ request[w] = Idle
    /\ \E a \in Agents, ticked \in SUBSET Roles :
           Begin(w, [op |-> "reconcile", agent |-> a, ticked |-> ticked,
                     todo |-> Todo(a, ticked)])
    /\ UNCHANGED access

\* set_agent, one role and one commit at a time, by their names.
Relink(w) ==
    LET q == request[w]
    IN  /\ q.op = "reconcile"
        /\ \E r \in q.todo :
               /\ linked' = [linked EXCEPT ![r] = IF r \in q.ticked THEN q.agent ELSE None]
               /\ request' = [request EXCEPT ![w].todo = @ \ {r}]
        /\ Linking(Readers \ {w})

FinishReconcile(w) ==
    /\ request[w].op = "reconcile" /\ request[w].todo = {}
    /\ Close(w)
    /\ UNCHANGED <<linked, roleOf, work, late>>

----------------------------------------------------------------------------
(***************************************************************************)
(* What the services do, whoever calls them.                               *)
(***************************************************************************)
\* transition_contract looks the action up from where the contract is now.
Move(c, action) ==
    /\ \E e \in Edges :
           e.from = place[c] /\ e.action = action /\ place' = [place EXCEPT ![c] = e.to]
    /\ UNCHANGED <<documents, versions, ai>>

Add(c) ==
    /\ \E d \in Documents \ documents : ContractOf[d] = c /\ documents' = documents \cup {d}
    /\ UNCHANGED <<place, versions, ai>>

\* upload_version, and an import: the document is found by its id alone.  Numbers
\* that overlapping uploads share are left to DocumentStorage.
AddVersion(d) ==
    /\ d \in documents /\ versions[d] < MaxVersions
    /\ versions' = [versions EXCEPT ![d] = @ + 1]
    /\ UNCHANGED <<place, documents, ai>>

Configure(c, config) ==
    /\ ai' = [ai EXCEPT ![c] = config]
    /\ UNCHANGED <<place, documents, versions>>

----------------------------------------------------------------------------
(***************************************************************************)
(* The routes of the JSON API, which ask for no user.                      *)
(***************************************************************************)
ApiTransition(c) ==
    /\ \E e \in Edges : Move(c, e.action)
    /\ overtaken' = overtaken \cup ReadersOf(c)
    /\ late' = [late EXCEPT ![c] = 0]
    /\ UNCHANGED <<linked, roleOf, request>>

ApiAddDocument(c) ==
    /\ Add(c)
    /\ UNCHANGED <<linked, roleOf, request, overtaken, late>>

\* upload_version and import_version
ApiUploadVersion(d) ==
    /\ AddVersion(d)
    /\ UNCHANGED <<linked, roleOf, request, overtaken, late>>

----------------------------------------------------------------------------
(***************************************************************************)
(* Acts and tool calls.                                                    *)
(***************************************************************************)
Asked(op, u, c, tools, deed) ==
    [op |-> op, user |-> u, role |-> roleOf[u], contract |-> c, tools |-> tools,
     deed |-> deed, step |-> None, may |-> FALSE]

\* The routes for transitions, documents, uploads, imports and the AI settings.
LoadForAct(w) ==
    /\ request[w] = Idle
    /\ \E u \in Users, c \in Contracts, d \in Deeds : Begin(w, Asked("act", u, c, {}, d))
    /\ UNCHANGED access

\* run_assistant reads the contract's settings once.
LoadForAssistant(w) ==
    /\ request[w] = Idle
    /\ \E u \in Users, c \in Contracts :
           ai[c].enabled /\ Begin(w, Asked("assistant", u, c, ai[c].tools, None))
    /\ UNCHANGED access

\* The model calls one of the tools that it was given.
CallTool(w) ==
    LET q == request[w]
    IN  /\ q.op = "assistant" /\ q.deed = None
        /\ \E d \in Deeds :
               d.tool \in q.tools /\ request' = [request EXCEPT ![w].deed = d]
        /\ UNCHANGED access

ToBeChecked(w) == Acts(w) /\ request[w].deed # None /\ ~request[w].may

\* get_instance
ReadStep(w) ==
    /\ ToBeChecked(w) /\ request[w].step = None
    /\ request' = [request EXCEPT ![w].step = place[request[w].contract]]
    /\ UNCHANGED access

\* The roles are read now.
CheckRoles(w) ==
    LET q == request[w]
    IN  /\ ToBeChecked(w) /\ q.step # None
        /\ CanEdit(q.role, Owner[q.step])
        /\ request' = [request EXCEPT ![w].may = TRUE]
        /\ UNCHANGED access

\* Mutant: the assistant is checked before its first deed only.
AfterToolUnchecked(q) == [q EXCEPT !.deed = None]

\* The next tool call is checked again.
AfterTool(q) == [q EXCEPT !.deed = None, !.step = None, !.may = FALSE]

\* The request of an act is over, that of an assistant goes on.
After(q) == IF q.op = "act" THEN Idle ELSE AfterTool(q)

GoOn(w) == request' = [request EXCEPT ![w] = After(@)]

\* How many deeds the rule refuses by now, when w does another: the rule as the
\* tables have it, for the role that the request came with.
LateWith(w, n) ==
    LET q == request[w]
    IN  [late EXCEPT ![q.contract] =
            IF CanEdit(q.role, Owner[place[q.contract]]) THEN n ELSE n + 1]

Does(w, tool) ==
    /\ Acts(w) /\ request[w].may
    /\ request[w].deed # None /\ request[w].deed.tool = tool
    /\ GoOn(w)
    /\ UNCHANGED <<linked, roleOf>>

\* A deed that does not move the contract.
DoesInPlace(w, tool) ==
    /\ Does(w, tool)
    /\ overtaken' = overtaken \ {w}
    /\ late' = LateWith(w, late[request[w].contract])

Advance(w) ==
    LET q == request[w]
    IN  /\ Does(w, "advance_workflow_step")
        /\ Move(q.contract, q.deed.action)
        /\ overtaken' = (overtaken \cup ReadersOf(q.contract)) \ {w}
        /\ late' = LateWith(w, 0)

AddDocument(w) ==
    DoesInPlace(w, "add_document_to_contract") /\ Add(request[w].contract)

\* The contract that was checked is not compared with the document's.
UploadVersion(w) ==
    DoesInPlace(w, "upload_document_version") /\ AddVersion(request[w].deed.document)

SetAiConfig(w) ==
    DoesInPlace(w, "set_ai_config") /\ Configure(request[w].contract, request[w].deed.config)

\* PermissionDeniedError, an action that is not there, another error: it ends an
\* act, and is told to the model as the result of its tool call.
Fail(w) ==
    /\ Acts(w) /\ request[w].deed # None
    /\ GoOn(w)
    /\ overtaken' = overtaken \ {w}
    /\ UNCHANGED <<linked, roleOf, work, late>>

\* The model is done, or its turns are; or a process goes away.
Stop(w) ==
    /\ request[w] # Idle
    /\ Close(w)
    /\ UNCHANGED <<linked, roleOf, work, late>>

AccessNext ==
    \/ \E w \in Workers :
           \/ LoadForReconcile(w) \/ Relink(w) \/ FinishReconcile(w)
           \/ LoadForAct(w) \/ LoadForAssistant(w) \/ CallTool(w)
           \/ ReadStep(w) \/ CheckRoles(w) \/ Fail(w) \/ Stop(w)
           \/ Advance(w) \/ AddDocument(w) \/ UploadVersion(w) \/ SetAiConfig(w)
    \/ \E r \in Roles : SetRoleAgent(r)
    \/ \E u \in Users : SetUserRole(u)
    \/ \E c \in Contracts : ApiTransition(c) \/ ApiAddDocument(c)
    \/ \E d \in Documents : ApiUploadVersion(d)

----------------------------------------------------------------------------
\* "a step is only editable by a user whose role is linked to the step's agent,
\* or by anyone if no role is linked to it at all."
Entitled(u, c) == CanEdit(roleOf[u], Owner[place[c]])

\* What an act or the assistant does, it does for a user who is entitled, at that
\* moment, to the contract that the call names, unless this contract moved or
\* roles were linked by somebody else after the check, or the user got another
\* role during the request.  In particular each deed of the assistant stands on
\* a check of its own: its own transitions do not carry it into a step of others.
\* It is not claimed that the document of an upload is that contract's, nor that
\* the JSON API asks anybody.
DeedsAreEntitled ==
    [][ \A w \in Workers :
            /\ Acts(w) /\ request'[w] # request[w] /\ work' # work
            /\ w \notin overtaken
            /\ request[w].role = roleOf[request[w].user]
            => Entitled(request[w].user, request[w].contract) ]_<<access, request>>

\* When a contract moves, or roles are linked, calls that were checked before may
\* still be on their way.  Each of them does one deed at most that the rule would
\* refuse by now: also an assistant in the middle of its run, whose next tool call
\* is refused.
FewLateDeeds == \A c \in Contracts : late[c] <= Cardinality(Workers)

\* "checked roles get linked to this agent ... and roles that were linked to
\* this agent but got unchecked are unlinked": when the last commit of the
\* checklist is through, and nobody else linked roles in between, the agent has
\* exactly the roles that were ticked.
ChecklistsApply ==
    [][ \A w \in Workers :
            /\ request[w].op = "reconcile" /\ request[w].todo = {}
            /\ request'[w] = Idle /\ w \notin overtaken
            => LinkedTo(request[w].agent) = request[w].ticked ]_<<access, request>>
=============================================================================
