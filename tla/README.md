# Verification of Orchestract

Orchestract takes contracts through customizable approval workflows: an
organization draws a workflow (steps, transitions, one agent per step), activates
it, and sends contracts through it, each with its documents, under the limits of
a subscription plan. The program is an asynchronous web application; every use
case is one method of an application service that opens a unit of work, loads
aggregates, calls their methods and commits once (`app/application`,
`app/domain`, `app/infrastructure/db/unit_of_work.py`).

This directory holds TLA+ models of its core, the TLC configurations that check
them and TLAPS proofs about them. All paths below are relative to the
repository; `PROJECT.json` maps each definition to the lines it models.

## What makes the system hard

The domain methods are sequential and well tested. What tests do not reach is
that a method decides on rows its session loaded and that **nothing ties the
decision to the commit**: sessions run at the database's default isolation
(READ COMMITTED), no SELECT locks a row, no table has a version column. Any
other request may commit between a load and the commit it leads to. The database
itself contributes unique constraints, nothing else. So every class invariant
that is enforced by a method (rather than by a constraint) is a question about
interleavings:

* an `UPDATE` writes only the changed columns, so two requests on one row merge;
* an aggregate is loaded by several SELECTs (`lazy="selectin"`), so what is
  loaded need not have existed at any one time;
* some use cases act outside the database before they commit (upload of a file,
  a model's answer, a Stripe event), or commit several times;
* a request may end anywhere: the process dies, the client goes away.

## Inventory

| Component | State | Operations | Interacts with | What makes it correct |
|---|---|---|---|---|
| Readiness check (`domain/workflow/validation.py`) | locals of one call | `find_validation_issues` | called by `activate()` and the workflow page | ends; accepts exactly the graphs with one start, an end and no unreachable step |
| Workflow definition (`domain/workflow/models.py`, `application/workflow_service.py`) | status, steps, transitions; the organization's names and slugs | create, rename, add step, add transition, activate, duplicate | validation; contracts read it | unique keys, one start, unambiguous transitions, no edit once active, clones are sound |
| Contract run (`domain/workflow_instances/models.py`, `application/contract_service.py`) | instance row, history | create contract, transition | reads definitions, the plan | history is a justified audit trail and agrees with the current step; completion is final |
| Permissions (`application/permissions.py`) | none | check before the page's transitions, documents, uploads, imports and AI settings, and before each tool call of the assistant | instance, definition, roles | the contract acted on is the one that was checked, at the step that was checked |
| Documents (`domain/documents/models.py`, `application/document_service.py`) | current version number, versions, stored objects | upload, import, download, set summary | primary storage connection | a version's bytes never change; numbers are gapless |
| Storage connections (`domain/storage/models.py`, `application/storage_service.py`) | provider, status, primary flag | connect, OAuth completion, set primary, disconnect | documents | at most one primary, connected and writable |
| Billing (`application/billing_service.py`) | customer, subscription, plan | checkout, webhooks | Stripe; the plan limits | the plan is the one last subscribed to |
| Plans and limits (`domain/tenancy/plans.py`) | counts of users, agents, contracts, workflows | count-then-insert in four services | billing sets the plan | limits are not exceeded |
| Accounts (`domain/users/models.py`, `user_service`, `registration_service`, `social_auth_service`, `compliance_service`) | users, sessions, tokens, acceptances | register, log in, verify, reset, deactivate | e-mail, Google | tokens are used once; an account has its acceptance |
| Roles and agents (`role_service`, `agent_service`, `web/routes.py:626-637`) | roles, the agent each is linked to | create, link, reconcile, toggle | permissions | a form's links are applied as a whole |
| Presets (`web/routes.py:1304-1326`) | none of its own | create a workflow in many commits | agents, workflows | all or a usable draft |
| Share links (`domain/sharing/models.py`, `sharing_service`) | scope, expiry, revocation | create, revoke, view | documents | a dead link shows nothing |
| AI (`ai_service`) | summaries, AI configuration | summarize, assistant | documents, contracts, permissions | a summary describes what was read; tools obey the same rules |

How they meet: `BillingService` writes the plan that four other services read
before they count; storage connections decide where an upload goes; a definition
is read by every transition of its contracts, and by the permission check, which
also reads the roles; the assistant calls the services of contracts and
documents on behalf of the user who asked; share links read documents. Nothing is
called back: components interact through the rows they read and write, and each
such pair is a pair of overlapping requests in some module below.

`PROJECT.json` lists the same components with the state of the model, and under
`hazards` everything found in the code that is hard to test, with the properties
that cover it, or why none does.

## Modules

| Module | Models |
|---|---|
| `WorkflowGraph` | steps, transitions and what the code promises of a graph, as pure operators |
| `WorkflowValidation` | `find_validation_issues`, one action per loop iteration |
| `WorkflowValidationProofs` | its theorems |
| `WorkflowDefinition` | one definition under overlapping `WorkflowService` calls |
| `WorkflowDefinitionProofs` | its theorems |
| `ContractWorkflow` | contracts under overlapping `ContractService` calls |
| `WorkflowRun` | the abstract specification of a contract's run |
| `ContractWorkflowProofs` | the theorems about `ContractWorkflow`, the refinement of `WorkflowRun` included |
| `DocumentStorage` | document versions and storage connections: two stores, one transaction |
| `VersionLog` | the abstract specification of a document's versions |
| `DocumentStorageProofs` | the theorems about `DocumentStorage`, the refinement of `VersionLog` included |
| `Accounts` | accounts, sessions, mailed tokens, consent |
| `AccountsProofs` | its theorems |
| `Billing` | the subscription columns of an organization, and Stripe as the code uses it |
| `WorkflowPresets` | the three ready-made workflows, as data |
| `Organization` | extends `Billing` with what the plan limits: users, contracts, agents, workflows |
| `OrganizationProofs` | the theorems about `Organization` and `Billing` |
| `StepAccess` | who may work on a contract: roles, the check before each act, the assistant |
| `ContractRoom` | extends `StepAccess` with share links and summaries |
| `ContractRoomProofs` | the theorems about `ContractRoom` and `StepAccess` |
| `MC...` | the small instances |

### WorkflowGraph

A step is `[key, initial, terminal]`, a transition `[from, action, to]`; names,
descriptions and agents take part in no decision modelled here. `Reachable` is
defined without a search: a key is reachable when every set that contains the
start and is closed under the transitions contains it. Being first-order over
sets, it can be reasoned about by the provers.

### WorkflowValidation

The variables are the function's arguments and locals (`reachable`, `frontier`),
the returned list as a set of tags (`issues`), and the keys its last message
names (`unreachable`). `NoSteps` is the early return, `NoSearch` the case in which
the search is skipped, `BeginSearch` the counting tests followed by the set-up of
the search, `Pop` one iteration of the `while`, `Report` the comparison after it.
`frontier.pop()` takes the last element; the model takes any. The definition may
be a torn load: transitions to steps that are not in the list.

### WorkflowDefinition

`status`, `steps`, `transitions` are the committed rows; `view[w]` is what the
session of request `w` has loaded, `call[w]` what it was asked, `pc[w]` how far
it is. A call is `LoadRow`, `LoadSteps`, `LoadTransitions` (three SELECTs), then one
of `CommitStep`, `CommitTransition`, `CommitActivate`, `CommitDuplicate`, or
`Refuse` (a domain error, or a unique constraint at the commit). The method that
runs between load and commit awaits nothing, so it is part of the commit action:
it is a function of the loaded rows alone, and these cannot change. `Abandon` is
the request that ends anywhere before its commit. An insert that meets an
uncommitted conflicting one waits in the database; the model orders the two
commits and refuses the second.

`activate()` is modelled by `ValidGraph`, which `WorkflowValidation` shows (and
`VerdictIsExact` proves) to be what the readiness check decides. A clone is a draft
row of its own; the clones are kept in `copies` up to `MaxCopies`.
`WorkflowDefinition.retire` has no caller in the application and is left out.

### ContractWorkflow

`instance[c]` is the row of contract `c`'s instance, `history[c]` its entries,
`request[w]` what request `w` has loaded. The contract, its first document and
its instance are inserted by one transaction, so a contract exists exactly when
its instance does. `LoadForCreate` counts the contracts and loads the definition,
`CommitCreate` is the insert; `LoadForTransition` and `CommitTransition` are the two
halves of `transition_contract`. `Updated` is the row after an `UPDATE` of the
changed columns: `current_step_key` only when it differs from the loaded value,
`status` only when an end step is entered. When the race shown by
`definition_two_starts` has left several start steps, `start()` takes any of them.
Definitions are constant; what is assumed of them (`DefinitionsAssumption`, that is
`SoundDefinition` of `WorkflowGraph`) is no more than what `RowsAreSound` proves of the
rows of a definition and of every clone, in every state that edits can reach. That a
late edit may add a step or a transition to a live definition
(`definition_late_edit`) is not composed yet.

`WorkflowRun` says what a run amounts to: a contract is sent only along
transitions of its definition and out of steps it has visited, and completion is
permanent and earned. The refinement mapping `RunOf` reads the visited steps off the
history.

### DocumentStorage

`connection[p]` is the `storage_connections` row of provider `p` (its status and
`is_primary`), `document[d]` the row of a document with its versions,
`object[bucket, key]` the bytes a bucket holds, `request[w]` what worker `w` has read.
An upload is `LoadForUpload` (the document, and with it the next number),
`ReadPrimary`, `Put` and `CommitUpload`: the four awaits of `upload_version`, in
their order. The bucket takes part in no transaction, so `Abandon` between the last
two leaves the object behind. An import is an upload whose bytes come from a drive.
`connect`, the OAuth completion, `set_primary` and `disconnect` each load their row,
some read the primary, and write the columns they change (`Promoted` is `_promote`).
A read of the primary that finds two raises; that, the unique constraints and
`mark_primary` on a drive are `Refuse`. `mark_error` has no caller. `VersionLog` has one
action, the append of a version; the mapping orders a document's version rows by
their numbers.

### Accounts

`user[e]` is the account of an address, `accepted` the consent rows, `token` the
mailed tokens, `session` the cookies' rows; `used` is a history variable that counts
how often a token was used. A handler that signs somebody in runs two units of work:
find (or make) the user, then `CreateSession`, which does not look again; the request
becomes a `"session"` in between (`SignIn`). The tests a handler makes on what it reads
are guards of its `LoadFor...`; a call that fails them has no effect and is not begun.
Every page starts at the gate, whose read of the session (`LoadForGate`) and of the
consent (`PassGate`) are units of work apart from what the page then does
(`LoadForChange`, `LoadForToggle`). `Spend` deletes a token's row whether it is still
there or not, as the `DELETE` does.

### Billing and Organization

`org` has the four columns that webhooks write. `subscription` and `events` are
Stripe: each change of a subscription leaves an event with its snapshot, and an
event stays deliverable, so it arrives late, twice, after a newer one, or never.
`LoadForWebhook` finds the row by the customer (an event for a customer the row does
not name is acknowledged and dropped), `CommitWebhook` writes the columns that
differ from the row as it was read, so that two webhooks that overlap merge.

`Organization` adds the rows that the plan limits. Creating one is three steps,
for there are three awaits: the plan is read (`LoadForCreate`, or a preset's
request), the rows are listed and counted (`CountRows`), the row is inserted
(`Insert...`). Names stand with their slugs; a clone takes the first free of its
names and asks neither plan nor count. Applying a preset is a loop of such calls:
`request[w].task` says which agents it has found or made, which name and row the
workflow has, how many steps and transitions. `DesignStep`, `DesignTransition` and
`Activate` are others who find the draft meanwhile; their transitions are among those of
the presets. The graph checks are those of `WorkflowGraph`.

### StepAccess and ContractRoom

`place` is the step each contract is at, `linked` and `roleOf` the links of roles to
agents and of users to roles. An act (a transition, a new document, an upload or
import, the AI settings) is a route of the web page: `LoadForAct`, `ReadStep`,
`CheckRoles` and the deed; the assistant is the same with `CallTool` in a loop, the
user's role and the allowed tools being those it was started with. Every request names
a contract, for which the rule is tested, and an upload a document. What the deed does
is what the services do, whoever calls them: `Move`, `Add`, `AddVersion`, `Configure`.
`AddVersion` takes any document there is, as `upload_version` does
(`app/application/document_service.py:70-77`): the routes and the assistant's tool do
not compare it with the contract of the check. `ApiTransition`, `ApiAddDocument` and
`ApiUploadVersion` are the routes of the JSON API, which call the same services in one
step and test nothing. The deed itself is one step: what happens inside a transition is
`ContractWorkflow`, inside an upload `DocumentStorage`. An agent's checklist
(`LoadForReconcile`, `Relink`) commits role by role. Two history variables watch what is
read too early: `overtaken` has the workers who have read a step or the roles before
somebody else changed one, and `late` counts, for each contract, the deeds since its
last move or the last change of the roles' links that the rule would have refused.

`ContractRoom` adds share links and summaries. A link names documents of its own
contract (`ValidIds`). A view is two steps, the check of the link and the reading of the
file; `Deactivate` is a revocation or the passing of `expires_at`; `unlocked` are the
links whose password a browser has proved, with a cookie derived from the token;
`served` is a history of what was read through which link, `ending` of the views that
were in progress when a link was ended. A summary is computed from the version that was
the latest when it was read.

## Runs

| Run | Instance | Shows |
|---|---|---|
| `workflow_validation` | every edge set over three keys; one, two, three steps or none, any flags | the search ends, its loop invariant, exact verdict, exact list of unreachable steps |
| `definition_edits` | 2 requests, 2 keys, 1 action, 1 clone | what holds under every interleaving; only outdated rows break promises |
| `definition_two_starts` | the same, all calls | finding: two start steps |
| `definition_late_edit` | the same, all calls | finding: edit after activation |
| `contract_races` | 2 requests, 3 contract ids, limit 1, 3 definitions, histories up to 4 | audit trail, completion, refinement, bounded excess over the limit |
| `contract_moved_past_end` | 2 requests, 1 contract | finding: a completed contract moves |
| `contract_never_completes` | 1 request | finding: a contract at its end that is not completed |
| `document_storage` | 2 requests, 3 buckets, 1 drive, 1 document, 2 versions, 2 file names with one safe form, 7 calls | versions are a gapless log whose objects exist (refinement of `VersionLog`), at most two primaries, only outdated reads break "one primary" or replace a version's bytes |
| `version_overwritten` | the same | finding: a version with another upload's bytes |
| `accounts` | 2 addresses that Google knows under one `sub`, 2 passwords, 3 tokens, 2 sessions, 2 requests, 5 calls | a live token is unused, tokens are used and left alive at most once per request in progress, consent, sessions rest on a proved address |
| `organization` | 2 requests, 2 customers and subscriptions, limits of 1 or 2, 3 agents, 2 workflows, the preset Simple Approval, 3 calls, 3 deliveries | the limits are exceeded by the requests in progress at most, presets are built whole, the row mirrors one event of Stripe |
| `contract_room` | 2 requests, 1 user, 2 roles, 2 steps with an agent each, 2 contracts that start at different steps and have 2 and 1 documents of 1 version, 1 link, 4 calls (acts and assistants count twice) | deeds are entitled, for the contract they name, unless overtaken; late deeds are few; checklists apply; views stay within links |

Bounds. Three keys give every shape the search distinguishes (a chain, a cycle, a
self loop, a fork, an unreachable part, an edge to a missing step); the proofs
remove the bound. Races are between two requests: each violation needs one
outdated view and one commit in between. Two keys and one action suffice for a
conflict on each constraint, a torn load and a valid graph with a loop. In
`contract_races` a limit of one and three ids let the limit be exceeded and let a
broken guard exceed it further; histories of four let a contract complete, be moved
past its end by an outdated request and return. With three requests and one
contract the same invariants hold (a run of that size takes longer and shows the
same). Of these modules `MaxHistory`, `MaxCopies` and `MaxContracts` are the only bounds in
guards; `MaxContracts` is the plan's own limit.

The other components have a longer list of calls, each of few steps, and what goes
wrong between two of them does so within a handful. Their MC modules therefore count
the calls that have begun, and let every interleaving of up to `MaxCalls` of them
happen; deliveries of webhooks are counted apart (`MaxDeliveries`), steps of the
environment (Stripe, time) are not. Seven calls let two providers be connected, two
promotions race, and two uploads meet a disconnection; five let an account be
registered, a token be mailed twice and used by two requests; three, with a loop
inside, let a preset run while another call changes what it has read, and a third
prepares for either. In `MCContractRoom` acts and assistants count for two of four: two
of them may overlap, or one may meet two links of roles, a checklist, transitions and
uploads of the JSON API. A second bound there keeps two halves apart that no step reads
together: once something is shared or summarized, the work goes on by the JSON API and
no roles are linked (`NothingChecked`, `NothingShared`). Four calls let one deed come
late, and a check that is skipped let three; that the bound of `FewLateDeeds` is reached
takes more calls, and the theorem covers them. When all calls are over, the MC modules stutter
(`MCDone`), so that the end of a bounded behaviour is not taken for a deadlock; since
a request can always be abandoned, there is none to be found in these runs.
`MaxVersions` bounds the versions of a document; `Agents`,
`Workflows`, `Links`, `Documents`, `Tokens` and `Sessions` are the rows that are followed.
`MCOrganization` evaluates, in `PresetsAreReady`, that all three real presets pass the
readiness check and that no call which adds their parts would be refused.

Symmetry is used for requests, ids, tokens, buckets and other values that no
definition distinguishes; these runs have no liveness property.
`workflow_validation` switches deadlock checking off because a call returns.

Fairness. The only liveness property is `Terminates`, under `WF_vars(Next)`: the
function does not await, so nothing can stop it between two iterations. For
requests no fairness is assumed and no liveness claimed: a request may always be
abandoned, and the client decides whether there is another.

Each property of a passing run has a mutant in `PROJECT.json`: the definition
mutated as a plausible bug would, under which TLC finds the property violated.
The mutants stand beside the definitions they mutate.

## Findings

1. Two overlapping `add_step` calls leave two start steps (`definition_two_starts`);
   the draft can never be activated, for no call removes a step.
2. An edit that loaded the draft lands in the active definition
   (`definition_late_edit`). `LockedWhenQuiet` bounds it: only calls that had loaded
   the draft can do so. `ActiveCanRun` shows that a live definition keeps a way from
   a start to an end regardless.
3. A completed contract is moved by a request that loaded it before
   (`contract_moved_past_end`). `FewMovesPastEnd` bounds it by the number of other
   requests under way.
4. A start step that is also an end step passes the readiness check, and its
   contracts never complete (`contract_never_completes`).
5. A version's object is replaced by the bytes of another upload
   (`version_overwritten`): two overlapping uploads compute one number, and with
   file names of one safe form one key; the bytes are stored before the commit, so
   the upload that is refused may be the one whose bytes stay.
   `FreshPutsKeepVersions` bounds it: an upload replaces the bytes of a version only
   if it read the document before that version was committed.

`FreshCallsKeepPromises` and `FreshRequestsKeepPromises` pin the first three down: a
call whose loaded rows are current when it commits keeps every promise, so a
version column on definition and instance would remove them. What a row lock would
have to exclude is proved too: findings 1, 2, 3 and 5 each need two overlapping calls
that change one definition, one contract or one document (see "One at a time" below).
Finding 4 needs one request only.

One more disagreement is modelled but has no run of its own; it shows in what
`DeedsAreEntitled` does not claim. The rule is "a step is only editable by a user whose
role is linked to the step's agent, or by anyone if no role is linked to it at all"
(`app/application/permissions.py:14-18`), and "every mutating route re-checks
server-side before touching anything" (`app/web/routes.py:171-173`). In the code:

* an upload tests the rule for one contract and gives the version to a document that is
  named apart from it, which may be another contract's (`app/web/routes.py:1669-1689`,
  `1730-1745` for imports, `app/application/ai_service.py:254-272` for the assistant,
  `app/application/document_service.py:70-77`);
* the routes of the JSON API, mounted in `app/main.py:52-57`, move contracts and add
  documents and versions without testing the rule
  (`app/api/routers/contracts.py:58-69`, `app/api/routers/documents.py:15-42`);
* the routes of the page that share, revoke and summarize do not test it
  (`app/web/routes.py:1822-1866`, `1955-1989`).

`DeedsAreEntitled` is therefore about the contract that a call names, and
`OwnUploadsKeepTheRule` proves which two things are missing for the rule to hold of
every contract's step, documents, versions and AI settings.

## Proofs

`WorkflowValidationProofs`. `IInv` is the typing of the locals and `SearchInv`: the
start is in `reachable`; `reachable` is inside every closed set that contains the
start; only frontier steps still have unexplored transitions. `VerdictExact` is not
inductive: it speaks of the end only, and the middle of the search is what these
three parts describe. When the frontier is empty the third part says that
`reachable` is itself closed, so with the second it is `Reachable`. From this follow
`UnreachableIsExact` and `VerdictIsExact`, for any keys and definitions; the parts
themselves are `TypeCorrect` and `SearchStaysExact`. `SearchIsBounded` is the safety half
of termination: twice the keys not collected yet, plus the frontier, is a natural
number that every iteration lowers, unless it ends the call. What is left to TLC is
that a step is always enabled and that an enabled one is taken.

`WorkflowDefinitionProofs`. Everything rests on `ViewsBelow`: no call removes a row or
returns a definition to draft, so what a session has loaded, torn or not, is a
part of what is committed. With the unique constraints this gives
`GraphsAreWellFormed` and `ClonesAreWellFormed` (a part of an unambiguous graph is
unambiguous; `add_transition` joins keys it has loaded). `ActiveDefinitionsRun`
adds that reachability is monotone in the transitions: what `activate()` accepted in
its view has a path from a start to an end, and rows added meanwhile do not
take it away. `LockHoldsWhenQuiet` and `FreshCallsKeep` look at one step: each commit
is guarded by the status and the steps in its view. `RowsAreSound` collects what these
invariants say of the rows into the assumption that `ContractWorkflow` makes of the
definitions it is given, so that its theorems hold of every definition that edits
can leave.

`ContractWorkflowProofs`. `IInv` strengthens the properties by what links a request
to the tables (`RequestInv`): the definition a request loaded is the contract's, and
the step it loaded has been entered by some history entry. With it
`AuditTrailIsJustified`, `CurrentStepIsAudited` and `CompletionIsExact` follow action
by action. `FewMovesArePastEnd` and `PlanIsNearlyKept` need counting invariants of
their own (`EndInv`, `PlanInv`): each request that loaded before the line was crossed
is worth one step past it, none that loads later is, and the sum of what happened
and of what is still possible never grows; they are proved with cardinalities of
the sets of such requests. `FreshRequestsKeep` needs `PathInv`: a trail that is one
path ends where the contract is, which ties the row a request decides on to the
entry it appends after. `ContractsImplementRun` maps `CommitCreate` to `Start`,
`CommitTransition` to `Move` and all else to stuttering.

`DocumentStorageProofs`. None of the properties is inductive alone, for each speaks of
tables that a request writes from what it read earlier. `RequestsOK` says what of that
is still true: rows, versions and objects never go away and a document's current
number only grows, so a number that a request computed is at most the next one, and
an upload that has put its bytes still finds an object at its key. With `Numbered`
(versions have numbers from 1 to the current one, each number one version, by the
unique constraint) this gives `VersionsAreStored`, and the refinement: the log that
`LogOf` reads off the rows is left alone or extended by one entry.
`PrimariesAreFew` is a counting argument: a request that has read the primary
(`Armed`) adds one only if what it read is no longer one (`Outdated`), none reads while
there are two, so primaries and outdated requests together never exceed the requests. `FreshPutsKeep` and `FreshCallsKeep`
look at one step.

`AccountsProofs`. `RequestsOK` again says what of a request's reads persists: accounts
are not deleted, a token keeps owner and purpose, an address stays verified, a use
stays counted. `UsedAreGone` (a used token is not live) is what makes `LiveAreUnused`
inductive, and `SessionsProved` carries the proof of the address from the handler that
obtained it to the session, in a unit of work of its own. For `UsesAreFew` the uses of a
token plus the requests that have found it live and not yet spent it are at most the
requests. For `LiveTokensAreFew` each live token of an account and purpose is mapped
to the request that issued it; a request that issues a token withdraws those it has
seen, so the map can be kept injective.

`ContractRoomProofs`. Two kinds of reads are told apart. Documents, versions, unlocked
links and the passwords of links stay (`Kept`), so what a request has read of them is
always true (`RequestOK`): that is `TypeCorrect` and `ViewsStay`. The current steps and
the links of roles do change, but each action that changes them puts all other
requests that have read them into `overtaken` (`Fair`), so what the rest has read is
true as well (`Current`): that is `DeedsEntitled` and `ChecklistsAreApplied`. `Current`
also says that `todo` is what separates the ticked roles from the linked ones, through
every iteration of the reconcile loop, and that `may` is never set without a step that
was read after the last deed. `LateDeedsAreFew` counts: the deeds that came late to a
contract and the overtaken requests that may still do one (`MayBeLate`) are together at
most the requests, since a deed takes its request out of `overtaken` and the next one is
checked again. `OwnUploadsKeepTheRule` says what the documented rule needs beyond the
code: if every upload names a document of its own contract (`OwnUploads`) and the JSON
API is not used (`ApiUnused`), then whatever changes of a contract (`WorkOf`: its step,
documents, versions, AI settings) is changed for a user entitled to that very contract,
overtaken checks and changed roles aside. Neither hypothesis is ensured by the code.

`OrganizationProofs`. What a request read of the plan may be outdated, but not that the
plan was held: held plans, events, agents, workflow rows and the parts of a workflow
are only added to (`Kept`). `RequestInv` says of each request what it therefore may
rely on; for the application of a preset, `TaskInv`, that all agents are there before
the name is chosen, the name before the workflow, the workflow before its parts, and
that the parts counted as built are among its rows. From this follow `TypeCorrect` (an
agent of the task that is still missing would be a step without an agent) and
`PresetsAreBuiltWhole`. `FreshWebhooksKeep` looks at one step: a webhook whose row is
current writes all that its event says and nothing else. For `LimitsAreNearlyKept` let
`Armed` be the requests that have counted the rows and not inserted yet: the one that
counts last finds room below the limit of a plan that was held, all others are at
most the requests less one, and an insert moves one from `Armed` to the rows, so rows
and armed requests together never exceed that limit by more.

One at a time. Most of the invariants above bound what overlapping requests can do
to a promise of the code; these theorems say which overlaps do it. Each has the form
`Spec /\ []NoOverlap => []Promise`, where `NoOverlap` speaks only of the requests that
matter and leaves all others to interleave and to be abandoned as they like. It is a
hypothesis about behaviours, satisfied by all in which these calls follow one another
(in each theorem, they may still meet calls of every other kind):

| Theorem | When | Then |
|---|---|---|
| `SerialEditsKeepPromises` | the edits of a definition do not overlap | one start at most, valid while active, locked once active |
| `SerialMovesKeepPromises` | the transitions of each contract do not overlap | the trail is a path, completion is at an end and final |
| `SerialCreatesKeepPlan` | the creations of contracts do not overlap | the plan's number of contracts is kept |
| `SerialUploadsAreStoredAsSent` | the uploads to each document do not overlap | a version's object has the bytes that were sent for it |
| `SerialWebhooksMirror` | the webhooks do not overlap (events may come late, twice, out of order) | the row is what one event of Stripe said, or that of the free plan |
| `SerialMailsLeaveOneLive` | the mails of one purpose to one address do not overlap | one live token of that purpose |
| `PrimariesAreAtMost` | at most `k` requests that connect or promote have read the primary at once | at most `k` primaries |
| `UsesAreAtMost` | at most `k` requests that found one token are in progress at once | it is used at most `k` times |
| `LimitsAreKeptBut` | at most `n` requests have counted a kind of row and not inserted at once | at most `n - 1` rows over the largest limit held |

The last three replace the number of requests of `PrimariesAreFew`, `UsesAreFew` and
`LimitsAreNearlyKept`, which follow from the same counting invariants, by the number
of those in the critical section; with 1 they are the promise itself. The argument is
the same throughout: an invariant says that what such a request has read is still
current (`ViewsCurrent`, `MovesCurrent`, `CountsCurrent`, `UploadsCurrent`,
`RowsCurrent`), since the one action that could change it belongs to a second such
request; then the step of the fresh request keeps the promise, as the theorems on
fresh calls say.

The assumptions are those the modules name: a finite nonempty set of requests,
well-formed definitions with a start step if active, finite sets of rows where a
property counts them, bounds that are natural numbers, and `None` and other marks
distinct from the values they stand beside. TLC evaluates each of them in the runs.

Only model-checked: `Terminates` (liveness is outside the prover's reach; the
decreasing number it rests on is proved) and the findings, which are counterexamples
found by TLC. Every other property that a passing run checks is stated by a theorem.

## Plan

Order of work, the most important behaviour first:

1. *Done*: the readiness check, the definition, the contract run, the abstract run.
2. *Done*: their proofs.
3. *Done*: connections, uploads and the buckets (`DocumentStorage`), with the
   append-only log they implement.
4. *Done*: webhooks, the plan and the four limits, clones and presets (`Billing`,
   `Organization`).
5. *Done*: tokens, sessions, registration and social login (`Accounts`).
6. *Done*: role links, the reconcile loop, the permission check, the assistant
   (`StepAccess`).
7. *Done*: share links and summaries (`ContractRoom`).
8. *Done*: the proofs of 3 to 7.
9. *Done*: for each finding and each bounded promise, the proof of what has to be
   excluded for the promise to hold; the assumption on definitions discharged.
10. Composition of `WorkflowDefinition` and `ContractWorkflow`: contracts running
   through a definition that late edits still extend.

## Not modelled

Rendering, form parsing, JSON schemas, translations, configuration, migrations, the
seed and the HTTP clients keep no state that the properties speak of. What a
client's service does (stored objects, Stripe events, Google's answer, a model's
delay) is the environment of the component that calls it.

Within the modelled components these are left out, because no decision of the
program reads them, or because they only repeat a pattern that is modelled: an
agent's `is_active`, role names and their slugs, display names, locales and
profiles, the credentials of a connection, a link's `last_accessed_at` and
`allow_download`, the summary of a whole contract, the AI's model and instructions
and the plan's `ai_enabled`, `retire` and `mark_error`, which have no caller. The JSON API
is modelled where it does what a checked route of the page does (`StepAccess`); its
other routes make the same calls of the services as the page and are not told apart
from it. Accounts
are those of one deployment; the tests that a row belongs to the caller's
organization are tests on a value that never changes.

## Running

    tlc -workers 2 -config ContractRaces.cfg MCContractWorkflow
    tlc -workers 2 -config DocumentStorage.cfg MCDocumentStorage
    tlapm ContractWorkflowProofs.tla
