-------------------------- MODULE ContractWorkflow --------------------------
(***************************************************************************)
(* Contracts on their way through workflow definitions, under concurrent   *)
(* ContractService calls: create_contract and transition_contract.         *)
(*                                                                         *)
(* A call loads what it decides on, then writes and commits; other calls   *)
(* may commit in between, for there is no row lock and no version column.  *)
(* An UPDATE writes only the columns whose value the method changed, so    *)
(* two transitions of one contract merge column by column, and both        *)
(* append their row to the history.  (The rows are ordered by occurred_at, *)
(* taken when the row is inserted: after the UPDATE, whose lock is held    *)
(* until the commit.  A loop on one step has no UPDATE: only there may the *)
(* order by time differ from the order of the commits, which is followed.) *)
(*                                                                         *)
(* Definitions are constant here.  What is assumed of them is proved of    *)
(* the rows of WorkflowDefinition: they are well formed and an active one  *)
(* has a start step.  It is not assumed that they have only one.           *)
(***************************************************************************)
EXTENDS WorkflowGraph, Sequences

CONSTANTS Contracts,     \* the ids new contracts may get
          Keys,          \* step keys
          Actions,       \* action names
          Definitions,   \* the definitions: [status, steps, transitions]
          Workers,       \* the requests that may be in progress at once
          MaxContracts,  \* the plan's limit (an unlimited plan: any number
                         \*   that Contracts does not exceed)
          MaxHistory,    \* bound: the history entries that are followed
          None           \* Python's None

ASSUME NoneAssumption == None \notin Keys \cup Actions

ASSUME DefinitionsAssumption ==
    \A d \in Definitions : SoundDefinition(Keys, Actions, d)

ASSUME WorkersAssumption == IsFiniteSet(Workers) /\ Workers # {}

ASSUME BoundsAssumption == MaxContracts \in Nat /\ MaxHistory \in Nat

VARIABLES instance,  \* the workflow_instances row of each contract
          history,   \* its workflow_history_entries, in commit order
          request    \* what each worker has loaded, and for which call

vars == <<instance, history, request>>

\* The contract row, its first document and its instance are inserted by one
\* transaction: a contract exists exactly when its instance does.
NoInstance == [status |-> "none"]

InstanceOf ==
    [definition : Definitions, step : Keys, status : {"active", "completed"}]

EntryOf ==
    [from : Keys \cup {None}, action : Actions \cup {None}, to : Keys]

Created == {c \in Contracts : instance[c] # NoInstance}

Idle == [op |-> "none"]

CreateOf == [op : {"create"}, definition : Definitions, count : Nat]

TransitionOfContract ==
    [op : {"transition"}, contract : Contracts, action : Actions,
     definition : Definitions, step : Keys, status : {"active", "completed"}]

TypeOK ==
    /\ instance \in [Contracts -> InstanceOf \cup {NoInstance}]
    /\ history \in [Contracts -> Seq(EntryOf)]
    /\ request \in [Workers -> {Idle} \cup CreateOf \cup TransitionOfContract]
    /\ \A c \in Contracts : history[c] = <<>> <=> instance[c] = NoInstance

Init ==
    /\ instance = [c \in Contracts |-> NoInstance]
    /\ history = [c \in Contracts |-> <<>>]
    /\ request = [w \in Workers |-> Idle]

----------------------------------------------------------------------------
Close(w) == request' = [request EXCEPT ![w] = Idle]

\* create_contract counts the organization's contracts and loads the
\* definition.
LoadForCreate(w) ==
    /\ request[w] = Idle
    /\ \E d \in Definitions :
           request' = [request EXCEPT ![w] =
               [op |-> "create", definition |-> d, count |-> Cardinality(Created)]]
    /\ UNCHANGED <<instance, history>>

\* transition_contract loads the instance and its definition.
LoadForTransition(w) ==
    /\ request[w] = Idle
    /\ \E c \in Created, a \in Actions :
           request' = [request EXCEPT ![w] =
               [op |-> "transition", contract |-> c, action |-> a,
                definition |-> instance[c].definition,
                step |-> instance[c].step, status |-> instance[c].status]]
    /\ UNCHANGED <<instance, history>>

----------------------------------------------------------------------------
\* Mutant: the plan limit is tested with > instead of >=.
CreateOverLimit(r) ==
    r.op = "create" /\ r.count <= MaxContracts /\ r.definition.status = "active"

CreateAllowed(r) ==
    r.op = "create" /\ r.count < MaxContracts /\ r.definition.status = "active"

\* start() takes the first start step by id.  Should a race have left several
\* (WorkflowDefinition), ids do not tell which was committed first: any of them.
Start(d, k) ==
    [definition |-> d, step |-> k, status |-> "active"]

\* Mutants of CommitCreate: start() appends no history entry; the instance
\* starts at any step of the definition.
CommitCreateNoEntry(w) ==
    LET r == request[w]
    IN  /\ CreateAllowed(r)
        /\ \E c \in Contracts \ Created,
              k \in KeysOf(InitialSteps(r.definition.steps)) :
               instance' = [instance EXCEPT ![c] = Start(r.definition, k)]
        /\ Close(w)
        /\ UNCHANGED history

CommitCreateAtAnyStep(w) ==
    LET r == request[w]
    IN  /\ CreateAllowed(r)
        /\ \E c \in Contracts \ Created, k \in KeysOf(r.definition.steps) :
               /\ instance' = [instance EXCEPT ![c] = Start(r.definition, k)]
               /\ history' = [history EXCEPT ![c] =
                      <<[from |-> None, action |-> None, to |-> k]>>]
        /\ Close(w)

CommitCreate(w) ==
    LET r == request[w]
    IN  /\ CreateAllowed(r)
        /\ \E c \in Contracts \ Created,
              k \in KeysOf(InitialSteps(r.definition.steps)) :
               /\ instance' = [instance EXCEPT ![c] = Start(r.definition, k)]
               /\ history' = [history EXCEPT ![c] =
                      <<[from |-> None, action |-> None, to |-> k]>>]
        /\ Close(w)

\* Mutants of the test of apply_transition: the status is not looked at; the
\* action is looked up without regard to the current step.
TransitionOfCompleted(r, t) ==
    /\ t.from = r.step /\ t.action = r.action

TransitionFromAnywhere(r, t) ==
    /\ r.status = "active"
    /\ t.action = r.action

\* t is the transition that apply_transition takes for the loaded request r.
TransitionAllowed(r, t) ==
    /\ r.status = "active"
    /\ t.from = r.step /\ t.action = r.action

\* Mutants of the row: an UPDATE of every column, with the values loaded; the
\* step is not written; the status is set when an end step is left instead of
\* when it is entered.
UpdatedWhole(row, r, t) ==
    [row EXCEPT
        !.step = t.to,
        !.status = IF t.to \in TerminalKeys(row.definition.steps)
                   THEN "completed" ELSE r.status]

UpdatedStays(row, r, t) ==
    [row EXCEPT
        !.status = IF t.to \in TerminalKeys(row.definition.steps)
                   THEN "completed" ELSE @]

UpdatedOnLeave(row, r, t) ==
    [row EXCEPT
        !.step = IF t.to = r.step THEN @ ELSE t.to,
        !.status = IF t.from \in TerminalKeys(row.definition.steps)
                   THEN "completed" ELSE @]

\* The row after the UPDATE: current_step_key is written only if it differs
\* from the value loaded, status only if an end step is entered.
Updated(row, r, t) ==
    [row EXCEPT
        !.step = IF t.to = r.step THEN @ ELSE t.to,
        !.status = IF t.to \in TerminalKeys(row.definition.steps)
                   THEN "completed" ELSE @]

CommitTransition(w) ==
    LET r == request[w]
    IN  /\ r.op = "transition"
        /\ \E t \in r.definition.transitions :
               /\ TransitionAllowed(r, t)
               /\ Len(history[r.contract]) < MaxHistory
               /\ instance' = [instance EXCEPT ![r.contract] = Updated(@, r, t)]
               /\ history' = [history EXCEPT ![r.contract] =
                      Append(@, [from |-> r.step, action |-> r.action, to |-> t.to])]
        /\ Close(w)

\* A DomainError: PlanLimitExceeded, InactiveWorkflow, WorkflowAlreadyCompleted
\* or InvalidTransition.
Refuse(w) ==
    /\ \/ request[w].op = "create" /\ ~CreateAllowed(request[w])
       \/ /\ request[w].op = "transition"
          /\ ~\E t \in request[w].definition.transitions :
                  TransitionAllowed(request[w], t)
    /\ Close(w)
    /\ UNCHANGED <<instance, history>>

\* The process, the connection or the client goes away before the commit.
Abandon(w) ==
    /\ request[w] # Idle
    /\ Close(w)
    /\ UNCHANGED <<instance, history>>

Next ==
    \E w \in Workers :
        \/ LoadForCreate(w) \/ LoadForTransition(w)
        \/ CommitCreate(w) \/ CommitTransition(w)
        \/ Refuse(w) \/ Abandon(w)

Spec == Init /\ [][Next]_vars

----------------------------------------------------------------------------
(***************************************************************************)
(* What holds however the requests interleave.                             *)
(***************************************************************************)
\* The entries of a history that are transitions: all but the first.
Moves(c) == 2..Len(history[c])

EndKeys(c) == TerminalKeys(instance[c].definition.steps)

\* Every entry of the audit trail is a transition of the definition and leaves
\* a step that an earlier entry entered; the first one enters a start step.  So
\* the trail proves, for each step a contract was ever sent to, a path to it
\* from a start step, even when requests that loaded the same step both commit.
AuditTrailJustified ==
    \A c \in Created :
        /\ history[c][1].from = None
        /\ history[c][1].to \in KeysOf(InitialSteps(instance[c].definition.steps))
        /\ \A i \in Moves(c) :
               /\ history[c][i] \in instance[c].definition.transitions
               /\ \E j \in 1..(i - 1) : history[c][j].to = history[c][i].from

\* The current step is the target of the last entry that is not a loop on one
\* step (the first entry leaves no step, so there is one): the instance row and
\* its history, which are written by different statements, never disagree about
\* where the contract is.
CurrentStepAudited ==
    \A c \in Created :
        \E i \in 1..Len(history[c]) :
            /\ instance[c].step = history[c][i].to
            /\ history[c][i].from # history[c][i].to
            /\ \A j \in (i + 1)..Len(history[c]) :
                   history[c][j].from = history[c][j].to

\* An instance is completed exactly when its history has a transition into an
\* end step, and stays so: no late commit can reopen it.
CompletedIffEndEntered ==
    \A c \in Created :
        instance[c].status = "completed"
            <=> \E i \in Moves(c) : history[c][i].to \in EndKeys(c)

\* A completed contract is moved again at most once by each request that was
\* under way when it completed.
FewMovesPastEnd ==
    \A c \in Created : \A i \in Moves(c) :
        history[c][i].to \in EndKeys(c)
            => Len(history[c]) - i < Cardinality(Workers)

\* Requests that counted before each other's commit can push the number of
\* contracts over the plan's limit, by at most one each after the first.
PlanNearlyKept ==
    Cardinality(Created) < MaxContracts + Cardinality(Workers)

\* The steps that the entries of a history entered.
Visited(h) == {h[i].to : i \in 1..Len(h)}

\* The run as WorkflowRun sees it.
RunOf(c) ==
    IF instance[c] = NoInstance THEN [started |-> FALSE]
    ELSE [started |-> TRUE, definition |-> instance[c].definition,
          visited |-> Visited(history[c]),
          at |-> instance[c].step,
          completed |-> instance[c].status = "completed"]

Abstract == INSTANCE WorkflowRun WITH run <- [c \in Contracts |-> RunOf(c)]

\* However the requests interleave, each contract behaves as WorkflowRun says.
ImplementsRun == Abstract!Spec

(***************************************************************************)
(* What the documentation says.  Overlapping requests break it, and only   *)
(* by writing on the strength of a row or a count that is out of date.     *)
(***************************************************************************)
\* The history is one path: each entry leaves the step the one before entered.
AuditTrailIsPath ==
    \A c \in Created : \A i \in Moves(c) :
        history[c][i].from = history[c][i - 1].to

\* "an end (where the workflow completes)": a completed contract is at an end.
CompletedOnlyAtEnd ==
    \A c \in Created :
        instance[c].status = "completed" => instance[c].step \in EndKeys(c)

\* A completed instance takes no further transition
\* (WorkflowAlreadyCompletedError).
CompletedIsFinal ==
    [][\A c \in Created :
           instance[c].status = "completed" => UNCHANGED <<instance[c], history[c]>>]_vars

\* The plan "is limited to" its number of contracts.
PlanKept == Cardinality(Created) <= MaxContracts

\* What the request r has loaded is still what the tables hold.
Fresh(r) ==
    /\ r.op = "create" => r.count = Cardinality(Created)
    /\ r.op = "transition" => /\ instance[r.contract].step = r.step
                              /\ instance[r.contract].status = r.status

\* A request that ends while what it loaded is current keeps the promises: the
\* history stays one path, a contract completes where it ends, a completed one
\* is left alone, and the plan's limit is not exceeded.
FreshRequestsKeepPromises ==
    [][ /\ \A w \in Workers :
               request[w] # Idle /\ request'[w] = Idle => Fresh(request[w])
        /\ AuditTrailIsPath /\ CompletedOnlyAtEnd /\ PlanKept
        => /\ AuditTrailIsPath' /\ CompletedOnlyAtEnd' /\ PlanKept'
           /\ \A c \in Created :
                  instance[c].status = "completed"
                      => UNCHANGED <<instance[c], history[c]>> ]_vars

(***************************************************************************)
(* What the pages say, not true of some definitions that can be activated. *)
(***************************************************************************)
\* "The workflow completes when a document reaches here."
CompletesAtEnd ==
    \A c \in Created :
        instance[c].step \in EndKeys(c) => instance[c].status = "completed"
=============================================================================
