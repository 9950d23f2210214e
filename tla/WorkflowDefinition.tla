------------------------- MODULE WorkflowDefinition -------------------------
(***************************************************************************)
(* One workflow definition under concurrent WorkflowService calls.         *)
(*                                                                         *)
(* Each call opens one unit of work: it loads the aggregate with three     *)
(* SELECTs (the row, then its steps, then its transitions), runs the       *)
(* aggregate's method on what it loaded, and commits.  The database runs   *)
(* at READ COMMITTED and the code takes no row lock and keeps no version   *)
(* column, so other calls may commit between any two of these steps and    *)
(* the method decides on rows that may be out of date by the time they are *)
(* written.  What the database itself enforces is the two unique           *)
(* constraints: the insert that breaks one fails and rolls its call back.  *)
(***************************************************************************)
EXTENDS WorkflowGraph

CONSTANTS Keys,       \* the step keys a designer may use
          Actions,    \* the action names of transitions
          Workers,    \* the requests that may be in progress at once
          Calls,      \* the calls that clients make
          MaxCopies   \* bound: the clones that are followed

AddStepCalls ==
    [op : {"add_step"}, key : Keys, initial : BOOLEAN, terminal : BOOLEAN]

AddTransitionCalls ==
    [op : {"add_transition"}, from : Keys, action : Actions, to : Keys]

ActivateCall == [op |-> "activate"]

DuplicateCall == [op |-> "duplicate"]

ASSUME CallsAssumption ==
    Calls \subseteq AddStepCalls \cup AddTransitionCalls
                      \cup {ActivateCall, DuplicateCall}

ASSUME MaxCopiesAssumption == MaxCopies \in Nat

VARIABLES status,       \* workflow_definitions.status
          steps,        \* the rows of workflow_steps
          transitions,  \* the rows of workflow_transitions
          copies,       \* the graphs inserted by duplicate_definition
          pc,           \* how far each worker's call is
          call,         \* the call each worker serves
          view          \* what each worker's session has loaded

rows == <<status, steps, transitions, copies>>

vars == <<rows, pc, call, view>>

Graphs == [steps : SUBSET StepOf(Keys),
           transitions : SUBSET TransitionOf(Keys, Actions)]

NoCall == [op |-> "none"]

\* A closed session.
NoView == [status |-> "draft", steps |-> {}, transitions |-> {}]

Views == [status : {"draft", "active"},
          steps : SUBSET StepOf(Keys),
          transitions : SUBSET TransitionOf(Keys, Actions)]

TypeOK ==
    /\ status \in {"draft", "active"}
    /\ steps \in SUBSET StepOf(Keys)
    /\ transitions \in SUBSET TransitionOf(Keys, Actions)
    /\ copies \in SUBSET Graphs
    /\ pc \in [Workers -> {"idle", "row", "steps", "loaded"}]
    /\ call \in [Workers -> Calls \cup {NoCall}]
    /\ view \in [Workers -> Views]
    /\ \A w \in Workers : 
           pc[w] = "idle" => call[w] = NoCall /\ view[w] = NoView

\* create_definition has committed: a draft without steps.
Init ==
    /\ status = "draft" /\ steps = {} /\ transitions = {} /\ copies = {}
    /\ pc = [w \in Workers |-> "idle"]
    /\ view = [w \in Workers |-> NoView]
    /\ call = [w \in Workers |-> NoCall]

----------------------------------------------------------------------------
(***************************************************************************)
(* Loading the aggregate: workflow_definitions.get(definition_id).         *)
(***************************************************************************)
LoadRow(w) ==
    /\ pc[w] = "idle"
    /\ \E c \in Calls : call' = [call EXCEPT ![w] = c]
    /\ pc' = [pc EXCEPT ![w] = "row"]
    /\ view' = [view EXCEPT ![w].status = status]
    /\ UNCHANGED rows

LoadSteps(w) ==
    /\ pc[w] = "row"
    /\ pc' = [pc EXCEPT ![w] = "steps"]
    /\ view' = [view EXCEPT ![w].steps = steps]
    /\ UNCHANGED <<rows, call>>

LoadTransitions(w) ==
    /\ pc[w] = "steps"
    /\ pc' = [pc EXCEPT ![w] = "loaded"]
    /\ view' = [view EXCEPT ![w].transitions = transitions]
    /\ UNCHANGED <<rows, call>>

----------------------------------------------------------------------------
(***************************************************************************)
(* The aggregate's methods: what they demand of the loaded definition v.   *)
(***************************************************************************)
\* Mutants: add_step without _require_draft; without the start-step test.
AddStepUnlocked(v, c) ==
    /\ c.op = "add_step"
    /\ c.key \notin KeysOf(v.steps)
    /\ c.initial => InitialSteps(v.steps) = {}

AddStepManyStarts(v, c) ==
    /\ c.op = "add_step"
    /\ v.status = "draft"
    /\ c.key \notin KeysOf(v.steps)

AddStepAllowed(v, c) ==
    /\ c.op = "add_step"
    /\ v.status = "draft"
    /\ c.key \notin KeysOf(v.steps)
    /\ c.initial => InitialSteps(v.steps) = {}

\* Mutant: add_transition without _require_draft.
AddTransitionUnlocked(v, c) ==
    /\ c.op = "add_transition"
    /\ {c.from, c.to} \subseteq KeysOf(v.steps)
    /\ \A t \in TransitionsFrom(v.transitions, c.from) : t.action # c.action

AddTransitionAllowed(v, c) ==
    /\ c.op = "add_transition"
    /\ v.status = "draft"
    /\ {c.from, c.to} \subseteq KeysOf(v.steps)
    /\ \A t \in TransitionsFrom(v.transitions, c.from) : t.action # c.action

\* Mutant: the validation counts steps but does not follow the transitions.
ActivateUnconnected(v, c) ==
    /\ c.op = "activate"
    /\ v.status = "draft"
    /\ HasOneInitial(v.steps) /\ HasTerminal(v.steps)

\* validate_workflow_graph accepts exactly ValidGraph (WorkflowValidation).
ActivateAllowed(v, c) ==
    /\ c.op = "activate"
    /\ v.status = "draft"
    /\ ValidGraph(Keys, v.steps, v.transitions)

\* Mutant: the rows are copied without going through the copy's methods.
DuplicateUnchecked(v, c) == c.op = "duplicate"

\* duplicate_definition rebuilds the graph in an empty draft with add_step
\* and add_transition: it fails on a second start step and on a transition
\* whose end is not among the loaded steps.
DuplicateAllowed(v, c) ==
    /\ c.op = "duplicate"
    /\ \A s, x \in InitialSteps(v.steps) : s = x
    /\ TransitionsJoin(v.steps, v.transitions)

----------------------------------------------------------------------------
(***************************************************************************)
(* The end of a call: commit, or rollback with nothing written.            *)
(***************************************************************************)
\* uq_step_def_key and uq_transition_action, checked against committed rows:
\* an insert that meets an uncommitted one waits for its outcome.
Conflict(c) ==
    \/ /\ c.op = "add_step"
       /\ c.key \in KeysOf(steps)
    \/ /\ c.op = "add_transition"
       /\ \E t \in TransitionsFrom(transitions, c.from) : t.action = c.action

Close(w) ==
    /\ pc' = [pc EXCEPT ![w] = "idle"]
    /\ call' = [call EXCEPT ![w] = NoCall]
    /\ view' = [view EXCEPT ![w] = NoView]

\* Mutant: the table has no unique constraint on (definition, key).
CommitStepNoConstraint(w) ==
    /\ pc[w] = "loaded"
    /\ AddStepAllowed(view[w], call[w])
    /\ steps' = steps \cup {[key |-> call[w].key, initial |-> call[w].initial,
                             terminal |-> call[w].terminal]}
    /\ Close(w)
    /\ UNCHANGED <<status, transitions, copies>>

CommitStep(w) ==
    /\ pc[w] = "loaded"
    /\ AddStepAllowed(view[w], call[w])
    /\ ~Conflict(call[w])
    /\ steps' = steps \cup {[key |-> call[w].key, initial |-> call[w].initial,
                             terminal |-> call[w].terminal]}
    /\ Close(w)
    /\ UNCHANGED <<status, transitions, copies>>

CommitTransition(w) ==
    /\ pc[w] = "loaded"
    /\ AddTransitionAllowed(view[w], call[w])
    /\ ~Conflict(call[w])
    /\ transitions' = transitions \cup
           {[from |-> call[w].from, action |-> call[w].action, to |-> call[w].to]}
    /\ Close(w)
    /\ UNCHANGED <<status, steps, copies>>

CommitActivate(w) ==
    /\ pc[w] = "loaded"
    /\ ActivateAllowed(view[w], call[w])
    /\ status' = "active"
    /\ Close(w)
    /\ UNCHANGED <<steps, transitions, copies>>

CommitDuplicate(w) ==
    /\ pc[w] = "loaded"
    /\ DuplicateAllowed(view[w], call[w])
    /\ Cardinality(copies) < MaxCopies
    /\ copies' = copies \cup {[steps |-> view[w].steps,
                               transitions |-> view[w].transitions]}
    /\ Close(w)
    /\ UNCHANGED <<status, steps, transitions>>

Allowed(v, c) ==
    \/ AddStepAllowed(v, c)
    \/ AddTransitionAllowed(v, c)
    \/ ActivateAllowed(v, c)
    \/ DuplicateAllowed(v, c)

\* Mutant: a refused call leaves its session open and the next one finds the
\* old rows in it.
RefuseKeepsSession(w) ==
    /\ pc[w] = "loaded"
    /\ ~Allowed(view[w], call[w]) \/ Conflict(call[w])
    /\ pc' = [pc EXCEPT ![w] = "idle"]
    /\ call' = [call EXCEPT ![w] = NoCall]
    /\ UNCHANGED <<rows, view>>

\* A DomainError of the method, or the IntegrityError of the commit.
Refuse(w) ==
    /\ pc[w] = "loaded"
    /\ ~Allowed(view[w], call[w]) \/ Conflict(call[w])
    /\ Close(w)
    /\ UNCHANGED rows

\* The process dies, the connection is lost or the client goes away before
\* the commit: __aexit__ (or the database) rolls back.
Abandon(w) ==
    /\ pc[w] # "idle"
    /\ Close(w)
    /\ UNCHANGED rows

Next ==
    \E w \in Workers :
        \/ LoadRow(w) \/ LoadSteps(w) \/ LoadTransitions(w)
        \/ CommitStep(w) \/ CommitTransition(w)
        \/ CommitActivate(w) \/ CommitDuplicate(w)
        \/ Refuse(w) \/ Abandon(w)

Spec == Init /\ [][Next]_vars

----------------------------------------------------------------------------
(***************************************************************************)
(* What holds however the calls interleave.                                *)
(***************************************************************************)
\* Step keys are unique, no step has two transitions for one action, and every
\* transition joins two steps: a stale decision may be committed, but never a
\* graph that find_transition or get_step could not read.
GraphWellFormed ==
    /\ UniqueKeys(steps)
    /\ Unambiguous(transitions)
    /\ TransitionsJoin(steps, transitions)

\* Whatever else was committed around the activation, an active definition has
\* a start step from which an end step can be reached: documents can be put
\* through it (activate() validated a definition that was only partly loaded
\* at the time others were editing it).
ActiveCanRun ==
    status = "active" =>
        \E s \in InitialSteps(steps) : \E k \in TerminalKeys(steps) :
            k \in Reachable(Keys, transitions, s.key)

\* Once no call that loaded the definition as a draft is in progress, the graph
\* of an active definition can no longer change: the lock is late by the calls
\* that were under way, and by those only.
LockedWhenQuiet ==
    [][ /\ status = "active"
        /\ \A w \in Workers : pc[w] = "idle" \/ view[w].status = "active"
        => UNCHANGED <<status, steps, transitions>> ]_vars

\* A clone is a sound draft of its own even when it was read while the source
\* was being edited: one start step at most, and its transitions join its steps.
CopiesWellFormed ==
    \A g \in copies :
        /\ UniqueKeys(g.steps) /\ Unambiguous(g.transitions)
        /\ TransitionsJoin(g.steps, g.transitions)
        /\ \A s, x \in InitialSteps(g.steps) : s = x

(***************************************************************************)
(* What the class docstring promises.  Overlapping calls break it, and     *)
(* only by writing on the strength of rows that are no longer current.     *)
(***************************************************************************)
\* The docstring of the aggregate: "exactly one initial step" (a draft may not
\* have it yet, but must never have two); the form says "Only one step can be
\* the start".
OnlyOneStart == \A s, x \in InitialSteps(steps) : s = x

\* "structural edits are locked once the definition is activated".
GraphLocked == [][status = "active" => UNCHANGED <<steps, transitions>>]_vars

\* An active definition satisfies the readiness check.
ActiveIsValid == status = "active" => ValidGraph(Keys, steps, transitions)

\* The rows that w has loaded are what the tables still hold.
Fresh(w) ==
    view[w] = [status |-> status, steps |-> steps, transitions |-> transitions]

\* A call that ends while the rows it loaded are current keeps the promises:
\* it adds no second start step, leaves no active definition that the readiness
\* check refuses and does not edit an active one.
FreshCallsKeepPromises ==
    [][ /\ \A w \in Workers : pc[w] # "idle" /\ pc'[w] = "idle" => Fresh(w)
        /\ OnlyOneStart /\ ActiveIsValid
        => /\ OnlyOneStart' /\ ActiveIsValid'
           /\ status = "active" => UNCHANGED <<steps, transitions>> ]_vars
=============================================================================
