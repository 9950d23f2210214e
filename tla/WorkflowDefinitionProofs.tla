---------------------- MODULE WorkflowDefinitionProofs ----------------------
(***************************************************************************)
(* The invariants of WorkflowDefinition, for any keys, calls and number of *)
(* overlapping requests.  The argument rests on one fact: rows are only    *)
(* ever added, so what a session has loaded is a part of what is there.    *)
(***************************************************************************)
EXTENDS WorkflowDefinition, TLAPS

\* What sessions have loaded, however torn, is among the committed rows.
ViewsBelow ==
    \A w \in Workers :
        /\ view[w].steps \subseteq steps
        /\ view[w].transitions \subseteq transitions
        /\ view[w].status = "active" => status = "active"

IInv ==
    /\ TypeOK
    /\ ViewsBelow
    /\ GraphWellFormed
    /\ ActiveCanRun
    /\ CopiesWellFormed

----------------------------------------------------------------------------
(***************************************************************************)
(* Graphs that grow.                                                       *)
(***************************************************************************)
LEMMA KeysGrow ==
    ASSUME NEW S, NEW T, S \subseteq T
    PROVE  /\ KeysOf(S) \subseteq KeysOf(T)
           /\ InitialSteps(S) \subseteq InitialSteps(T)
           /\ TerminalKeys(S) \subseteq TerminalKeys(T)
BY DEF KeysOf, InitialSteps, TerminalKeys

\* More transitions, more reachable steps: fewer sets are closed.
LEMMA ReachableGrows ==
    ASSUME NEW K, NEW E, NEW F, E \subseteq F, NEW k
    PROVE  Reachable(K, E, k) \subseteq Reachable(K, F, k)
BY DEF Reachable, Closed

LEMMA WellFormedPart ==
    ASSUME NEW S, NEW T, S \subseteq T, UniqueKeys(T)
    PROVE  UniqueKeys(S)
BY DEF UniqueKeys

LEMMA UnambiguousPart ==
    ASSUME NEW E, NEW F, E \subseteq F, Unambiguous(F)
    PROVE  Unambiguous(E)
BY DEF Unambiguous

\* A graph from whose start step an end step can be reached.
Runs(S, E) ==
    \E s \in InitialSteps(S) : \E k \in TerminalKeys(S) :
        k \in Reachable(Keys, E, s.key)

LEMMA RunsGrows ==
    ASSUME NEW S, NEW T, S \subseteq T, NEW E, NEW F, E \subseteq F, Runs(S, E)
    PROVE  Runs(T, F)
<1>1. PICK s \in InitialSteps(S), k \in TerminalKeys(S) :
          k \in Reachable(Keys, E, s.key)
    BY DEF Runs
<1>2. s \in InitialSteps(T) /\ k \in TerminalKeys(T)
    BY <1>1, KeysGrow
<1>3. k \in Reachable(Keys, F, s.key)
    BY <1>1, ReachableGrows
<1> QED BY <1>2, <1>3 DEF Runs

\* What the readiness check accepts can be run.
LEMMA ValidRuns ==
    ASSUME NEW S, NEW E, ValidGraph(Keys, S, E)
    PROVE  Runs(S, E)
<1>1. PICK s \in S : InitialSteps(S) = {s}
    BY DEF ValidGraph, HasOneInitial
<1>2. PICK t \in S : t.terminal
    BY DEF ValidGraph, HasTerminal
<1>3. t.key \in TerminalKeys(S) /\ t.key \in KeysOf(S)
    BY <1>2 DEF TerminalKeys, KeysOf
<1>4. t.key \in Reachable(Keys, E, s.key)
    BY <1>1, <1>3 DEF ValidGraph
<1> QED BY <1>1, <1>3, <1>4 DEF Runs

----------------------------------------------------------------------------
(***************************************************************************)
(* The inductive invariant.                                                *)
(***************************************************************************)
LEMMA NoViewFacts ==
    /\ NoView \in Views
    /\ NoView.steps = {} /\ NoView.transitions = {} /\ NoView.status = "draft"
BY DEF NoView, Views

LEMMA InitIInv == Init => IInv
<1> SUFFICES ASSUME Init PROVE IInv
    OBVIOUS
<1>1. TypeOK
    BY NoViewFacts DEF Init, TypeOK
<1>2. ViewsBelow
    BY NoViewFacts DEF Init, ViewsBelow
<1>3. GraphWellFormed
    BY DEF Init, GraphWellFormed, UniqueKeys, Unambiguous, TransitionsJoin
<1> QED BY <1>1, <1>2, <1>3 DEF Init, IInv, ActiveCanRun, CopiesWellFormed

\* The session of w is closed; the others are as they were.
LEMMA Closing ==
    ASSUME TypeOK, NEW w \in Workers, Close(w)
    PROVE  /\ pc' \in [Workers -> {"idle", "row", "steps", "loaded"}]
           /\ call' \in [Workers -> Calls \cup {NoCall}]
           /\ view' \in [Workers -> Views]
           /\ \A x \in Workers :
                  pc'[x] = "idle" => call'[x] = NoCall /\ view'[x] = NoView
           /\ \A x \in Workers : view'[x] = NoView \/ view'[x] = view[x]
BY NoViewFacts DEF TypeOK, Close

\* Rows that only grow leave the views of the open sessions below them.
LEMMA ClosingBelow ==
    ASSUME IInv, NEW w \in Workers, Close(w),
           steps \subseteq steps', transitions \subseteq transitions',
           status = "active" => status' = "active"
    PROVE  ViewsBelow'
<1> SUFFICES ASSUME NEW x \in Workers
             PROVE  /\ view'[x].steps \subseteq steps'
                    /\ view'[x].transitions \subseteq transitions'
                    /\ view'[x].status = "active" => status' = "active"
    BY DEF ViewsBelow
<1>1. view'[x] = NoView \/ view'[x] = view[x]
    BY Closing DEF IInv
<1>2. CASE view'[x] = NoView
    BY <1>2, NoViewFacts
<1>3. CASE view'[x] = view[x]
    BY <1>3 DEF IInv, ViewsBelow
<1> QED BY <1>1, <1>2, <1>3

LEMMA RowsUnchanged ==
    ASSUME IInv, UNCHANGED rows
    PROVE  GraphWellFormed' /\ ActiveCanRun' /\ CopiesWellFormed'
BY DEF IInv, rows, GraphWellFormed, ActiveCanRun, CopiesWellFormed

\* The three SELECTs: each part of a view is the rows of that moment.
LEMMA LoadIInv ==
    ASSUME IInv, NEW w \in Workers,
           LoadRow(w) \/ LoadSteps(w) \/ LoadTransitions(w)
    PROVE  IInv'
<1>1. UNCHANGED rows
    BY DEF LoadRow, LoadSteps, LoadTransitions
<1>2. TypeOK'
  <2>1. CASE LoadRow(w)
    BY <2>1, <1>1 DEF IInv, TypeOK, LoadRow, rows, Views
  <2>2. CASE LoadSteps(w)
    BY <2>2, <1>1 DEF IInv, TypeOK, LoadSteps, rows, Views
  <2>3. CASE LoadTransitions(w)
    BY <2>3, <1>1 DEF IInv, TypeOK, LoadTransitions, rows, Views
  <2> QED BY <2>1, <2>2, <2>3
<1>3. ViewsBelow'
  <2>1. CASE LoadRow(w)
    BY <2>1, <1>1 DEF IInv, TypeOK, ViewsBelow, LoadRow, rows, Views
  <2>2. CASE LoadSteps(w)
    BY <2>2, <1>1 DEF IInv, TypeOK, ViewsBelow, LoadSteps, rows, Views
  <2>3. CASE LoadTransitions(w)
    BY <2>3, <1>1 DEF IInv, TypeOK, ViewsBelow, LoadTransitions, rows, Views
  <2> QED BY <2>1, <2>2, <2>3
<1> QED BY <1>1, <1>2, <1>3, RowsUnchanged DEF IInv

LEMMA EndIInv ==
    ASSUME IInv, NEW w \in Workers, Close(w), UNCHANGED rows
    PROVE  IInv'
<1>1. TypeOK'
    BY Closing DEF IInv, TypeOK, rows
<1>2. ViewsBelow'
    BY ClosingBelow DEF rows
<1> QED BY <1>1, <1>2, RowsUnchanged DEF IInv

LEMMA CommitStepIInv ==
    ASSUME IInv, NEW w \in Workers, CommitStep(w)
    PROVE  IInv'
<1> DEFINE c == call[w]
           row == [key |-> c.key, initial |-> c.initial, terminal |-> c.terminal]
<1>1. /\ c.op = "add_step" /\ c.key \notin KeysOf(steps)
      /\ view[w].status = "draft"
    BY DEF CommitStep, AddStepAllowed, Conflict
<1>2. c \in AddStepCalls
    BY <1>1, CallsAssumption DEF IInv, TypeOK, NoCall, ActivateCall,
       DuplicateCall, AddTransitionCalls
<1>3. row \in StepOf(Keys)
    BY <1>2 DEF AddStepCalls, StepOf
<1>4. steps' = steps \cup {row} /\ UNCHANGED <<status, transitions, copies>>
    BY DEF CommitStep
<1>5. TypeOK'
    BY <1>3, <1>4, Closing DEF IInv, TypeOK, CommitStep
<1>6. ViewsBelow'
    BY <1>4, ClosingBelow DEF CommitStep
<1>7. GraphWellFormed'
  <2>1. UniqueKeys(steps \cup {row})
      BY <1>1 DEF IInv, GraphWellFormed, UniqueKeys, KeysOf
  <2>2. TransitionsJoin(steps \cup {row}, transitions)
      BY KeysGrow DEF IInv, GraphWellFormed, TransitionsJoin
  <2> QED BY <1>4, <2>1, <2>2 DEF IInv, GraphWellFormed
<1>8. ActiveCanRun'
  <2>1. Runs(steps, transitions) => Runs(steps \cup {row}, transitions)
      BY RunsGrows
  <2> QED BY <1>4, <2>1 DEF IInv, ActiveCanRun, Runs
<1>9. CopiesWellFormed'
    BY <1>4 DEF IInv, CopiesWellFormed
<1> QED BY <1>5, <1>6, <1>7, <1>8, <1>9 DEF IInv

LEMMA CommitTransitionIInv ==
    ASSUME IInv, NEW w \in Workers, CommitTransition(w)
    PROVE  IInv'
<1> DEFINE c == call[w]
           row == [from |-> c.from, action |-> c.action, to |-> c.to]
<1>1. /\ c.op = "add_transition"
      /\ {c.from, c.to} \subseteq KeysOf(view[w].steps)
      /\ \A t \in TransitionsFrom(transitions, c.from) : t.action # c.action
    BY DEF CommitTransition, AddTransitionAllowed, Conflict
<1>2. c \in AddTransitionCalls
    BY <1>1, CallsAssumption DEF IInv, TypeOK, NoCall, ActivateCall,
       DuplicateCall, AddStepCalls
<1>3. row \in TransitionOf(Keys, Actions)
    BY <1>2 DEF AddTransitionCalls, TransitionOf
<1>4. /\ transitions' = transitions \cup {row}
      /\ UNCHANGED <<status, steps, copies>>
    BY DEF CommitTransition
<1>5. TypeOK'
    BY <1>3, <1>4, Closing DEF IInv, TypeOK, CommitTransition
<1>6. ViewsBelow'
    BY <1>4, ClosingBelow DEF CommitTransition
<1>7. GraphWellFormed'
  <2>1. Unambiguous(transitions \cup {row})
      BY <1>1 DEF IInv, GraphWellFormed, Unambiguous, TransitionsFrom
  <2>2. {c.from, c.to} \subseteq KeysOf(steps)
      BY <1>1, KeysGrow DEF IInv, ViewsBelow
  <2>3. TransitionsJoin(steps, transitions \cup {row})
      BY <2>2 DEF IInv, GraphWellFormed, TransitionsJoin
  <2> QED BY <1>4, <2>1, <2>3 DEF IInv, GraphWellFormed
<1>8. ActiveCanRun'
  <2>1. Runs(steps, transitions) => Runs(steps, transitions \cup {row})
      BY RunsGrows
  <2> QED BY <1>4, <2>1 DEF IInv, ActiveCanRun, Runs
<1>9. CopiesWellFormed'
    BY <1>4 DEF IInv, CopiesWellFormed
<1> QED BY <1>5, <1>6, <1>7, <1>8, <1>9 DEF IInv

\* What is activated is what was loaded; what was loaded is still there.
LEMMA CommitActivateIInv ==
    ASSUME IInv, NEW w \in Workers, CommitActivate(w)
    PROVE  IInv'
<1>1. status' = "active" /\ UNCHANGED <<steps, transitions, copies>>
    BY DEF CommitActivate
<1>2. TypeOK'
    BY <1>1, Closing DEF IInv, TypeOK, CommitActivate
<1>3. ViewsBelow'
    BY <1>1, ClosingBelow DEF CommitActivate
<1>4. ActiveCanRun'
  <2>1. Runs(view[w].steps, view[w].transitions)
      BY ValidRuns DEF CommitActivate, ActivateAllowed
  <2>2. Runs(steps, transitions)
      BY <2>1, RunsGrows DEF IInv, ViewsBelow
  <2> QED BY <1>1, <2>2 DEF ActiveCanRun, Runs
<1> QED BY <1>1, <1>2, <1>3, <1>4 DEF IInv, GraphWellFormed, CopiesWellFormed

LEMMA CommitDuplicateIInv ==
    ASSUME IInv, NEW w \in Workers, CommitDuplicate(w)
    PROVE  IInv'
<1> DEFINE g == [steps |-> view[w].steps, transitions |-> view[w].transitions]
<1>1. copies' = copies \cup {g} /\ UNCHANGED <<status, steps, transitions>>
    BY DEF CommitDuplicate
<1>2. g \in Graphs
    BY DEF IInv, TypeOK, Views, Graphs
<1>3. TypeOK'
    BY <1>1, <1>2, Closing DEF IInv, TypeOK, CommitDuplicate
<1>4. ViewsBelow'
    BY <1>1, ClosingBelow DEF CommitDuplicate
<1>5. UniqueKeys(g.steps) /\ Unambiguous(g.transitions)
    BY WellFormedPart, UnambiguousPart DEF IInv, ViewsBelow, GraphWellFormed
<1>6. /\ TransitionsJoin(g.steps, g.transitions)
      /\ \A s, x \in InitialSteps(g.steps) : s = x
    BY DEF CommitDuplicate, DuplicateAllowed
<1>7. CopiesWellFormed'
    BY <1>1, <1>5, <1>6 DEF IInv, CopiesWellFormed
<1> QED BY <1>1, <1>3, <1>4, <1>7 DEF IInv, GraphWellFormed, ActiveCanRun

LEMMA NextIInv == IInv /\ [Next]_vars => IInv'
<1> SUFFICES ASSUME IInv, [Next]_vars PROVE IInv'
    OBVIOUS
<1>1. CASE UNCHANGED vars
    BY <1>1, RowsUnchanged DEF IInv, TypeOK, ViewsBelow, vars, rows
<1>2. ASSUME NEW w \in Workers, LoadRow(w) \/ LoadSteps(w) \/ LoadTransitions(w)
      PROVE  IInv'
    BY <1>2, LoadIInv
<1>3. ASSUME NEW w \in Workers, CommitStep(w) PROVE IInv'
    BY <1>3, CommitStepIInv
<1>4. ASSUME NEW w \in Workers, CommitTransition(w) PROVE IInv'
    BY <1>4, CommitTransitionIInv
<1>5. ASSUME NEW w \in Workers, CommitActivate(w) PROVE IInv'
    BY <1>5, CommitActivateIInv
<1>6. ASSUME NEW w \in Workers, CommitDuplicate(w) PROVE IInv'
    BY <1>6, CommitDuplicateIInv
<1>7. ASSUME NEW w \in Workers, Refuse(w) \/ Abandon(w) PROVE IInv'
    BY <1>7, EndIInv DEF Refuse, Abandon
<1> QED BY <1>1, <1>2, <1>3, <1>4, <1>5, <1>6, <1>7 DEF Next

----------------------------------------------------------------------------
(***************************************************************************)
(* The theorems.                                                           *)
(***************************************************************************)
\* The inductive invariant: what is loaded is below what is committed, and the
\* four properties that rest on it.
THEOREM DefinitionCorrect == Spec => []IInv
<1> QED BY InitIInv, NextIInv, PTL DEF Spec

\* Rows, calls and sessions keep their shape, and an idle request has no
\* session (UnitOfWork closes it).
THEOREM TypesCorrect == Spec => []TypeOK
<1>1. IInv => TypeOK
    BY DEF IInv
<1> QED BY <1>1, DefinitionCorrect, PTL

\* No interleaving leaves a graph with ambiguous transitions, duplicate keys or
\* a transition that leads nowhere.
THEOREM GraphsAreWellFormed == Spec => []GraphWellFormed
<1>1. IInv => GraphWellFormed
    BY DEF IInv
<1> QED BY <1>1, DefinitionCorrect, PTL

\* An active definition has a start step from which an end step can be reached,
\* whatever was committed while activate() validated.
THEOREM ActiveDefinitionsRun == Spec => []ActiveCanRun
<1>1. IInv => ActiveCanRun
    BY DEF IInv
<1> QED BY <1>1, DefinitionCorrect, PTL

\* Clones made from torn loads are sound drafts.
THEOREM ClonesAreWellFormed == Spec => []CopiesWellFormed
<1>1. IInv => CopiesWellFormed
    BY DEF IInv
<1> QED BY <1>1, DefinitionCorrect, PTL

\* The lock of an active definition is late by the calls under way only: once
\* no session holds the draft, the graph is final.
THEOREM LockHoldsWhenQuiet == Spec => LockedWhenQuiet
<1> DEFINE Quiet == \A w \in Workers : pc[w] = "idle" \/ view[w].status = "active"
           A == status = "active" /\ Quiet => UNCHANGED <<status, steps, transitions>>
<1>1. ASSUME [Next]_vars, status = "active", Quiet
      PROVE  UNCHANGED <<status, steps, transitions>>
  <2>1. CASE UNCHANGED vars
      BY <2>1 DEF vars, rows
  <2>2. ASSUME NEW w \in Workers,
               CommitStep(w) \/ CommitTransition(w) \/ CommitActivate(w)
        PROVE  FALSE
      BY <1>1, <2>2 DEF CommitStep, CommitTransition, CommitActivate,
         AddStepAllowed, AddTransitionAllowed, ActivateAllowed
  <2>3. ASSUME NEW w \in Workers,
               \/ LoadRow(w) \/ LoadSteps(w) \/ LoadTransitions(w)
               \/ CommitDuplicate(w) \/ Refuse(w) \/ Abandon(w)
        PROVE  UNCHANGED <<status, steps, transitions>>
      BY <2>3 DEF LoadRow, LoadSteps, LoadTransitions, CommitDuplicate, Refuse,
         Abandon, rows
  <2> QED BY <1>1, <2>1, <2>2, <2>3 DEF Next
<1> QED BY <1>1, PTL DEF Spec, LockedWhenQuiet

LEMMA FreshCallKeeps ==
    ASSUME IInv, [Next]_vars, OnlyOneStart, ActiveIsValid,
           \A w \in Workers :
               CommitStep(w) \/ CommitTransition(w) \/ CommitActivate(w) => Fresh(w)
    PROVE  /\ OnlyOneStart' /\ ActiveIsValid'
           /\ status = "active" => UNCHANGED <<steps, transitions>>
<1>1. \A w \in Workers :
          CommitStep(w) \/ CommitTransition(w) \/ CommitActivate(w) => Fresh(w)
    OBVIOUS
<1>2. CASE UNCHANGED <<status, steps, transitions>>
    BY <1>2 DEF OnlyOneStart, ActiveIsValid
<1>3. ASSUME NEW w \in Workers, CommitStep(w)
      PROVE  OnlyOneStart' /\ ActiveIsValid' /\ status # "active"
  <2> DEFINE c == call[w]
             row == [key |-> c.key, initial |-> c.initial, terminal |-> c.terminal]
  <2>1. /\ status = "draft" /\ status' = "draft" /\ steps' = steps \cup {row}
        /\ c.initial => InitialSteps(steps) = {}
      BY <1>1, <1>3 DEF CommitStep, AddStepAllowed, Fresh
  <2>2. InitialSteps(steps \cup {row})
            = IF c.initial THEN InitialSteps(steps) \cup {row} ELSE InitialSteps(steps)
      BY DEF InitialSteps
  <2>3. \A s, x \in InitialSteps(steps \cup {row}) : s = x
      BY <2>1, <2>2 DEF OnlyOneStart
  <2> QED BY <2>1, <2>3 DEF OnlyOneStart, ActiveIsValid
<1>4. ASSUME NEW w \in Workers, CommitTransition(w)
      PROVE  OnlyOneStart' /\ ActiveIsValid' /\ status # "active"
    BY <1>1, <1>4 DEF CommitTransition, AddTransitionAllowed, Fresh,
       OnlyOneStart, ActiveIsValid
<1>5. ASSUME NEW w \in Workers, CommitActivate(w)
      PROVE  OnlyOneStart' /\ ActiveIsValid' /\ status # "active"
    BY <1>1, <1>5 DEF CommitActivate, ActivateAllowed, Fresh, OnlyOneStart,
       ActiveIsValid
<1>6. ASSUME NEW w \in Workers,
             \/ LoadRow(w) \/ LoadSteps(w) \/ LoadTransitions(w)
             \/ CommitDuplicate(w) \/ Refuse(w) \/ Abandon(w)
      PROVE  UNCHANGED <<status, steps, transitions>>
    BY <1>6 DEF LoadRow, LoadSteps, LoadTransitions, CommitDuplicate, Refuse,
       Abandon, rows
<1>7. CASE UNCHANGED vars
    BY <1>2, <1>7 DEF vars, rows
<1> QED BY <1>2, <1>3, <1>4, <1>5, <1>6, <1>7 DEF Next

\* A call that commits on rows that are still current keeps what the docstring
\* of the aggregate promises: overlapping is the only way to break it.
THEOREM FreshCallsKeep == Spec => FreshCallsKeepPromises
<1> DEFINE AllFresh == \A w \in Workers : pc[w] # "idle" /\ pc'[w] = "idle" => Fresh(w)
           Kept == status = "active" => UNCHANGED <<steps, transitions>>
<1>1. IInv /\ [Next]_vars
          => (AllFresh /\ OnlyOneStart /\ ActiveIsValid
                  => OnlyOneStart' /\ ActiveIsValid' /\ Kept)
    <2>1. ASSUME IInv, NEW w \in Workers,
                 CommitStep(w) \/ CommitTransition(w) \/ CommitActivate(w)
          PROVE  pc[w] # "idle" /\ pc'[w] = "idle"
        BY <2>1 DEF IInv, TypeOK, CommitStep, CommitTransition, CommitActivate, Close
    <2> QED BY <2>1, FreshCallKeeps
<1> QED BY <1>1, DefinitionCorrect, PTL DEF Spec, FreshCallsKeepPromises

----------------------------------------------------------------------------
(***************************************************************************)
(* How much of the overlap has to go.  The counterexamples of the runs     *)
(* DefinitionTwoStarts and DefinitionLateEdit need two edits at once.      *)
(* What the docstring says holds without exception when the edits of the   *)
(* definition do not overlap, from the first SELECT to the commit; calls   *)
(* that clone it may overlap with them and with each other.                *)
(***************************************************************************)
Editing(w) == pc[w] # "idle" /\ call[w] # DuplicateCall

OneEditAtATime == \A v, w \in Workers : Editing(v) /\ Editing(w) => v = w

\* As far as it has loaded the definition, an edit alone sees what is there.
ViewsCurrent ==
    \A w \in Workers : Editing(w) =>
        /\ view[w].status = status
        /\ pc[w] \in {"steps", "loaded"} => view[w].steps = steps
        /\ pc[w] = "loaded" => view[w].transitions = transitions

\* Where the rows stay, only the load of w itself changes what it has loaded.
LEMMA ViewsStayCurrent ==
    ASSUME ViewsCurrent, UNCHANGED <<status, steps, transitions>>, NEW w \in Workers,
           \A x \in Workers \ {w} : /\ pc'[x] = pc[x] /\ call'[x] = call[x]
                                    /\ view'[x] = view[x],
           Editing(w)' =>
               /\ view'[w].status = status
               /\ pc'[w] \in {"steps", "loaded"} => view'[w].steps = steps
               /\ pc'[w] = "loaded" => view'[w].transitions = transitions
    PROVE  ViewsCurrent'
BY DEF ViewsCurrent, Editing

LEMMA LoadsStayCurrent ==
    ASSUME IInv, OneEditAtATime, [Next]_vars, ViewsCurrent
    PROVE  ViewsCurrent'
<1>1. CASE UNCHANGED vars
    BY <1>1 DEF ViewsCurrent, Editing, vars, rows
<1>2. ASSUME NEW w \in Workers, Close(w)
      PROVE  /\ \A x \in Workers \ {w} : pc'[x] = pc[x] /\ call'[x] = call[x]
                                           /\ view'[x] = view[x]
             /\ pc'[w] = "idle"
    BY <1>2 DEF Close, IInv, TypeOK
<1>3. ASSUME NEW w \in Workers, LoadRow(w) \/ LoadSteps(w) \/ LoadTransitions(w)
      PROVE  ViewsCurrent'
    <2>1. UNCHANGED <<status, steps, transitions>>
        BY <1>3 DEF LoadRow, LoadSteps, LoadTransitions, rows
    <2>2. \A x \in Workers \ {w} : pc'[x] = pc[x] /\ call'[x] = call[x] /\ view'[x] = view[x]
        BY <1>3 DEF LoadRow, LoadSteps, LoadTransitions, IInv, TypeOK
    <2>3. pc[w] # "idle" => (Editing(w)' => Editing(w))
        BY <1>3 DEF LoadRow, LoadSteps, LoadTransitions, IInv, TypeOK, Editing
    <2>4. Editing(w)' =>
              /\ view'[w].status = status
              /\ pc'[w] \in {"steps", "loaded"} => view'[w].steps = steps
              /\ pc'[w] = "loaded" => view'[w].transitions = transitions
        BY <1>3, <2>3 DEF LoadRow, LoadSteps, LoadTransitions, IInv, TypeOK, Views, ViewsCurrent
    <2> QED BY <2>1, <2>2, <2>4, ViewsStayCurrent
<1>4. ASSUME NEW w \in Workers, CommitDuplicate(w) \/ Refuse(w) \/ Abandon(w)
      PROVE  ViewsCurrent'
    <2>1. Close(w) /\ UNCHANGED <<status, steps, transitions>>
        BY <1>4 DEF CommitDuplicate, Refuse, Abandon, rows
    <2>2. ~Editing(w)'
        BY <1>2, <2>1 DEF Editing
    <2> QED BY <1>2, <2>1, <2>2, ViewsStayCurrent
<1>5. ASSUME NEW w \in Workers, CommitStep(w) \/ CommitTransition(w) \/ CommitActivate(w)
      PROVE  ViewsCurrent'
    <2>1. Editing(w) /\ Close(w)
        BY <1>5 DEF CommitStep, CommitTransition, CommitActivate, AddStepAllowed,
           AddTransitionAllowed, ActivateAllowed, Editing, DuplicateCall
    <2>2. \A x \in Workers : ~Editing(x)'
        BY <1>2, <2>1 DEF Editing, OneEditAtATime
    <2> QED BY <2>2 DEF ViewsCurrent
<1> QED BY <1>1, <1>3, <1>4, <1>5 DEF Next

\* What an edit alone commits, it commits on current rows.
LEMMA AloneIsFresh ==
    ASSUME IInv, ViewsCurrent, NEW w \in Workers,
           CommitStep(w) \/ CommitTransition(w) \/ CommitActivate(w)
    PROVE  Fresh(w)
<1>1. Editing(w) /\ pc[w] = "loaded"
    BY DEF CommitStep, CommitTransition, CommitActivate, AddStepAllowed,
       AddTransitionAllowed, ActivateAllowed, Editing, DuplicateCall
<1> QED BY <1>1 DEF ViewsCurrent, Fresh, IInv, TypeOK, Views

\* When the edits of a definition do not overlap it never has two start steps,
\* satisfies the readiness check once it is active, and is not edited any more.
THEOREM SerialEditsKeepPromises ==
    Spec /\ []OneEditAtATime => [](OnlyOneStart /\ ActiveIsValid) /\ GraphLocked
<1> DEFINE Kept == status = "active" => UNCHANGED <<steps, transitions>>
           Serial == ViewsCurrent /\ OnlyOneStart /\ ActiveIsValid
<1>1. Init => Serial
    BY DEF Init, ViewsCurrent, Editing, OnlyOneStart, ActiveIsValid, InitialSteps
<1>2. IInv /\ OneEditAtATime /\ [Next]_vars /\ Serial => Serial' /\ Kept
    BY LoadsStayCurrent, AloneIsFresh, FreshCallKeeps
<1>3. Serial => OnlyOneStart /\ ActiveIsValid
    OBVIOUS
<1> QED BY <1>1, <1>2, <1>3, DefinitionCorrect, PTL DEF Spec, GraphLocked

----------------------------------------------------------------------------
\* What ContractWorkflow assumes of the definitions it is given holds of the
\* rows in every state, however the calls that edit them interleave, and of
\* every clone.
THEOREM RowsAreSound ==
    Spec => [](/\ SoundDefinition(Keys, Actions,
                      [status |-> status, steps |-> steps, transitions |-> transitions])
               /\ \A g \in copies :
                      SoundDefinition(Keys, Actions,
                          [status |-> "draft", steps |-> g.steps,
                           transitions |-> g.transitions]))
<1>1. IInv => SoundDefinition(Keys, Actions,
                  [status |-> status, steps |-> steps, transitions |-> transitions])
    BY DEF IInv, TypeOK, GraphWellFormed, ActiveCanRun, SoundDefinition
<1>2. IInv => \A g \in copies :
                  SoundDefinition(Keys, Actions,
                      [status |-> "draft", steps |-> g.steps,
                       transitions |-> g.transitions])
    BY DEF IInv, TypeOK, Graphs, CopiesWellFormed, SoundDefinition
<1> QED BY <1>1, <1>2, DefinitionCorrect, PTL
=============================================================================
