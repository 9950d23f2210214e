------------------------- MODULE WorkflowValidation -------------------------
(***************************************************************************)
(* find_validation_issues: the readiness check that activate() and the     *)
(* workflow page run over a loaded definition.  One call is modelled, from *)
(* its first test to its return; each iteration of the `while frontier'    *)
(* loop is a step.  The definition is whatever the caller loaded: its      *)
(* steps and its transitions come from two SELECTs, so a transition may    *)
(* name a step that the list of steps does not have.                       *)
(***************************************************************************)
EXTENDS WorkflowGraph

CONSTANTS Keys,        \* the step keys
          Actions,     \* the action names of transitions
          Definitions  \* the graphs a caller may pass

ASSUME DefinitionsAssumption ==
    \A d \in Definitions :
        /\ d.steps \subseteq StepOf(Keys) /\ UniqueKeys(d.steps)
        /\ d.transitions \subseteq TransitionOf(Keys, Actions)

VARIABLES steps,        \* definition.steps, the argument
          transitions,  \* definition.transitions, the argument
          pc,           \* "start", "scan" (the while loop) or "done"
          reachable,    \* the local set of that name
          frontier,     \* the local list of that name; see Pop
          unreachable,  \* the keys named by the last issue
          issues        \* the returned list, one tag per message

vars == <<steps, transitions, pc, reachable, frontier, unreachable, issues>>

Issue == {"no_steps", "no_start", "many_starts", "no_end", "unreachable"}

TypeOK ==
    /\ steps \subseteq StepOf(Keys)
    /\ transitions \subseteq TransitionOf(Keys, Actions)
    /\ pc \in {"start", "scan", "done"}
    /\ reachable \subseteq Keys
    /\ frontier \subseteq reachable
    /\ unreachable \subseteq Keys
    /\ issues \subseteq Issue

Init ==
    /\ \E d \in Definitions : steps = d.steps /\ transitions = d.transitions
    /\ pc = "start"
    /\ reachable = {} /\ frontier = {} /\ unreachable = {} /\ issues = {}

StartIssues ==
    IF InitialSteps(steps) = {} THEN {"no_start"}
    ELSE IF HasOneInitial(steps) THEN {} ELSE {"many_starts"}

EndIssues == IF HasTerminal(steps) THEN {} ELSE {"no_end"}

\* `if not definition.steps': the early return.
NoSteps ==
    /\ pc = "start"
    /\ steps = {}
    /\ issues' = {"no_steps"}
    /\ pc' = "done"
    /\ UNCHANGED <<steps, transitions, reachable, frontier, unreachable>>

\* The counting tests when the search that follows them is skipped.
NoSearch ==
    /\ pc = "start"
    /\ steps # {}
    /\ ~HasOneInitial(steps)
    /\ issues' = StartIssues \cup EndIssues
    /\ pc' = "done"
    /\ UNCHANGED <<steps, transitions, reachable, frontier, unreachable>>

\* The counting tests, then the search is set up at the only start step.
BeginSearch ==
    /\ pc = "start"
    /\ HasOneInitial(steps)
    /\ issues' = StartIssues \cup EndIssues
    /\ reachable' = KeysOf(InitialSteps(steps))
    /\ frontier' = KeysOf(InitialSteps(steps))
    /\ pc' = "scan"
    /\ UNCHANGED <<steps, transitions, unreachable>>

\* Mutants of Pop: a step found is not added to `reachable'; the inner loop
\* stops at the first new step.
PopUnmarked ==
    \E k \in frontier :
        LET new == {t.to : t \in TransitionsFrom(transitions, k)} \ reachable
        IN  /\ pc = "scan"
            /\ frontier' = (frontier \ {k}) \cup new
            /\ UNCHANGED <<steps, transitions, pc, reachable, unreachable, issues>>

PopFollowsOne ==
    \E k \in frontier :
        LET found == {t.to : t \in TransitionsFrom(transitions, k)} \ reachable
            new == IF found = {} THEN {} ELSE {CHOOSE x \in found : TRUE}
        IN  /\ pc = "scan"
            /\ reachable' = reachable \cup new
            /\ frontier' = (frontier \ {k}) \cup new
            /\ UNCHANGED <<steps, transitions, pc, unreachable, issues>>

\* One iteration of the while loop.  frontier.pop() takes the last element;
\* the model takes any, so what it shows does not rest on the order.
Pop ==
    \E k \in frontier :
        LET new == {t.to : t \in TransitionsFrom(transitions, k)} \ reachable
        IN  /\ pc = "scan"
            /\ reachable' = reachable \cup new
            /\ frontier' = (frontier \ {k}) \cup new
            /\ UNCHANGED <<steps, transitions, pc, unreachable, issues>>

\* Mutant of Report: end steps are left out of the comparison.
ReportSkipsEnds ==
    /\ pc = "scan"
    /\ frontier = {}
    /\ unreachable' = KeysOf(steps) \ (reachable \cup TerminalKeys(steps))
    /\ issues' = issues \cup (IF unreachable' = {} THEN {} ELSE {"unreachable"})
    /\ pc' = "done"
    /\ UNCHANGED <<steps, transitions, reachable, frontier>>

\* The loop is over: all_keys - reachable is reported if it is not empty.
Report ==
    /\ pc = "scan"
    /\ frontier = {}
    /\ unreachable' = KeysOf(steps) \ reachable
    /\ issues' = issues \cup (IF unreachable' = {} THEN {} ELSE {"unreachable"})
    /\ pc' = "done"
    /\ UNCHANGED <<steps, transitions, reachable, frontier>>

Next == NoSteps \/ NoSearch \/ BeginSearch \/ Pop \/ Report

\* The function runs without awaiting: nothing can keep it from going on.
Spec == Init /\ [][Next]_vars /\ WF_vars(Next)

----------------------------------------------------------------------------
\* The check accepts exactly the valid graphs: a workflow is activated only
\* if it has one start step, an end step and no unreachable step, and a valid
\* one is never refused (find_validation_issues as activate() uses it).
VerdictExact ==
    pc = "done" => (issues = {} <=> ValidGraph(Keys, steps, transitions))

\* When the search ran, the steps named in "can't be reached from the start
\* yet" are exactly those no path leads to, and nothing it names is lost when
\* several problems are reported together.
UnreachableExact ==
    pc = "done" /\ HasOneInitial(steps) =>
        \A s \in InitialSteps(steps) :
            unreachable = KeysOf(steps) \ Reachable(Keys, transitions, s.key)

\* What the search knows in the middle: it stays inside every closed set that
\* contains the start step, and only frontier steps still have unexplored
\* transitions (the loop invariant the two properties above follow from).
SearchInv ==
    pc # "start" /\ HasOneInitial(steps) =>
        /\ KeysOf(InitialSteps(steps)) \subseteq reachable
        /\ \A S \in SUBSET Keys :
               KeysOf(InitialSteps(steps)) \subseteq S /\ Closed(transitions, S)
                   => reachable \subseteq S
        /\ \A t \in transitions :
               t.from \in reachable \ frontier => t.to \in reachable

\* The search ends on every graph, cycles included: the check is run while a
\* request waits for it.
Terminates == <>(pc = "done")
=============================================================================
