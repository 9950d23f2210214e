--------------------------- MODULE WorkflowGraph ---------------------------
(***************************************************************************)
(* The graph of a WorkflowDefinition as pure operators.  A step is a       *)
(* record [key, initial, terminal] and a transition a record               *)
(* [from, action, to]; names, descriptions and the agent of a step do not  *)
(* take part in any decision modelled here.  A graph is a record           *)
(* [steps, transitions].                                                   *)
(***************************************************************************)
EXTENDS Naturals, FiniteSets

StepOf(Keys) == [key : Keys, initial : BOOLEAN, terminal : BOOLEAN]

TransitionOf(Keys, Actions) == [from : Keys, action : Actions, to : Keys]

KeysOf(steps) == {s.key : s \in steps}

InitialSteps(steps) == {s \in steps : s.initial}

TerminalKeys(steps) == {s.key : s \in {x \in steps : x.terminal}}

\* transitions_from: the outgoing transitions of a step.
TransitionsFrom(transitions, key) == {t \in transitions : t.from = key}

----------------------------------------------------------------------------
(***************************************************************************)
(* What the code promises of a graph, stated without its algorithm.        *)
(***************************************************************************)
Closed(transitions, S) == \A t \in transitions : t.from \in S => t.to \in S

\* The keys in K that every closed set containing `start' must contain: the
\* steps a document can get to.
Reachable(K, transitions, start) ==
    {k \in K : \A S \in SUBSET K :
                   start \in S /\ Closed(transitions, S) => k \in S}

HasOneInitial(steps) == \E s \in steps : InitialSteps(steps) = {s}

HasTerminal(steps) == \E s \in steps : s.terminal

\* "exactly one start step, at least one end step, and every step must be
\* reachable from the start", over the keys K.
ValidGraph(K, steps, transitions) ==
    /\ HasOneInitial(steps)
    /\ HasTerminal(steps)
    /\ \A s \in InitialSteps(steps) :
           KeysOf(steps) \subseteq Reachable(K, transitions, s.key)

\* Every transition joins two steps of the definition.
TransitionsJoin(steps, transitions) ==
    \A t \in transitions : {t.from, t.to} \subseteq KeysOf(steps)

UniqueKeys(steps) == \A s, x \in steps : s.key = x.key => s = x

\* No two transitions leave the same step under the same action name.
Unambiguous(transitions) ==
    \A t, u \in transitions : t.from = u.from /\ t.action = u.action => t = u

\* What a contract on its way through a definition relies on.
SoundDefinition(Keys, Actions, d) ==
    /\ d.status \in {"draft", "active"}
    /\ d.steps \subseteq StepOf(Keys) /\ UniqueKeys(d.steps)
    /\ d.transitions \subseteq TransitionOf(Keys, Actions) /\ Unambiguous(d.transitions)
    /\ TransitionsJoin(d.steps, d.transitions)
    /\ d.status = "active" => InitialSteps(d.steps) # {}
=============================================================================
