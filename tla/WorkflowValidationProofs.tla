---------------------- MODULE WorkflowValidationProofs ----------------------
(***************************************************************************)
(* The readiness check gives the exact verdict on every graph, for any set *)
(* of step keys, action names and definitions.  No induction over paths is *)
(* needed: "reachable" is stated as membership of every closed set, and    *)
(* the loop invariant says that the search never leaves such a set.        *)
(***************************************************************************)
EXTENDS WorkflowValidation, FiniteSetTheorems, TLAPS

StartKeys == KeysOf(InitialSteps(steps))

\* What the returned list says, in terms of the search that was made.
ReportInv ==
    /\ pc = "start" => issues = {} /\ reachable = {}
    /\ pc = "scan" => HasOneInitial(steps) /\ issues = EndIssues
    /\ pc = "done" /\ ~HasOneInitial(steps) => issues # {}
    /\ pc = "done" /\ HasOneInitial(steps) =>
           /\ frontier = {}
           /\ unreachable = KeysOf(steps) \ reachable
           /\ issues = EndIssues \cup
                         (IF unreachable = {} THEN {} ELSE {"unreachable"})

IInv == TypeOK /\ SearchInv /\ ReportInv

\* The keys of a set of steps of the model are keys of the model.
LEMMA KeysInKeys == ASSUME NEW S \in SUBSET StepOf(Keys)
                    PROVE  KeysOf(S) \subseteq Keys /\ KeysOf(InitialSteps(S)) \subseteq KeysOf(S)
BY DEF KeysOf, InitialSteps, StepOf

LEMMA InitIInv == Init => IInv
<1> SUFFICES ASSUME Init PROVE IInv
    OBVIOUS
<1>1. TypeOK
    BY DefinitionsAssumption DEF Init, TypeOK
<1>2. SearchInv /\ ReportInv
    BY DEF Init, SearchInv, ReportInv
<1> QED BY <1>1, <1>2 DEF IInv

LEMMA NoStepsIInv == IInv /\ NoSteps => IInv'
<1> SUFFICES ASSUME IInv, NoSteps PROVE IInv'
    OBVIOUS
<1> USE DEF IInv, NoSteps
<1>0. ~HasOneInitial(steps)
    BY DEF HasOneInitial, InitialSteps
<1>1. TypeOK'
    BY DEF TypeOK, Issue
<1>2. SearchInv'
    BY <1>0 DEF SearchInv, HasOneInitial
<1>3. ReportInv'
    BY <1>0 DEF ReportInv, HasOneInitial
<1> QED BY <1>1, <1>2, <1>3

LEMMA NoSearchIInv == IInv /\ NoSearch => IInv'
<1> SUFFICES ASSUME IInv, NoSearch PROVE IInv'
    OBVIOUS
<1> USE DEF IInv, NoSearch
<1>0. StartIssues \in {{"no_start"}, {"many_starts"}}
    BY DEF StartIssues
<1>1. TypeOK'
    BY <1>0 DEF TypeOK, Issue, EndIssues
<1>2. SearchInv'
    BY DEF SearchInv, HasOneInitial
<1>3. ReportInv'
    BY <1>0 DEF ReportInv, HasOneInitial
<1> QED BY <1>1, <1>2, <1>3

LEMMA BeginSearchIInv == IInv /\ BeginSearch => IInv'
<1> SUFFICES ASSUME IInv, BeginSearch PROVE IInv'
    OBVIOUS
<1> USE DEF IInv, BeginSearch
<1>0. StartIssues = {}
    <2>1. InitialSteps(steps) # {}
        BY DEF HasOneInitial
    <2> QED BY <2>1 DEF StartIssues
<1>1. TypeOK'
    BY <1>0, KeysInKeys DEF TypeOK, Issue, EndIssues
<1>2. SearchInv'
    BY DEF SearchInv
<1>3. ReportInv'
    BY <1>0 DEF ReportInv, HasOneInitial, EndIssues
<1> QED BY <1>1, <1>2, <1>3

LEMMA PopIInv == IInv /\ Pop => IInv'
<1> SUFFICES ASSUME IInv, Pop PROVE IInv'
    OBVIOUS
<1> USE DEF IInv
<1>1. PICK k \in frontier :
          LET new == {t.to : t \in TransitionsFrom(transitions, k)} \ reachable
          IN  /\ pc = "scan"
              /\ reachable' = reachable \cup new
              /\ frontier' = (frontier \ {k}) \cup new
              /\ UNCHANGED <<steps, transitions, pc, unreachable, issues>>
    BY DEF Pop
<1> DEFINE new == {t.to : t \in TransitionsFrom(transitions, k)} \ reachable
<1>2. /\ pc = "scan"
      /\ reachable' = reachable \cup new
      /\ frontier' = (frontier \ {k}) \cup new
      /\ UNCHANGED <<steps, transitions, pc, unreachable, issues>>
    BY <1>1
<1>3. HasOneInitial(steps) /\ k \in reachable
    BY <1>2 DEF ReportInv, TypeOK
<1>4. \A t \in transitions : t.from = k => t.to \in reachable \cup new
    BY DEF TransitionsFrom
<1>5. new \subseteq Keys
    BY DEF TypeOK, TransitionsFrom, TransitionOf
<1>6. \A S \in SUBSET Keys : Closed(transitions, S) /\ k \in S => new \subseteq S
    BY DEF Closed, TransitionsFrom
<1> HIDE DEF new
<1>7. TypeOK'
    BY <1>2, <1>5 DEF TypeOK
<1>8. SearchInv'
    <2>1. KeysOf(InitialSteps(steps)) \subseteq reachable'
        BY <1>2, <1>3 DEF SearchInv
    <2>2. ASSUME NEW S \in SUBSET Keys,
                 KeysOf(InitialSteps(steps)) \subseteq S, Closed(transitions, S)
          PROVE  reachable' \subseteq S
        <3>1. reachable \subseteq S
            BY <2>2, <1>2, <1>3 DEF SearchInv
        <3> QED BY <3>1, <2>2, <1>2, <1>3, <1>6
    <2>3. ASSUME NEW t \in transitions, t.from \in reachable' \ frontier'
          PROVE  t.to \in reachable'
        <3>1. CASE t.from = k
            BY <3>1, <1>2, <1>4
        <3>2. CASE t.from # k
            <4>1. t.from \in reachable \ frontier
                BY <3>2, <2>3, <1>2
            <4> QED BY <4>1, <1>2, <1>3 DEF SearchInv
        <3> QED BY <3>1, <3>2
    <2> QED BY <1>2, <2>1, <2>2, <2>3 DEF SearchInv
<1>9. ReportInv'
    BY <1>2 DEF ReportInv, HasOneInitial, EndIssues
<1> QED BY <1>7, <1>8, <1>9

LEMMA ReportIInv == IInv /\ Report => IInv'
<1> SUFFICES ASSUME IInv, Report PROVE IInv'
    OBVIOUS
<1> USE DEF IInv, Report
<1>1. TypeOK'
    BY KeysInKeys DEF TypeOK, Issue
<1>2. SearchInv'
    BY DEF SearchInv
<1>3. ReportInv'
    BY DEF ReportInv, HasOneInitial, EndIssues
<1> QED BY <1>1, <1>2, <1>3

LEMMA StutterIInv == IInv /\ UNCHANGED vars => IInv'
BY DEF IInv, TypeOK, SearchInv, ReportInv, vars, HasOneInitial, EndIssues

----------------------------------------------------------------------------
\* The inductive invariant of the search holds throughout every call.
THEOREM SearchCorrect == Spec => []IInv
<1>1. IInv /\ [Next]_vars => IInv'
    BY NoStepsIInv, NoSearchIInv, BeginSearchIInv, PopIInv, ReportIInv,
       StutterIInv DEF Next
<1> QED BY <1>1, InitIInv, PTL DEF Spec

\* The arguments and the local variables of the check have their types.
THEOREM TypeCorrect == Spec => []TypeOK
<1>1. IInv => TypeOK
    BY DEF IInv
<1> QED BY <1>1, SearchCorrect, PTL

\* At every pass of the loop the set collected so far lies in every closed set
\* around the start step, and only the frontier is still to be followed.
THEOREM SearchStaysExact == Spec => []SearchInv
<1>1. IInv => SearchInv
    BY DEF IInv
<1> QED BY <1>1, SearchCorrect, PTL

\* When the search is over, what it collected is the set of reachable steps.
LEMMA SearchExact ==
    ASSUME IInv, pc = "done", NEW s \in steps, InitialSteps(steps) = {s}
    PROVE  reachable = Reachable(Keys, transitions, s.key)
<1>0. HasOneInitial(steps) /\ KeysOf(InitialSteps(steps)) = {s.key}
    BY DEF HasOneInitial, KeysOf
<1>1. frontier = {} /\ reachable \in SUBSET Keys /\ s.key \in reachable
    BY <1>0 DEF IInv, TypeOK, ReportInv, SearchInv
<1>2. Closed(transitions, reachable)
    BY <1>0, <1>1 DEF IInv, SearchInv, Closed
<1>3. Reachable(Keys, transitions, s.key) \subseteq reachable
    BY <1>1, <1>2 DEF Reachable
<1>4. \A S \in SUBSET Keys :
          s.key \in S /\ Closed(transitions, S) => reachable \subseteq S
    BY <1>0 DEF IInv, SearchInv
<1>5. reachable \subseteq Reachable(Keys, transitions, s.key)
    BY <1>1, <1>4 DEF Reachable
<1> QED BY <1>3, <1>5

\* Whatever the graph, the steps reported as unreachable are exactly those no
\* path from the start step leads to.
THEOREM UnreachableIsExact == Spec => []UnreachableExact
<1>1. IInv => UnreachableExact
    BY SearchExact DEF UnreachableExact, HasOneInitial, IInv, ReportInv
<1> QED BY <1>1, SearchCorrect, PTL

\* Whatever the graph, the readiness check accepts it exactly when it has one
\* start step, an end step and no unreachable step.
THEOREM VerdictIsExact == Spec => []VerdictExact
<1>1. IInv => VerdictExact
    <2> SUFFICES ASSUME IInv, pc = "done"
                 PROVE  issues = {} <=> ValidGraph(Keys, steps, transitions)
        BY DEF VerdictExact
    <2>1. CASE ~HasOneInitial(steps)
        BY <2>1 DEF IInv, ReportInv, ValidGraph
    <2>2. CASE HasOneInitial(steps)
        <3>1. PICK s \in steps : InitialSteps(steps) = {s}
            BY <2>2 DEF HasOneInitial
        <3>2. unreachable = KeysOf(steps) \ Reachable(Keys, transitions, s.key)
            BY <2>2, <3>1, SearchExact DEF IInv, ReportInv
        <3>3. issues = {} <=> EndIssues = {} /\ unreachable = {}
            BY <2>2 DEF IInv, ReportInv
        <3>4. EndIssues = {} <=> HasTerminal(steps)
            BY DEF EndIssues
        <3>5. unreachable = {} <=>
                  \A x \in InitialSteps(steps) :
                      KeysOf(steps) \subseteq Reachable(Keys, transitions, x.key)
            BY <3>1, <3>2
        <3> QED BY <2>2, <3>3, <3>4, <3>5 DEF ValidGraph
    <2> QED BY <2>1, <2>2
<1> QED BY <1>1, SearchCorrect, PTL

----------------------------------------------------------------------------
\* The variant of the while loop: what is still to be found counts twice, for
\* a step that is found joins the frontier.
ToFind == Cardinality(Keys \ reachable)

ToFollow == Cardinality(frontier)

Variant == 2 * ToFind + ToFollow

\* A pass takes one key from the frontier, moves those it finds there from
\* the ones to be found, and so lowers the variant.
LEMMA PopLowers ==
    ASSUME IInv, IsFiniteSet(Keys), Pop
    PROVE  Variant \in Nat /\ Variant' \in Nat /\ Variant' < Variant
<1>1. PICK k \in frontier :
          LET found == {t.to : t \in TransitionsFrom(transitions, k)} \ reachable
          IN  /\ reachable' = reachable \cup found
              /\ frontier' = (frontier \ {k}) \cup found
              /\ UNCHANGED transitions
    BY DEF Pop
<1> DEFINE found == {t.to : t \in TransitionsFrom(transitions, k)} \ reachable
           rest == frontier \ {k}
<1>2. reachable' = reachable \cup found /\ frontier' = rest \cup found
    BY <1>1
<1>3. reachable \subseteq Keys /\ frontier \subseteq reachable
    BY DEF IInv, TypeOK
<1>4. found \subseteq Keys \ reachable
    BY DEF IInv, TypeOK, TransitionsFrom, TransitionOf
<1> HIDE DEF found
<1>5. /\ IsFiniteSet(frontier) /\ IsFiniteSet(rest) /\ IsFiniteSet(found)
      /\ IsFiniteSet(Keys \ reachable)
    <2>1. frontier \subseteq Keys /\ rest \subseteq Keys /\ found \subseteq Keys
        BY <1>3, <1>4
    <2> QED BY <2>1, FS_Subset
<1>6. Cardinality(rest) = Cardinality(frontier) - 1
    BY <1>1, <1>5, FS_RemoveElement
<1>7. Cardinality(rest \cup found) = Cardinality(rest) + Cardinality(found)
    <2>1. rest \cap found = {}
        BY <1>3, <1>4
    <2>2. Cardinality(rest \cap found) = 0
        BY <2>1, FS_EmptySet
    <2>3. /\ Cardinality(rest \cup found) =
                 Cardinality(rest) + Cardinality(found) - Cardinality(rest \cap found)
          /\ Cardinality(rest) \in Nat /\ Cardinality(found) \in Nat
        BY <1>5, FS_Union, FS_CardinalityType
    <2> QED BY <2>2, <2>3
<1>8. Cardinality((Keys \ reachable) \ found) =
          Cardinality(Keys \ reachable) - Cardinality(found)
    <2>1. (Keys \ reachable) \cap found = found
        BY <1>4
    <2>2. Cardinality((Keys \ reachable) \ found) =
              Cardinality(Keys \ reachable) - Cardinality((Keys \ reachable) \cap found)
        BY <1>5, FS_Difference
    <2> QED BY <2>1, <2>2
<1>9. (Keys \ reachable)' = (Keys \ reachable) \ found
    BY <1>2
<1>10. PICK f \in Nat, m \in Nat, u \in Nat :
          /\ f = Cardinality(frontier) /\ m = Cardinality(found)
          /\ u = Cardinality(Keys \ reachable)
    BY <1>5, FS_CardinalityType
<1>11. Cardinality((Keys \ reachable) \ found) \in Nat /\ Cardinality(rest) \in Nat
    <2>1. IsFiniteSet((Keys \ reachable) \ found)
        BY <1>5, FS_Difference
    <2> QED BY <2>1, <1>5, FS_CardinalityType
<1>12. /\ ToFind = u /\ ToFollow = f
       /\ ToFind' = u - m /\ ToFollow' = f - 1 + m
    BY <1>2, <1>6, <1>7, <1>8, <1>9, <1>10 DEF ToFind, ToFollow
<1>13. u - m \in Nat /\ f - 1 \in Nat
    BY <1>6, <1>8, <1>10, <1>11
<1>14. Variant = 2 * u + f /\ Variant' = 2 * (u - m) + (f - 1 + m)
    BY <1>12 DEF Variant
<1> QED BY <1>10, <1>13, <1>14

\* On a finite set of keys no call can search for ever, whatever the graph and
\* the order in which the frontier is followed: every step of the loop ends
\* the call or lowers a natural number.
THEOREM SearchIsBounded ==
    ASSUME IsFiniteSet(Keys)
    PROVE  Spec =>
               [][pc = "scan" => \/ pc' = "done"
                                 \/ /\ Variant \in Nat /\ Variant' \in Nat
                                    /\ Variant' < Variant]_vars
<1>1. IInv /\ [Next]_vars =>
          [pc = "scan" => \/ pc' = "done"
                          \/ /\ Variant \in Nat /\ Variant' \in Nat
                             /\ Variant' < Variant]_vars
    <2> SUFFICES ASSUME IInv, Next, pc = "scan"
                 PROVE  \/ pc' = "done"
                        \/ /\ Variant \in Nat /\ Variant' \in Nat
                           /\ Variant' < Variant
        OBVIOUS
    <2>1. CASE NoSteps \/ NoSearch \/ BeginSearch
        BY <2>1 DEF NoSteps, NoSearch, BeginSearch
    <2>2. CASE Pop
        BY <2>2, PopLowers
    <2>3. CASE Report
        BY <2>3 DEF Report
    <2> QED BY <2>1, <2>2, <2>3 DEF Next
<1> QED BY <1>1, SearchCorrect, PTL DEF Spec
=============================================================================
