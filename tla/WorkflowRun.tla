----------------------------- MODULE WorkflowRun -----------------------------
(***************************************************************************)
(* What a contract's run through its workflow amounts to, whatever the     *)
(* interleaving of the requests that drive it: a contract is at a step it  *)
(* has been sent to, it is sent only along transitions of its definition   *)
(* out of steps it has visited, and being completed is permanent and means *)
(* that an end step has been entered.  ContractWorkflow implements this    *)
(* specification.                                                          *)
(***************************************************************************)
EXTENDS WorkflowGraph

CONSTANTS Contracts,    \* the contracts that may be created
          Definitions   \* the definitions: [status, steps, transitions]

VARIABLE run   \* the run of each contract, or NoRun

NoRun == [started |-> FALSE]

Run(d, visited, at, completed) ==
    [started |-> TRUE, definition |-> d, visited |-> visited, at |-> at,
     completed |-> completed]

Init == run = [c \in Contracts |-> NoRun]

Start(c) ==
    /\ run[c] = NoRun
    /\ \E d \in Definitions : \E k \in KeysOf(InitialSteps(d.steps)) :
           /\ d.status = "active"
           /\ run' = [run EXCEPT ![c] = Run(d, {k}, k, FALSE)]

\* The step a contract is at follows the transition, or is left alone when the
\* transition leads back to the step it leaves.
Move(c) ==
    /\ run[c] # NoRun
    /\ \E t \in run[c].definition.transitions :
           /\ t.from \in run[c].visited
           /\ run' = [run EXCEPT ![c] =
                  Run(@.definition,
                      @.visited \cup {t.to},
                      IF t.to = t.from THEN @.at ELSE t.to,
                      @.completed \/ t.to \in TerminalKeys(@.definition.steps))]

Next == \E c \in Contracts : Start(c) \/ Move(c)

Spec == Init /\ [][Next]_run
=============================================================================
