----------------------- MODULE ContractWorkflowProofs -----------------------
(***************************************************************************)
(* For any contracts, definitions and number of concurrent requests: the   *)
(* rows have their types, the audit trail justifies every step a contract  *)
(* was sent to, the row agrees with the trail, completion is exact, and    *)
(* each contract behaves as WorkflowRun says.                              *)
(*                                                                         *)
(* The three invariants are not inductive: a commit writes what its        *)
(* request loaded earlier.  RequestInv says what stays true of a loaded    *)
(* request while others commit: its definition is the instance's, and the  *)
(* step it loaded has been entered.                                        *)
(***************************************************************************)
EXTENDS ContractWorkflow, FiniteSetTheorems, TLAPS

RequestInv ==
    \A w \in Workers :
        request[w].op = "transition" =>
            LET c == request[w].contract
            IN  /\ instance[c] # NoInstance
                /\ request[w].definition = instance[c].definition
                /\ \E i \in 1..Len(history[c]) :
                       history[c][i].to = request[w].step

\* create_contract counts the contracts: there are finitely many.
FinitelyMany == IsFiniteSet(Created)

IInv ==
    /\ TypeOK
    /\ FinitelyMany
    /\ RequestInv
    /\ AuditTrailJustified
    /\ CurrentStepAudited
    /\ CompletedIffEndEntered

----------------------------------------------------------------------------
(***************************************************************************)
(* Facts about the operators the model is built from.                      *)
(***************************************************************************)
LEMMA AppendFacts ==
    ASSUME NEW S, NEW s \in Seq(S), NEW e \in S
    PROVE  /\ Append(s, e) \in Seq(S)
           /\ Len(Append(s, e)) = Len(s) + 1
           /\ Append(s, e)[Len(s) + 1] = e
           /\ \A i \in 1..Len(s) : Append(s, e)[i] = s[i]
           /\ Append(s, e) # <<>>
OBVIOUS

LEMMA LenFacts ==
    ASSUME NEW S, NEW s \in Seq(S)
    PROVE  /\ Len(s) \in Nat
           /\ s # <<>> => Len(s) >= 1
           /\ \A i \in 1..Len(s) : s[i] \in S
OBVIOUS

\* The three kinds of request differ, and so do a row and no row.
LEMMA TagsDiffer ==
    /\ Idle \notin CreateOf \cup TransitionOfContract
    /\ NoInstance \notin InstanceOf
    /\ \A r \in CreateOf : r.op = "create" /\ r.definition \in Definitions
    /\ \A r \in TransitionOfContract :
           /\ r.op = "transition" /\ r.contract \in Contracts
           /\ r.action \in Actions /\ r.definition \in Definitions
           /\ r.step \in Keys /\ r.status \in {"active", "completed"}
    /\ Idle.op = "none" /\ NoInstance.status = "none"
    /\ \A x \in InstanceOf : x.definition \in Definitions /\ x.step \in Keys
                             /\ x.status \in {"active", "completed"}
<1>1. /\ Idle.op = "none" /\ NoInstance.status = "none"
      /\ \A r \in CreateOf : r.op = "create" /\ r.definition \in Definitions
      /\ \A r \in TransitionOfContract :
             /\ r.op = "transition" /\ r.contract \in Contracts
             /\ r.action \in Actions /\ r.definition \in Definitions
             /\ r.step \in Keys /\ r.status \in {"active", "completed"}
      /\ \A x \in InstanceOf : x.definition \in Definitions /\ x.step \in Keys
                               /\ x.status \in {"active", "completed"}
    BY DEF Idle, NoInstance, CreateOf, TransitionOfContract, InstanceOf
<1> QED BY <1>1

\* The instance that start() builds is a row.
LEMMA StartIsRow ==
    ASSUME NEW d \in Definitions, NEW k \in Keys
    PROVE  /\ Start(d, k) \in InstanceOf
           /\ Start(d, k).definition = d /\ Start(d, k).step = k
           /\ Start(d, k).status = "active"
BY DEF Start, InstanceOf

\* What the UPDATE of a transition leaves in the row.
LEMMA UpdatedIsRow ==
    ASSUME NEW row \in InstanceOf, NEW r, NEW t, t.to \in Keys
    PROVE  /\ Updated(row, r, t) \in InstanceOf
           /\ Updated(row, r, t).definition = row.definition
           /\ Updated(row, r, t).step = IF t.to = r.step THEN row.step ELSE t.to
           /\ Updated(row, r, t).status =
                  IF t.to \in TerminalKeys(row.definition.steps)
                  THEN "completed" ELSE row.status
BY DEF Updated, InstanceOf

\* The keys and the transitions of a definition are of the model.
LEMMA DefinitionFacts ==
    ASSUME NEW d \in Definitions
    PROVE  /\ KeysOf(InitialSteps(d.steps)) \subseteq Keys
           /\ KeysOf(d.steps) \subseteq Keys
           /\ \A t \in d.transitions :
                  /\ t.from \in Keys /\ t.action \in Actions /\ t.to \in Keys
                  /\ t = [from |-> t.from, action |-> t.action, to |-> t.to]
<1>1. d.steps \subseteq StepOf(Keys) /\ d.transitions \subseteq TransitionOf(Keys, Actions)
    BY DefinitionsAssumption DEF SoundDefinition
<1> QED BY <1>1 DEF KeysOf, InitialSteps, StepOf, TransitionOf

----------------------------------------------------------------------------
LEMMA InitIInv == Init => IInv
<1> SUFFICES ASSUME Init PROVE IInv
    OBVIOUS
<1>1. TypeOK
    BY DEF Init, TypeOK
<1>2. RequestInv
    BY TagsDiffer DEF Init, RequestInv
<1>3. Created = {}
    BY DEF Init, Created
<1>4. FinitelyMany
    BY <1>3, FS_EmptySet DEF FinitelyMany
<1> QED BY <1>1, <1>2, <1>3, <1>4 DEF IInv, AuditTrailJustified,
           CurrentStepAudited, CompletedIffEndEntered

\* A step that leaves the rows alone preserves what is said of them.
LEMMA RowsUnchanged ==
    ASSUME IInv, UNCHANGED <<instance, history>>
    PROVE  /\ FinitelyMany' /\ AuditTrailJustified'
           /\ CurrentStepAudited' /\ CompletedIffEndEntered'
BY DEF IInv, FinitelyMany, AuditTrailJustified, CurrentStepAudited,
       CompletedIffEndEntered, Created, Moves, EndKeys, NoInstance

LEMMA CloseIInv ==
    ASSUME IInv, NEW w \in Workers, Close(w), UNCHANGED <<instance, history>>
    PROVE  IInv'
<1>1. TypeOK'
    BY DEF IInv, TypeOK, Close
<1>2. RequestInv'
    BY TagsDiffer DEF IInv, TypeOK, RequestInv, Close
<1> QED BY <1>1, <1>2, RowsUnchanged DEF IInv

LEMMA LoadForCreateIInv ==
    ASSUME IInv, NEW w \in Workers, LoadForCreate(w)
    PROVE  IInv'
<1>0. Cardinality(Created) \in Nat
    BY FS_CardinalityType DEF IInv, FinitelyMany
<1>1. TypeOK'
    BY <1>0 DEF IInv, TypeOK, LoadForCreate, CreateOf
<1>2. RequestInv'
    BY DEF IInv, TypeOK, RequestInv, LoadForCreate
<1> QED BY <1>1, <1>2, RowsUnchanged DEF IInv, LoadForCreate

LEMMA LoadForTransitionIInv ==
    ASSUME IInv, NEW w \in Workers, LoadForTransition(w)
    PROVE  IInv'
<1>1. PICK c \in Created, a \in Actions :
          request' = [request EXCEPT ![w] =
               [op |-> "transition", contract |-> c, action |-> a,
                definition |-> instance[c].definition,
                step |-> instance[c].step, status |-> instance[c].status]]
    BY DEF LoadForTransition
<1>2. c \in Contracts /\ instance[c] \in InstanceOf
    BY DEF Created, IInv, TypeOK
<1>3. UNCHANGED <<instance, history>>
    BY DEF LoadForTransition
<1>4. TypeOK'
    BY <1>1, <1>2, <1>3, TagsDiffer DEF IInv, TypeOK, TransitionOfContract
<1>5. RequestInv'
    <2> SUFFICES ASSUME NEW x \in Workers, request'[x].op = "transition"
                 PROVE  LET d == request'[x].contract
                        IN  /\ instance[d] # NoInstance
                            /\ request'[x].definition = instance[d].definition
                            /\ \E i \in 1..Len(history[d]) :
                                   history[d][i].to = request'[x].step
        BY <1>3 DEF RequestInv
    <2>1. CASE x = w
        <3>1. \E i \in 1..Len(history[c]) : history[c][i].to = instance[c].step
            BY DEF IInv, CurrentStepAudited
        <3>2. instance[c] # NoInstance
            BY DEF Created
        <3> QED BY <2>1, <1>1, <3>1, <3>2 DEF IInv, TypeOK
    <2>2. CASE x # w
        <3>1. request'[x] = request[x]
            BY <2>2, <1>1 DEF IInv, TypeOK
        <3> QED BY <3>1 DEF IInv, RequestInv
    <2> QED BY <2>1, <2>2
<1> QED BY <1>3, <1>4, <1>5, RowsUnchanged DEF IInv

LEMMA CommitCreateIInv ==
    ASSUME IInv, NEW w \in Workers, CommitCreate(w)
    PROVE  IInv'
<1> DEFINE r == request[w]
<1>1. r \in CreateOf /\ r.definition \in Definitions
    BY TagsDiffer DEF IInv, TypeOK, CommitCreate, CreateAllowed
<1>2. PICK c \in Contracts \ Created, k \in KeysOf(InitialSteps(r.definition.steps)) :
          /\ instance' = [instance EXCEPT ![c] = Start(r.definition, k)]
          /\ history' = [history EXCEPT ![c] =
                 <<[from |-> None, action |-> None, to |-> k]>>]
    BY DEF CommitCreate
<1>3. k \in Keys
    BY <1>1, DefinitionFacts
<1> DEFINE row == Start(r.definition, k)
           first == [from |-> None, action |-> None, to |-> k]
<1>4. row \in InstanceOf /\ row.definition = r.definition /\ row.step = k
      /\ row.status = "active" /\ first \in EntryOf
    BY <1>1, <1>3, StartIsRow DEF EntryOf
<1>5. /\ instance'[c] = row /\ history'[c] = <<first>>
      /\ row # NoInstance /\ instance[c] = NoInstance
      /\ \A x \in Contracts \ {c} : instance'[x] = instance[x] /\ history'[x] = history[x]
      /\ request' = [request EXCEPT ![w] = Idle]
      /\ c \in Contracts
    BY <1>2, <1>4, TagsDiffer DEF IInv, TypeOK, Created, CommitCreate, Close
<1> HIDE DEF row, first
<1>6. TypeOK'
    <2>1. instance' \in [Contracts -> InstanceOf \cup {NoInstance}]
        BY <1>2, <1>4 DEF IInv, TypeOK, row
    <2>2. <<first>> \in Seq(EntryOf) /\ <<first>> # <<>>
        BY <1>4
    <2>3. history' \in [Contracts -> Seq(EntryOf)]
        BY <1>2, <2>2 DEF IInv, TypeOK, first
    <2>4. request' \in [Workers -> {Idle} \cup CreateOf \cup TransitionOfContract]
        BY <1>5 DEF IInv, TypeOK
    <2>5. \A x \in Contracts : history'[x] = <<>> <=> instance'[x] = NoInstance
        BY <1>5, <2>2 DEF IInv, TypeOK
    <2> QED BY <2>1, <2>3, <2>4, <2>5 DEF TypeOK
<1>7. RequestInv'
    <2> SUFFICES ASSUME NEW x \in Workers, request'[x].op = "transition"
                 PROVE  LET d == request'[x].contract
                        IN  /\ instance'[d] # NoInstance
                            /\ request'[x].definition = instance'[d].definition
                            /\ \E i \in 1..Len(history'[d]) :
                                   history'[d][i].to = request'[x].step
        BY DEF RequestInv
    <2>1. request'[x] = request[x]
        BY <1>5, TagsDiffer DEF IInv, TypeOK
    <2>2. request[x] \in TransitionOfContract
        BY <2>1, TagsDiffer DEF IInv, TypeOK
    <2>3. request[x].contract \in Contracts \ {c}
        BY <2>1, <2>2, <1>5, TagsDiffer DEF IInv, RequestInv
    <2> QED BY <2>1, <2>3, <1>5 DEF IInv, RequestInv
<1>8. ASSUME NEW x \in Created', x # c
      PROVE  /\ x \in Created
             /\ instance'[x] = instance[x] /\ history'[x] = history[x]
    BY <1>8, <1>5 DEF Created, NoInstance
<1>9. Len(<<first>>) = 1 /\ <<first>>[1] = first
    OBVIOUS
<1>10. AuditTrailJustified'
    <2> SUFFICES ASSUME NEW x \in Created'
                 PROVE  /\ history'[x][1].from = None
                        /\ history'[x][1].to \in
                               KeysOf(InitialSteps(instance'[x].definition.steps))
                        /\ \A i \in 2..Len(history'[x]) :
                               /\ history'[x][i] \in instance'[x].definition.transitions
                               /\ \E j \in 1..(i - 1) :
                                      history'[x][j].to = history'[x][i].from
        BY DEF AuditTrailJustified, Moves
    <2>1. CASE x = c
        <3>1. first.from = None /\ first.to = k
            BY DEF first
        <3>2. 2..Len(<<first>>) = {}
            BY <1>9
        <3> QED BY <2>1, <3>1, <3>2, <1>2, <1>4, <1>5, <1>9
    <2>2. CASE x # c
        BY <2>2, <1>8 DEF IInv, AuditTrailJustified, Moves
    <2> QED BY <2>1, <2>2
<1>11. CurrentStepAudited'
    <2> SUFFICES ASSUME NEW x \in Created'
                 PROVE  \E i \in 1..Len(history'[x]) :
                            /\ instance'[x].step = history'[x][i].to
                            /\ history'[x][i].from # history'[x][i].to
                            /\ \A j \in (i + 1)..Len(history'[x]) :
                                   history'[x][j].from = history'[x][j].to
        BY DEF CurrentStepAudited
    <2>1. CASE x = c
        <3>1. first.to = k /\ first.from # first.to
            BY <1>3, NoneAssumption DEF first
        <3>2. 1 \in 1..1 /\ (1 + 1)..1 = {}
            OBVIOUS
        <3> QED BY <2>1, <3>1, <3>2, <1>4, <1>5, <1>9
    <2>2. CASE x # c
        BY <2>2, <1>8 DEF IInv, CurrentStepAudited
    <2> QED BY <2>1, <2>2
<1>12. CompletedIffEndEntered'
    <2> SUFFICES ASSUME NEW x \in Created'
                 PROVE  instance'[x].status = "completed" <=>
                            \E i \in 2..Len(history'[x]) : history'[x][i].to \in
                                TerminalKeys(instance'[x].definition.steps)
        BY DEF CompletedIffEndEntered, Moves, EndKeys
    <2>1. CASE x = c
        <3>1. 2..Len(<<first>>) = {}
            BY <1>9
        <3> QED BY <2>1, <3>1, <1>4, <1>5
    <2>2. CASE x # c
        BY <2>2, <1>8 DEF IInv, CompletedIffEndEntered, Moves, EndKeys
    <2> QED BY <2>1, <2>2
<1>13. FinitelyMany'
    <2>1. Created' = Created \cup {c}
        BY <1>5, <1>2 DEF Created, NoInstance
    <2> QED BY <2>1, FS_AddElement DEF IInv, FinitelyMany
<1> QED BY <1>6, <1>7, <1>10, <1>11, <1>12, <1>13 DEF IInv

LEMMA CommitTransitionIInv ==
    ASSUME IInv, NEW w \in Workers, CommitTransition(w)
    PROVE  IInv'
<1> DEFINE r == request[w]
           c == r.contract
           row == instance[c]
           h == history[c]
<1>1. r \in TransitionOfContract
    BY TagsDiffer DEF IInv, TypeOK, CommitTransition
<1>2. PICK t \in r.definition.transitions :
          /\ TransitionAllowed(r, t)
          /\ instance' = [instance EXCEPT ![c] = Updated(@, r, t)]
          /\ history' = [history EXCEPT ![c] =
                 Append(@, [from |-> r.step, action |-> r.action, to |-> t.to])]
    BY DEF CommitTransition
<1>3. /\ c \in Contracts /\ row # NoInstance /\ row \in InstanceOf
      /\ r.definition = row.definition
      /\ r.definition \in Definitions
      /\ h \in Seq(EntryOf) /\ h # <<>>
      /\ \E i \in 1..Len(h) : h[i].to = r.step
    BY <1>1, TagsDiffer DEF IInv, TypeOK, RequestInv
<1>4. /\ t.from = r.step /\ t.action = r.action /\ t.to \in Keys
      /\ t = [from |-> r.step, action |-> r.action, to |-> t.to]
      /\ t \in row.definition.transitions
      /\ t \in EntryOf
    <2>1. t.from = r.step /\ t.action = r.action
        BY <1>2 DEF TransitionAllowed
    <2>2. /\ t.from \in Keys /\ t.action \in Actions /\ t.to \in Keys
          /\ t = [from |-> t.from, action |-> t.action, to |-> t.to]
        BY <1>2, <1>3, DefinitionFacts
    <2>3. [from |-> t.from, action |-> t.action, to |-> t.to] \in EntryOf
        BY <2>2 DEF EntryOf
    <2> QED BY <1>2, <1>3, <2>1, <2>2, <2>3
<1> DEFINE new == Updated(row, r, t)
           h2 == Append(h, t)
<1>5. /\ new \in InstanceOf /\ new # NoInstance
      /\ new.definition = row.definition
      /\ new.step = IF t.to = t.from THEN row.step ELSE t.to
      /\ new.status = IF t.to \in TerminalKeys(row.definition.steps)
                      THEN "completed" ELSE row.status
    BY <1>3, <1>4, UpdatedIsRow, TagsDiffer
<1>6. /\ h2 \in Seq(EntryOf) /\ h2 # <<>>
      /\ Len(h) \in Nat /\ Len(h) >= 1 /\ Len(h2) = Len(h) + 1
      /\ h2[Len(h) + 1] = t
      /\ \A i \in 1..Len(h) : h2[i] = h[i]
    BY <1>3, <1>4, AppendFacts, LenFacts
<1>7. /\ instance'[c] = new /\ history'[c] = h2
      /\ \A x \in Contracts \ {c} : instance'[x] = instance[x] /\ history'[x] = history[x]
      /\ request' = [request EXCEPT ![w] = Idle]
    BY <1>2, <1>3, <1>4 DEF IInv, TypeOK, CommitTransition, Close
<1>8. TypeOK'
    <2>1. instance' \in [Contracts -> InstanceOf \cup {NoInstance}]
        BY <1>2, <1>5 DEF IInv, TypeOK
    <2>2. history' \in [Contracts -> Seq(EntryOf)]
        BY <1>2, <1>4, <1>6 DEF IInv, TypeOK
    <2>3. request' \in [Workers -> {Idle} \cup CreateOf \cup TransitionOfContract]
        BY <1>7 DEF IInv, TypeOK
    <2>4. \A x \in Contracts : history'[x] = <<>> <=> instance'[x] = NoInstance
        BY <1>5, <1>6, <1>7 DEF IInv, TypeOK
    <2> QED BY <2>1, <2>2, <2>3, <2>4 DEF TypeOK
<1> HIDE DEF new, h2
<1>9. Created' = Created
    BY <1>3, <1>5, <1>7 DEF Created, NoInstance
<1>10. FinitelyMany'
    BY <1>9 DEF IInv, FinitelyMany
<1>11. RequestInv'
    <2> SUFFICES ASSUME NEW x \in Workers, request'[x].op = "transition"
                 PROVE  LET d == request'[x].contract
                        IN  /\ instance'[d] # NoInstance
                            /\ request'[x].definition = instance'[d].definition
                            /\ \E i \in 1..Len(history'[d]) :
                                   history'[d][i].to = request'[x].step
        BY DEF RequestInv
    <2>1. request'[x] = request[x] /\ request[x] \in TransitionOfContract
        BY <1>7, TagsDiffer DEF IInv, TypeOK
    <2> DEFINE d == request[x].contract
    <2>2. /\ d \in Contracts /\ instance[d] # NoInstance
          /\ request[x].definition = instance[d].definition
          /\ \E i \in 1..Len(history[d]) : history[d][i].to = request[x].step
        BY <2>1, TagsDiffer DEF IInv, RequestInv
    <2>3. CASE d = c
        BY <2>1, <2>2, <2>3, <1>5, <1>6, <1>7
    <2>4. CASE d # c
        BY <2>1, <2>2, <2>4, <1>7
    <2> QED BY <2>3, <2>4
<1>12. AuditTrailJustified'
    <2> SUFFICES ASSUME NEW x \in Created
                 PROVE  /\ history'[x][1].from = None
                        /\ history'[x][1].to \in
                               KeysOf(InitialSteps(instance'[x].definition.steps))
                        /\ \A i \in 2..Len(history'[x]) :
                               /\ history'[x][i] \in instance'[x].definition.transitions
                               /\ \E j \in 1..(i - 1) :
                                      history'[x][j].to = history'[x][i].from
        BY <1>9 DEF AuditTrailJustified, Moves
    <2>0. x \in Contracts
        BY DEF Created
    <2>1. CASE x = c
        <3>1. h2[1] = h[1]
            BY <1>6
        <3>2. ASSUME NEW i \in 2..Len(h2)
              PROVE  /\ h2[i] \in row.definition.transitions
                     /\ \E j \in 1..(i - 1) : h2[j].to = h2[i].from
            <4>1. CASE i = Len(h) + 1
                BY <4>1, <1>3, <1>4, <1>6
            <4>2. CASE i # Len(h) + 1
                <5>1. i \in 2..Len(h) /\ 1..(i - 1) \subseteq 1..Len(h)
                    BY <4>2, <1>6
                <5>2. /\ h[i] \in row.definition.transitions
                      /\ \E j \in 1..(i - 1) : h[j].to = h[i].from
                    BY <2>1, <5>1 DEF IInv, AuditTrailJustified, Moves
                <5>3. h2[i] = h[i] /\ \A j \in 1..(i - 1) : h2[j] = h[j]
                    BY <5>1, <1>6
                <5> QED BY <5>2, <5>3
            <4> QED BY <4>1, <4>2
        <3> QED BY <2>1, <3>1, <3>2, <1>5, <1>7 DEF IInv, AuditTrailJustified
    <2>2. CASE x # c
        BY <2>0, <2>2, <1>7 DEF IInv, AuditTrailJustified, Moves
    <2> QED BY <2>1, <2>2
<1>13. CurrentStepAudited'
    <2> SUFFICES ASSUME NEW x \in Created
                 PROVE  \E i \in 1..Len(history'[x]) :
                            /\ instance'[x].step = history'[x][i].to
                            /\ history'[x][i].from # history'[x][i].to
                            /\ \A j \in (i + 1)..Len(history'[x]) :
                                   history'[x][j].from = history'[x][j].to
        BY <1>9 DEF CurrentStepAudited
    <2>0. x \in Contracts
        BY DEF Created
    <2>1. CASE x = c /\ t.to # t.from
        <3>1. /\ new.step = h2[Len(h2)].to /\ Len(h2) \in 1..Len(h2)
              /\ h2[Len(h2)].from # h2[Len(h2)].to
              /\ (Len(h2) + 1)..Len(h2) = {}
            BY <2>1, <1>5, <1>6
        <3> QED BY <2>1, <3>1, <1>7
    <2>2. CASE x = c /\ t.to = t.from
        <3>1. PICK i \in 1..Len(h) :
                  /\ row.step = h[i].to
                  /\ h[i].from # h[i].to
                  /\ \A j \in (i + 1)..Len(h) : h[j].from = h[j].to
            BY <2>2 DEF IInv, CurrentStepAudited
        <3>2. /\ i \in 1..Len(h2) /\ new.step = h2[i].to
              /\ h2[i].from # h2[i].to
            BY <3>1, <2>2, <1>5, <1>6
        <3>3. ASSUME NEW j \in (i + 1)..Len(h2)
              PROVE  h2[j].from = h2[j].to
            <4>1. CASE j = Len(h) + 1
                BY <4>1, <2>2, <1>6
            <4>2. CASE j # Len(h) + 1
                <5>1. j \in (i + 1)..Len(h) /\ j \in 1..Len(h)
                    BY <4>2, <1>6
                <5> QED BY <5>1, <3>1, <1>6
            <4> QED BY <4>1, <4>2
        <3> QED BY <2>2, <3>2, <3>3, <1>7
    <2>3. CASE x # c
        BY <2>0, <2>3, <1>7 DEF IInv, CurrentStepAudited
    <2> QED BY <2>1, <2>2, <2>3
<1>14. CompletedIffEndEntered'
    <2> SUFFICES ASSUME NEW x \in Created
                 PROVE  instance'[x].status = "completed" <=>
                            \E i \in 2..Len(history'[x]) : history'[x][i].to \in
                                TerminalKeys(instance'[x].definition.steps)
        BY <1>9 DEF CompletedIffEndEntered, Moves, EndKeys
    <2>0. x \in Contracts
        BY DEF Created
    <2>1. CASE x = c
        <3> DEFINE Ends == TerminalKeys(row.definition.steps)
        <3>1. row.status = "completed" <=> \E i \in 2..Len(h) : h[i].to \in Ends
            BY <2>1 DEF IInv, CompletedIffEndEntered, Moves, EndKeys
        <3>2. (\E i \in 2..Len(h2) : h2[i].to \in Ends) <=>
                  t.to \in Ends \/ \E i \in 2..Len(h) : h[i].to \in Ends
            <4> HIDE DEF Ends
            <4>1. 2..Len(h2) = (2..Len(h)) \cup {Len(h) + 1}
                BY <1>6
            <4>2. \A i \in 2..Len(h) : h2[i] = h[i]
                BY <1>6
            <4> QED BY <4>1, <4>2, <1>6
        <3>3. new.status = "completed" <=> t.to \in Ends \/ row.status = "completed"
            BY <1>5
        <3> QED BY <2>1, <3>1, <3>2, <3>3, <1>5, <1>7
    <2>2. CASE x # c
        BY <2>0, <2>2, <1>7 DEF IInv, CompletedIffEndEntered, Moves, EndKeys
    <2> QED BY <2>1, <2>2
<1> QED BY <1>8, <1>10, <1>11, <1>12, <1>13, <1>14 DEF IInv

----------------------------------------------------------------------------
\* The inductive invariant holds in every reachable state.
THEOREM RunsCorrect == Spec => []IInv
<1>1. IInv /\ [Next]_vars => IInv'
    <2> SUFFICES ASSUME IInv, [Next]_vars PROVE IInv'
        OBVIOUS
    <2>1. CASE UNCHANGED vars
        <3>1. TypeOK' /\ RequestInv'
            BY <2>1 DEF IInv, TypeOK, RequestInv, vars
        <3> QED BY <2>1, <3>1, RowsUnchanged DEF IInv, vars
    <2>2. ASSUME NEW w \in Workers, LoadForCreate(w) PROVE IInv'
        BY <2>2, LoadForCreateIInv
    <2>3. ASSUME NEW w \in Workers, LoadForTransition(w) PROVE IInv'
        BY <2>3, LoadForTransitionIInv
    <2>4. ASSUME NEW w \in Workers, CommitCreate(w) PROVE IInv'
        BY <2>4, CommitCreateIInv
    <2>5. ASSUME NEW w \in Workers, CommitTransition(w) PROVE IInv'
        BY <2>5, CommitTransitionIInv
    <2>6. ASSUME NEW w \in Workers, Refuse(w) PROVE IInv'
        BY <2>6, CloseIInv DEF Refuse
    <2>7. ASSUME NEW w \in Workers, Abandon(w) PROVE IInv'
        BY <2>7, CloseIInv DEF Abandon
    <2> QED BY <2>1, <2>2, <2>3, <2>4, <2>5, <2>6, <2>7 DEF Next
<1> QED BY <1>1, InitIInv, PTL DEF Spec

\* The rows, the histories and the requests in progress have their types, and
\* a contract has a history exactly when it has an instance.
THEOREM TypesCorrect == Spec => []TypeOK
BY RunsCorrect, PTL DEF IInv

\* However many requests interleave, every history entry is a transition of
\* the definition and leaves a step that an earlier entry entered.
THEOREM AuditTrailIsJustified == Spec => []AuditTrailJustified
BY RunsCorrect, PTL DEF IInv

\* The instance row never disagrees with the audit trail about the current step.
THEOREM CurrentStepIsAudited == Spec => []CurrentStepAudited
BY RunsCorrect, PTL DEF IInv

\* An instance is completed exactly when its trail enters an end step.
THEOREM CompletionIsExact == Spec => []CompletedIffEndEntered
BY RunsCorrect, PTL DEF IInv

----------------------------------------------------------------------------
(***************************************************************************)
(* Each contract behaves as WorkflowRun says.                              *)
(***************************************************************************)
RunMap == [c \in Contracts |-> RunOf(c)]

LEMMA InitImplements == Init => Abstract!Init
BY DEF Init, Abstract!Init, RunOf, NoInstance, Abstract!NoRun

\* The run of a contract depends on its own rows only.
LEMMA RunOfSame ==
    ASSUME NEW x, instance'[x] = instance[x], history'[x] = history[x]
    PROVE  RunOf(x)' = RunOf(x)
BY DEF RunOf, NoInstance

LEMMA RunOfChanged ==
    ASSUME NEW x, NEW row, NEW h, row # NoInstance,
           instance'[x] = row, history'[x] = h
    PROVE  RunOf(x)' = Abstract!Run(row.definition, Visited(h),
                                    row.step, row.status = "completed")
BY DEF RunOf, NoInstance, Abstract!Run

LEMMA CreateImplements ==
    ASSUME IInv, NEW w \in Workers, CommitCreate(w)
    PROVE  Abstract!Next
<1> DEFINE r == request[w]
<1>1. r \in CreateOf /\ r.definition \in Definitions /\ r.definition.status = "active"
    BY TagsDiffer DEF IInv, TypeOK, CommitCreate, CreateAllowed
<1>2. PICK c \in Contracts \ Created, k \in KeysOf(InitialSteps(r.definition.steps)) :
          /\ instance' = [instance EXCEPT ![c] = Start(r.definition, k)]
          /\ history' = [history EXCEPT ![c] =
                 <<[from |-> None, action |-> None, to |-> k]>>]
    BY DEF CommitCreate
<1>3. k \in Keys
    BY <1>1, DefinitionFacts
<1> DEFINE row == Start(r.definition, k)
           h == <<[from |-> None, action |-> None, to |-> k]>>
<1>4. /\ row # NoInstance /\ row.definition = r.definition /\ row.step = k
      /\ row.status = "active"
    BY <1>1, <1>3, StartIsRow, TagsDiffer
<1>5. /\ instance'[c] = row /\ history'[c] = h /\ instance[c] = NoInstance
      /\ \A x \in Contracts \ {c} : instance'[x] = instance[x] /\ history'[x] = history[x]
    BY <1>2 DEF IInv, TypeOK, Created
<1>6. Visited(h) = {k}
    <2>1. Len(h) = 1 /\ h[1].to = k
        OBVIOUS
    <2>2. 1..Len(h) = {1}
        BY <2>1
    <2> QED BY <2>1, <2>2 DEF Visited
<1> HIDE DEF row, h
<1>7. RunOf(c) = Abstract!NoRun
    BY <1>5 DEF RunOf, Abstract!NoRun
<1>8. RunOf(c)' = Abstract!Run(r.definition, {k}, k, FALSE)
    <2>1. RunOf(c)' = Abstract!Run(row.definition, Visited(h),
                                   row.step, row.status = "completed")
        BY <1>4, <1>5, RunOfChanged
    <2> QED BY <2>1, <1>4, <1>6
<1>9. \A x \in Contracts \ {c} : RunOf(x)' = RunOf(x)
    BY <1>5, RunOfSame
<1>10. RunMap' = [RunMap EXCEPT ![c] = Abstract!Run(r.definition, {k}, k, FALSE)]
    BY <1>8, <1>9 DEF RunMap
<1>11. Abstract!Start(c)
    BY <1>1, <1>2, <1>7, <1>10 DEF Abstract!Start, RunMap,
       Abstract!KeysOf, KeysOf, Abstract!InitialSteps, InitialSteps
<1> QED BY <1>11 DEF Abstract!Next

LEMMA TransitionImplements ==
    ASSUME IInv, NEW w \in Workers, CommitTransition(w),
           NEW c, c = request[w].contract
    PROVE  Abstract!Next
<1> DEFINE r == request[w]
           row == instance[c]
           h == history[c]
<1>1. r \in TransitionOfContract
    BY TagsDiffer DEF IInv, TypeOK, CommitTransition
<1>2. PICK t \in r.definition.transitions :
          /\ TransitionAllowed(r, t)
          /\ instance' = [instance EXCEPT ![c] = Updated(@, r, t)]
          /\ history' = [history EXCEPT ![c] =
                 Append(@, [from |-> r.step, action |-> r.action, to |-> t.to])]
    BY DEF CommitTransition
<1>3. /\ c \in Contracts /\ row # NoInstance /\ row \in InstanceOf
      /\ r.definition = row.definition /\ r.definition \in Definitions
      /\ h \in Seq(EntryOf)
      /\ \E i \in 1..Len(h) : h[i].to = r.step
    BY <1>1, TagsDiffer DEF IInv, TypeOK, RequestInv
<1> DEFINE e == [from |-> r.step, action |-> r.action, to |-> t.to]
           new == Updated(row, r, t)
           h2 == Append(h, e)
           Ends == TerminalKeys(row.definition.steps)
<1>4. t.from = r.step /\ t.to \in Keys /\ r.step \in Keys /\ r.action \in Actions
    BY <1>1, <1>2, <1>3, DefinitionFacts, TagsDiffer DEF TransitionAllowed
<1>5. /\ new # NoInstance /\ new.definition = row.definition
      /\ new.step = IF t.to = t.from THEN row.step ELSE t.to
      /\ new.status = IF t.to \in Ends THEN "completed" ELSE row.status
    BY <1>3, <1>4, UpdatedIsRow, TagsDiffer
<1>6. Visited(h2) = Visited(h) \cup {t.to}
    <2>1. e \in EntryOf
        BY <1>4 DEF EntryOf
    <2>2. /\ Len(h) \in Nat /\ Len(h2) = Len(h) + 1 /\ h2[Len(h) + 1].to = t.to
          /\ \A i \in 1..Len(h) : h2[i] = h[i]
        BY <1>3, <2>1, AppendFacts, LenFacts
    <2> HIDE DEF h2
    <2>3. PICK n \in Nat : n = Len(h)
        BY <2>2
    <2>4. \A y : y \in Visited(h2) <=> y \in Visited(h) \/ y = t.to
        <3>1. \A i : i \in 1..n + 1 <=> i \in 1..n \/ i = n + 1
            BY <2>3
        <3>2. \A y : y \in Visited(h2) <=> \E i \in 1..n + 1 : y = h2[i].to
            BY <2>2, <2>3 DEF Visited
        <3>3. \A y : y \in Visited(h) <=> \E i \in 1..n : y = h[i].to
            BY <2>3 DEF Visited
        <3>4. h2[n + 1].to = t.to /\ \A i \in 1..n : h2[i] = h[i]
            BY <2>2, <2>3
        <3>5. (1..n + 1) = (1..n) \cup {n + 1}
            BY <3>1
        <3> HIDE DEF h
        <3> QED BY <3>2, <3>3, <3>4, <3>5
    <2> QED BY <2>4
<1>7. /\ instance'[c] = new /\ history'[c] = h2
      /\ \A x \in Contracts \ {c} : instance'[x] = instance[x] /\ history'[x] = history[x]
    BY <1>2, <1>3 DEF IInv, TypeOK
<1> HIDE DEF new, h2, Ends
<1>8. RunOf(c) = Abstract!Run(row.definition, Visited(h), row.step,
                              row.status = "completed")
    BY <1>3 DEF RunOf, Abstract!Run
<1>9. RunOf(c)' = Abstract!Run(row.definition, Visited(h) \cup {t.to}, new.step,
                              new.status = "completed")
    <2>1. RunOf(c)' = Abstract!Run(new.definition, Visited(h2),
                                   new.step, new.status = "completed")
        BY <1>5, <1>7, RunOfChanged
    <2> QED BY <2>1, <1>5, <1>6
<1>10. \A x \in Contracts \ {c} : RunOf(x)' = RunOf(x)
    BY <1>7, RunOfSame
<1>11. (new.status = "completed") = ((row.status = "completed") \/ t.to \in Ends)
    BY <1>5
<1>12. RunMap[c] = RunOf(c) /\ RunMap[c] # Abstract!NoRun
    BY <1>3, <1>8 DEF RunMap, Abstract!Run, Abstract!NoRun
<1>13. /\ RunMap[c].definition = row.definition /\ RunMap[c].visited = Visited(h)
       /\ RunMap[c].at = row.step
       /\ RunMap[c].completed = (row.status = "completed")
    BY <1>8, <1>12 DEF Abstract!Run
<1>14. RunMap' = [RunMap EXCEPT ![c] =
           Abstract!Run(RunMap[c].definition, RunMap[c].visited \cup {t.to},
                        IF t.to = t.from THEN RunMap[c].at ELSE t.to,
                        RunMap[c].completed \/
                            t.to \in TerminalKeys(RunMap[c].definition.steps))]
    <2>1. RunOf(c)' =
              Abstract!Run(RunMap[c].definition, RunMap[c].visited \cup {t.to},
                           IF t.to = t.from THEN RunMap[c].at ELSE t.to,
                           RunMap[c].completed \/
                               t.to \in TerminalKeys(RunMap[c].definition.steps))
        BY <1>5, <1>9, <1>11, <1>13 DEF Ends
    <2> QED BY <2>1, <1>10 DEF RunMap
<1>15. t \in RunMap[c].definition.transitions /\ t.from \in RunMap[c].visited
    <2>1. t.from \in Visited(h)
        BY <1>3, <1>4 DEF Visited
    <2> QED BY <2>1, <1>3, <1>13
<1>16. Abstract!Move(c)
    BY <1>12, <1>14, <1>15 DEF Abstract!Move, RunMap, Abstract!TerminalKeys,
       TerminalKeys
<1> QED BY <1>3, <1>16 DEF Abstract!Next

\* However requests interleave, every contract's run is one of WorkflowRun's:
\* it moves along transitions out of visited steps and completion is permanent.
THEOREM ContractsImplementRun == Spec => ImplementsRun
<1>1. IInv /\ [Next]_vars => [Abstract!Next]_RunMap
    <2> SUFFICES ASSUME IInv, [Next]_vars PROVE Abstract!Next \/ RunMap' = RunMap
        OBVIOUS
    <2>1. CASE UNCHANGED <<instance, history>>
        BY <2>1 DEF RunMap, RunOf, NoInstance
    <2>2. ASSUME NEW w \in Workers, CommitCreate(w) PROVE Abstract!Next
        BY <2>2, CreateImplements
    <2>3. ASSUME NEW w \in Workers, CommitTransition(w) PROVE Abstract!Next
        BY <2>3, TransitionImplements
    <2> QED BY <2>1, <2>2, <2>3 DEF Next, vars, LoadForCreate, LoadForTransition,
               Refuse, Abandon
<1> QED BY <1>1, InitImplements, RunsCorrect, PTL
        DEF Spec, ImplementsRun, Abstract!Spec, RunMap

----------------------------------------------------------------------------
(***************************************************************************)
(* How far the races can go.  A limit that is overrun, or a completed      *)
(* contract that is moved again, is paid for by requests that were under   *)
(* way: each commit past the line uses one up, and no request that loads   *)
(* after the line is crossed joins them.                                   *)
(***************************************************************************)
CreateReady ==
    {w \in Workers : request[w].op = "create" /\ request[w].count < MaxContracts}

PlanInv ==
    Cardinality(Created) >= MaxContracts =>
        Cardinality(Created) + Cardinality(CreateReady)
            < MaxContracts + Cardinality(Workers)

\* The cardinalities that the argument counts with.
LEMMA ReadyFacts ==
    ASSUME NEW R \in SUBSET Workers
    PROVE  /\ IsFiniteSet(R) /\ Cardinality(R) \in Nat
           /\ Cardinality(Workers) \in Nat /\ Cardinality(Workers) >= 1
           /\ \A w \in R : Cardinality(R \ {w}) = Cardinality(R) - 1
           /\ \A Q \in SUBSET R : Cardinality(Q) <= Cardinality(R)
           /\ \A w \in Workers : w \notin R => Cardinality(R) < Cardinality(Workers)
<1>1. IsFiniteSet(R) /\ Cardinality(R) \in Nat /\ Cardinality(Workers) \in Nat
    BY WorkersAssumption, FS_Subset, FS_CardinalityType
<1>2. Cardinality(Workers) >= 1
    BY <1>1, WorkersAssumption, FS_EmptySet
<1>3. \A w \in R : Cardinality(R \ {w}) = Cardinality(R) - 1
    BY <1>1, FS_RemoveElement
<1>4. \A Q \in SUBSET R : Cardinality(Q) <= Cardinality(R)
    BY <1>1, FS_Subset
<1>5. \A w \in Workers : w \notin R => Cardinality(R) < Cardinality(Workers)
    <2> SUFFICES ASSUME NEW w \in Workers, w \notin R
                 PROVE  Cardinality(R) < Cardinality(Workers)
        OBVIOUS
    <2>1. Cardinality(R) <= Cardinality(Workers) /\ R # Workers
        BY WorkersAssumption, FS_Subset
    <2>2. Cardinality(R) # Cardinality(Workers)
        BY <2>1, WorkersAssumption, FS_Subset
    <2> QED BY <1>1, <2>1, <2>2
<1> QED BY <1>1, <1>2, <1>3, <1>4, <1>5

\* create_contract adds one contract.
LEMMA CreateAddsOne ==
    ASSUME IInv, NEW w \in Workers, CommitCreate(w)
    PROVE  Cardinality(Created') = Cardinality(Created) + 1
<1>1. PICK c \in Contracts \ Created, k \in KeysOf(InitialSteps(request[w].definition.steps)) :
          instance' = [instance EXCEPT ![c] = Start(request[w].definition, k)]
    BY DEF CommitCreate
<1>2. Start(request[w].definition, k) # NoInstance
    <2>1. request[w].definition \in Definitions
        BY TagsDiffer DEF IInv, TypeOK, CommitCreate, CreateAllowed
    <2>2. k \in Keys
        BY <2>1, DefinitionFacts
    <2> QED BY <2>1, <2>2, StartIsRow, TagsDiffer
<1>3. Created' = Created \cup {c}
    BY <1>1, <1>2 DEF IInv, TypeOK, Created, NoInstance
<1> QED BY <1>3, FS_AddElement DEF IInv, FinitelyMany

\* A transition creates no contract.
LEMMA TransitionAddsNone ==
    ASSUME IInv, NEW w \in Workers, CommitTransition(w)
    PROVE  Created' = Created
<1> DEFINE r == request[w]
<1>1. PICK t \in r.definition.transitions :
          instance' = [instance EXCEPT ![r.contract] = Updated(@, r, t)]
    BY DEF CommitTransition
<1>2. r \in TransitionOfContract
    BY TagsDiffer DEF IInv, TypeOK, CommitTransition
<1>3. /\ r.contract \in Contracts /\ instance[r.contract] \in InstanceOf
      /\ t.to \in Keys
    BY <1>2, TagsDiffer, DefinitionFacts DEF IInv, TypeOK, RequestInv
<1>4. Updated(instance[r.contract], r, t) # NoInstance
    BY <1>3, UpdatedIsRow, TagsDiffer
<1> QED BY <1>1, <1>3, <1>4, TagsDiffer DEF IInv, TypeOK, Created, NoInstance

\* The plan's limit is overrun by fewer contracts than there are requests at
\* a time, whatever their number.
THEOREM PlanIsNearlyKept == Spec => []PlanNearlyKept
<1>1. Init => PlanInv
    <2> SUFFICES ASSUME Init PROVE PlanInv
        OBVIOUS
    <2>1. Created = {} /\ CreateReady = {}
        BY TagsDiffer DEF Init, Created, CreateReady
    <2> QED BY <2>1, FS_EmptySet, ReadyFacts, BoundsAssumption DEF PlanInv
<1>2. IInv /\ PlanInv /\ [Next]_vars => PlanInv'
    <2> SUFFICES ASSUME IInv, PlanInv, [Next]_vars PROVE PlanInv'
        OBVIOUS
    <2>0. /\ Cardinality(Created) \in Nat /\ MaxContracts \in Nat
          /\ CreateReady \in SUBSET Workers /\ CreateReady' \in SUBSET Workers
        BY FS_CardinalityType, BoundsAssumption DEF IInv, FinitelyMany, CreateReady
    <2>1. ASSUME Created' = Created,
                 Cardinality(Created) >= MaxContracts => CreateReady' \subseteq CreateReady
          PROVE  PlanInv'
        <3> SUFFICES ASSUME Cardinality(Created) >= MaxContracts
                     PROVE  Cardinality(Created) + Cardinality(CreateReady')
                                < MaxContracts + Cardinality(Workers)
            BY <2>1 DEF PlanInv
        <3>1. Cardinality(CreateReady') <= Cardinality(CreateReady)
            BY <2>0, <2>1, ReadyFacts
        <3> QED BY <3>1, <2>0, ReadyFacts DEF PlanInv
    <2>2. CASE UNCHANGED vars
        BY <2>1, <2>2 DEF vars, Created, CreateReady, NoInstance
    <2>3. ASSUME NEW w \in Workers, LoadForCreate(w) PROVE PlanInv'
        <3>1. Created' = Created
            BY <2>3 DEF LoadForCreate, Created, NoInstance
        <3>2. Cardinality(Created) >= MaxContracts => CreateReady' \subseteq CreateReady
            BY <2>0, <2>3 DEF IInv, TypeOK, LoadForCreate, CreateReady
        <3> QED BY <2>1, <3>1, <3>2
    <2>4. ASSUME NEW w \in Workers, LoadForTransition(w) PROVE PlanInv'
        <3>1. Created' = Created
            BY <2>4 DEF LoadForTransition, Created, NoInstance
        <3>2. CreateReady' \subseteq CreateReady
            BY <2>4 DEF IInv, TypeOK, LoadForTransition, CreateReady
        <3> QED BY <2>1, <3>1, <3>2
    <2>5. ASSUME NEW w \in Workers, Close(w)
          PROVE  CreateReady' = CreateReady \ {w}
        BY <2>5, TagsDiffer DEF IInv, TypeOK, Close, CreateReady
    <2>6. ASSUME NEW w \in Workers, CommitCreate(w) PROVE PlanInv'
        <3>1. w \in CreateReady /\ CreateReady' = CreateReady \ {w}
            BY <2>5, <2>6 DEF CommitCreate, CreateAllowed, CreateReady
        <3>2. Cardinality(Created') = Cardinality(Created) + 1
            BY <2>6, CreateAddsOne
        <3>3. Cardinality(CreateReady') = Cardinality(CreateReady) - 1
            BY <2>0, <3>1, ReadyFacts
        <3>4. Cardinality(CreateReady') < Cardinality(Workers)
            BY <2>0, <3>1, ReadyFacts
        <3>5. Cardinality(CreateReady) \in Nat /\ Cardinality(Workers) \in Nat
            BY <2>0, ReadyFacts
        <3> QED BY <2>0, <3>2, <3>3, <3>4, <3>5 DEF PlanInv
    <2>7. ASSUME NEW w \in Workers, CommitTransition(w) PROVE PlanInv'
        <3>1. CreateReady' = CreateReady \ {w}
            BY <2>5, <2>7 DEF CommitTransition
        <3> QED BY <2>1, <2>7, <3>1, TransitionAddsNone
    <2>8. ASSUME NEW w \in Workers, Refuse(w) \/ Abandon(w) PROVE PlanInv'
        <3>1. CreateReady' = CreateReady \ {w} /\ Created' = Created
            BY <2>5, <2>8 DEF Refuse, Abandon, Created, NoInstance
        <3> QED BY <2>1, <3>1
    <2> QED BY <2>2, <2>3, <2>4, <2>6, <2>7, <2>8 DEF Next
<1>3. IInv /\ PlanInv => PlanNearlyKept
    <2> SUFFICES ASSUME IInv, PlanInv PROVE PlanNearlyKept
        OBVIOUS
    <2>1. /\ Cardinality(Created) \in Nat /\ MaxContracts \in Nat
          /\ CreateReady \in SUBSET Workers
        BY FS_CardinalityType, BoundsAssumption DEF IInv, FinitelyMany, CreateReady
    <2> QED BY <2>1, ReadyFacts DEF PlanInv, PlanNearlyKept
<1> QED BY <1>1, <1>2, <1>3, RunsCorrect, PTL DEF Spec

\* The requests under way that can still move contract c.
MoveReady(c) ==
    {w \in Workers : /\ request[w].op = "transition" /\ request[w].contract = c
                     /\ request[w].status = "active"}

EndInv ==
    \A c \in Created : \A i \in Moves(c) :
        history[c][i].to \in EndKeys(c)
            => Len(history[c]) - i + Cardinality(MoveReady(c)) < Cardinality(Workers)

\* A step that leaves the rows alone and lets no request join those that can
\* move a contract past its end.
LEMMA EndInvKept ==
    ASSUME IInv, EndInv, UNCHANGED <<instance, history>>,
           \A c \in Created : instance[c].status = "completed"
                                 => MoveReady(c)' \subseteq MoveReady(c)
    PROVE  EndInv'
<1> SUFFICES ASSUME NEW c \in Created, NEW i \in Moves(c),
                    history[c][i].to \in EndKeys(c)
             PROVE  Len(history[c]) - i + Cardinality(MoveReady(c)')
                        < Cardinality(Workers)
    <2>1. Created' = Created /\ UNCHANGED <<instance, history>>
        BY DEF Created, NoInstance
    <2> QED BY <2>1 DEF EndInv, Moves, EndKeys
<1>1. instance[c].status = "completed"
    BY DEF IInv, CompletedIffEndEntered
<1>2. MoveReady(c) \in SUBSET Workers /\ MoveReady(c)' \in SUBSET MoveReady(c)
    BY <1>1 DEF MoveReady
<1>3. /\ Cardinality(MoveReady(c)') <= Cardinality(MoveReady(c))
      /\ Cardinality(MoveReady(c)') \in Nat /\ Cardinality(MoveReady(c)) \in Nat
      /\ Cardinality(Workers) \in Nat
    BY <1>2, ReadyFacts
<1>4. Len(history[c]) \in Nat /\ i \in Nat
    BY LenFacts DEF IInv, TypeOK, Moves, Created
<1>5. Len(history[c]) - i + Cardinality(MoveReady(c)) < Cardinality(Workers)
    BY DEF EndInv
<1> QED BY <1>3, <1>4, <1>5

\* A request that ends no longer counts.
LEMMA CloseNotReady ==
    ASSUME IInv, NEW w \in Workers, Close(w), NEW c
    PROVE  MoveReady(c)' = MoveReady(c) \ {w}
BY TagsDiffer DEF IInv, TypeOK, Close, MoveReady

LEMMA CreateEndInv ==
    ASSUME IInv, EndInv, NEW w \in Workers, CommitCreate(w)
    PROVE  EndInv'
<1>1. PICK c \in Contracts \ Created, k \in KeysOf(InitialSteps(request[w].definition.steps)) :
          /\ instance' = [instance EXCEPT ![c] = Start(request[w].definition, k)]
          /\ history' = [history EXCEPT ![c] =
                 <<[from |-> None, action |-> None, to |-> k]>>]
    BY DEF CommitCreate
<1>2. /\ history'[c] = <<[from |-> None, action |-> None, to |-> k]>>
      /\ \A x \in Contracts \ {c} : instance'[x] = instance[x] /\ history'[x] = history[x]
    BY <1>1 DEF IInv, TypeOK
<1> SUFFICES ASSUME NEW x \in Created', NEW i \in 2..Len(history'[x]),
                    history'[x][i].to \in TerminalKeys(instance'[x].definition.steps)
             PROVE  Len(history'[x]) - i + Cardinality(MoveReady(x)')
                        < Cardinality(Workers)
    BY DEF EndInv, Moves, EndKeys
<1>3. x # c
    <2>1. Len(<<[from |-> None, action |-> None, to |-> k]>>) = 1
        OBVIOUS
    <2> QED BY <2>1, <1>2
<1>4. /\ x \in Created /\ instance'[x] = instance[x] /\ history'[x] = history[x]
    BY <1>2, <1>3 DEF Created, NoInstance
<1>5. MoveReady(x)' = MoveReady(x)
    <2>1. w \notin MoveReady(x)
        BY DEF MoveReady, CommitCreate, CreateAllowed
    <2>2. MoveReady(x)' = MoveReady(x) \ {w}
        BY CloseNotReady DEF CommitCreate
    <2> QED BY <2>1, <2>2
<1> QED BY <1>4, <1>5 DEF EndInv, Moves, EndKeys

LEMMA TransitionEndInv ==
    ASSUME IInv, EndInv, NEW w \in Workers, CommitTransition(w),
           NEW c, c = request[w].contract
    PROVE  EndInv'
<1> DEFINE r == request[w]
           h == history[c]
<1>1. PICK t \in r.definition.transitions :
          /\ TransitionAllowed(r, t)
          /\ instance' = [instance EXCEPT ![c] = Updated(@, r, t)]
          /\ history' = [history EXCEPT ![c] =
                 Append(@, [from |-> r.step, action |-> r.action, to |-> t.to])]
    BY DEF CommitTransition
<1>2. r \in TransitionOfContract
    BY TagsDiffer DEF IInv, TypeOK, CommitTransition
<1>3. /\ c \in Contracts /\ instance[c] \in InstanceOf /\ c \in Created
      /\ t.to \in Keys /\ r.step \in Keys /\ r.action \in Actions /\ h \in Seq(EntryOf)
    BY <1>2, TagsDiffer, DefinitionFacts DEF IInv, TypeOK, RequestInv, Created
<1> DEFINE e == [from |-> r.step, action |-> r.action, to |-> t.to]
           h2 == Append(h, e)
<1>4. e \in EntryOf
    BY <1>3 DEF EntryOf
<1>5. /\ Len(h) \in Nat /\ Len(h2) = Len(h) + 1
      /\ \A i \in 1..Len(h) : h2[i] = h[i]
    BY <1>3, <1>4, AppendFacts, LenFacts
<1>6. /\ history'[c] = h2
      /\ instance'[c].definition = instance[c].definition
      /\ \A x \in Contracts \ {c} : instance'[x] = instance[x] /\ history'[x] = history[x]
    BY <1>1, <1>3, UpdatedIsRow DEF IInv, TypeOK
<1> HIDE DEF h2
<1>7. Created' = Created
    BY TransitionAddsNone
<1>8. \A x : MoveReady(x)' = MoveReady(x) \ {w}
    BY CloseNotReady DEF CommitTransition
<1>9. w \in MoveReady(c)
    BY <1>1 DEF MoveReady, CommitTransition, TransitionAllowed
<1>10. \A x : MoveReady(x) \in SUBSET Workers
    BY DEF MoveReady
<1> SUFFICES ASSUME NEW x \in Created, NEW i \in 2..Len(history'[x]),
                    history'[x][i].to \in TerminalKeys(instance'[x].definition.steps)
             PROVE  Len(history'[x]) - i + Cardinality(MoveReady(x) \ {w})
                        < Cardinality(Workers)
    BY <1>7, <1>8 DEF EndInv, Moves, EndKeys
<1>11. x \in Contracts /\ Len(history[x]) \in Nat
    BY LenFacts DEF Created, IInv, TypeOK
<1>12. CASE x = c
    <2>1. Cardinality(MoveReady(c) \ {w}) = Cardinality(MoveReady(c)) - 1
        BY <1>9, <1>10, ReadyFacts
    <2>2. Cardinality(MoveReady(c)) \in Nat /\ Cardinality(Workers) \in Nat
        BY <1>10, ReadyFacts
    <2>3. Cardinality(MoveReady(c)) <= Cardinality(Workers)
        BY <1>10, WorkersAssumption, FS_Subset
    <2>4. CASE i = Len(h) + 1
        BY <1>12, <2>1, <2>2, <2>3, <2>4, <1>5, <1>6
    <2>5. CASE i # Len(h) + 1
        <3>1. i \in 2..Len(h) /\ h2[i] = h[i]
            BY <2>5, <1>12, <1>5, <1>6
        <3>2. Len(h) - i + Cardinality(MoveReady(c)) < Cardinality(Workers)
            BY <3>1, <1>3, <1>6, <1>12 DEF EndInv, Moves, EndKeys
        <3>3. Len(history'[x]) = Len(h) + 1 /\ Len(h) \in Nat
            BY <1>5, <1>6, <1>12
        <3>4. PICK n, k, m \in Nat :
                  n = Len(h) /\ k = Cardinality(MoveReady(c)) /\ m = Cardinality(Workers)
            BY <3>3, <2>2
        <3>5. n - i + k < m /\ i \in Int
            BY <3>1, <3>2, <3>4
        <3>6. n + 1 - i + (k - 1) < m
            BY <3>5
        <3> QED BY <3>3, <3>4, <3>6, <2>1, <1>12
    <2> QED BY <2>4, <2>5
<1>13. CASE x # c
    <2>1. Len(history[x]) - i + Cardinality(MoveReady(x)) < Cardinality(Workers)
        BY <1>6, <1>11, <1>13 DEF EndInv, Moves, EndKeys
    <2>2. /\ Cardinality(MoveReady(x) \ {w}) <= Cardinality(MoveReady(x))
          /\ Cardinality(MoveReady(x) \ {w}) \in Nat
          /\ Cardinality(MoveReady(x)) \in Nat /\ Cardinality(Workers) \in Nat
        <3>1. MoveReady(x) \ {w} \in SUBSET MoveReady(x)
            OBVIOUS
        <3>2. MoveReady(x) \ {w} \in SUBSET Workers
            BY <1>10
        <3> HIDE DEF h
        <3>3. MoveReady(x) \in SUBSET Workers
            BY <1>10
        <3>4. PICK A, B \in SUBSET Workers :
                  A = MoveReady(x) /\ B = MoveReady(x) \ {w} /\ B \in SUBSET A
            BY <3>1, <3>2, <3>3
        <3>5. /\ Cardinality(B) <= Cardinality(A) /\ Cardinality(B) \in Nat
              /\ Cardinality(A) \in Nat /\ Cardinality(Workers) \in Nat
            BY <3>4, ReadyFacts
        <3> QED BY <3>4, <3>5
    <2> QED BY <2>1, <2>2, <1>6, <1>11, <1>13
<1> QED BY <1>12, <1>13

\* A completed contract is moved again fewer times than there are requests at
\* a time: only by those that had loaded it before it completed.
THEOREM FewMovesArePastEnd == Spec => []FewMovesPastEnd
<1>1. Init => EndInv
    BY DEF Init, EndInv, Created
<1>2. IInv /\ EndInv /\ [Next]_vars => EndInv'
    <2> SUFFICES ASSUME IInv, EndInv, [Next]_vars PROVE EndInv'
        OBVIOUS
    <2>1. CASE UNCHANGED vars
        BY <2>1, EndInvKept DEF vars, MoveReady
    <2>2. ASSUME NEW w \in Workers, LoadForCreate(w) PROVE EndInv'
        <3>1. \A c \in Created : MoveReady(c)' \subseteq MoveReady(c)
            BY <2>2 DEF IInv, TypeOK, LoadForCreate, MoveReady
        <3> QED BY <3>1, <2>2, EndInvKept DEF LoadForCreate
    <2>3. ASSUME NEW w \in Workers, LoadForTransition(w) PROVE EndInv'
        <3>1. \A c \in Created : instance[c].status = "completed"
                                    => MoveReady(c)' \subseteq MoveReady(c)
            BY <2>3 DEF IInv, TypeOK, LoadForTransition, MoveReady
        <3> QED BY <3>1, <2>3, EndInvKept DEF LoadForTransition
    <2>4. ASSUME NEW w \in Workers, CommitCreate(w) PROVE EndInv'
        BY <2>4, CreateEndInv
    <2>5. ASSUME NEW w \in Workers, CommitTransition(w) PROVE EndInv'
        BY <2>5, TransitionEndInv
    <2>6. ASSUME NEW w \in Workers, Refuse(w) \/ Abandon(w) PROVE EndInv'
        <3>1. Close(w) /\ UNCHANGED <<instance, history>>
            BY <2>6 DEF Refuse, Abandon
        <3> QED BY <3>1, CloseNotReady, EndInvKept
    <2> QED BY <2>1, <2>2, <2>3, <2>4, <2>5, <2>6 DEF Next
<1>3. IInv /\ EndInv => FewMovesPastEnd
    <2> SUFFICES ASSUME IInv, EndInv, NEW c \in Created, NEW i \in Moves(c),
                        history[c][i].to \in EndKeys(c)
                 PROVE  Len(history[c]) - i < Cardinality(Workers)
        BY DEF FewMovesPastEnd
    <2>1. MoveReady(c) \in SUBSET Workers
        BY DEF MoveReady
    <2>2. Cardinality(MoveReady(c)) \in Nat /\ Cardinality(Workers) \in Nat
        BY <2>1, ReadyFacts
    <2>3. Len(history[c]) \in Nat /\ i \in Nat
        BY LenFacts DEF IInv, TypeOK, Moves, Created
    <2> QED BY <2>2, <2>3 DEF EndInv
<1> QED BY <1>1, <1>2, <1>3, RunsCorrect, PTL DEF Spec

----------------------------------------------------------------------------
(***************************************************************************)
(* Requests that end on current rows keep the promises.  What relates the  *)
(* row a request loaded to the trail it extends is PathInv: as long as a   *)
(* trail is one path, its last entry is where the contract is.             *)
(***************************************************************************)
IsPath(h) == \A i \in 2..Len(h) : h[i].from = h[i - 1].to

PathInv ==
    \A c \in Created :
        IsPath(history[c]) => history[c][Len(history[c])].to = instance[c].step

\* What the commit of create_contract leaves in the tables.
LEMMA CreateWrites ==
    ASSUME IInv, NEW w \in Workers, CommitCreate(w)
    PROVE  \E c \in Contracts \ Created, k \in Keys :
               /\ instance'[c].step = k /\ instance'[c].status = "active"
               /\ Len(history'[c]) = 1 /\ history'[c][1].to = k
               /\ Created' = Created \cup {c}
               /\ \A x \in Contracts \ {c} :
                      instance'[x] = instance[x] /\ history'[x] = history[x]
<1>1. PICK c \in Contracts \ Created, k \in KeysOf(InitialSteps(request[w].definition.steps)) :
          /\ instance' = [instance EXCEPT ![c] = Start(request[w].definition, k)]
          /\ history' = [history EXCEPT ![c] =
                 <<[from |-> None, action |-> None, to |-> k]>>]
    BY DEF CommitCreate
<1>2. request[w].definition \in Definitions
    BY TagsDiffer DEF IInv, TypeOK, CommitCreate, CreateAllowed
<1>3. k \in Keys
    BY <1>2, DefinitionFacts
<1>4. /\ instance'[c] = Start(request[w].definition, k)
      /\ history'[c] = <<[from |-> None, action |-> None, to |-> k]>>
      /\ \A x \in Contracts \ {c} : instance'[x] = instance[x] /\ history'[x] = history[x]
    BY <1>1 DEF IInv, TypeOK
<1>5. instance'[c].step = k /\ instance'[c].status = "active" /\ instance'[c] # NoInstance
    BY <1>2, <1>3, <1>4, StartIsRow, TagsDiffer
<1>6. Created' = Created \cup {c}
    BY <1>4, <1>5 DEF Created, NoInstance
<1>7. Len(history'[c]) = 1 /\ history'[c][1].to = k
    BY <1>4
<1> QED BY <1>3, <1>4, <1>5, <1>6, <1>7

\* What the commit of transition_contract leaves in the tables.
LEMMA TransitionWrites ==
    ASSUME IInv, NEW w \in Workers, CommitTransition(w),
           NEW c, c = request[w].contract
    PROVE  /\ c \in Created /\ Created' = Created
           /\ Len(history[c]) \in Nat /\ Len(history[c]) >= 1
           /\ Len(history'[c]) = Len(history[c]) + 1
           /\ \A i \in 1..Len(history[c]) : history'[c][i] = history[c][i]
           /\ \A x \in Contracts \ {c} :
                  instance'[x] = instance[x] /\ history'[x] = history[x]
           /\ instance'[c].definition = instance[c].definition
           /\ request[w].status = "active"
           /\ \E t \in request[w].definition.transitions :
                  /\ history'[c][Len(history[c]) + 1].from = request[w].step
                  /\ history'[c][Len(history[c]) + 1].to = t.to
                  /\ instance'[c].step =
                         IF t.to = request[w].step THEN instance[c].step ELSE t.to
                  /\ instance'[c].status =
                         IF t.to \in EndKeys(c) THEN "completed" ELSE instance[c].status
<1> DEFINE r == request[w]
           h == history[c]
<1>1. PICK t \in r.definition.transitions :
          /\ TransitionAllowed(r, t)
          /\ instance' = [instance EXCEPT ![c] = Updated(@, r, t)]
          /\ history' = [history EXCEPT ![c] =
                 Append(@, [from |-> r.step, action |-> r.action, to |-> t.to])]
    BY DEF CommitTransition
<1>2. r \in TransitionOfContract
    BY TagsDiffer DEF IInv, TypeOK, CommitTransition
<1>3. /\ c \in Contracts /\ instance[c] \in InstanceOf /\ c \in Created
      /\ t.to \in Keys /\ r.step \in Keys /\ r.action \in Actions /\ h \in Seq(EntryOf)
    BY <1>2, TagsDiffer, DefinitionFacts DEF IInv, TypeOK, RequestInv, Created
<1> DEFINE e == [from |-> r.step, action |-> r.action, to |-> t.to]
           h2 == Append(h, e)
<1>4. e \in EntryOf
    BY <1>3 DEF EntryOf
<1>5. /\ Len(h) \in Nat /\ Len(h2) = Len(h) + 1 /\ h2[Len(h) + 1] = e
      /\ \A i \in 1..Len(h) : h2[i] = h[i]
    BY <1>3, <1>4, AppendFacts, LenFacts
<1>6. /\ history'[c] = h2 /\ instance'[c] = Updated(instance[c], r, t)
      /\ \A x \in Contracts \ {c} : instance'[x] = instance[x] /\ history'[x] = history[x]
    BY <1>1, <1>3 DEF IInv, TypeOK
<1>7. h # <<>>
    BY <1>3 DEF IInv, TypeOK, Created
<1>8. Len(h) >= 1
    BY <1>3, <1>7, LenFacts
<1>9. /\ instance'[c].definition = instance[c].definition
      /\ instance'[c].step = IF t.to = r.step THEN instance[c].step ELSE t.to
      /\ instance'[c].status =
             IF t.to \in EndKeys(c) THEN "completed" ELSE instance[c].status
    BY <1>3, <1>6, UpdatedIsRow DEF EndKeys
<1>10. Created' = Created
    BY TransitionAddsNone
<1>11. e.from = r.step /\ e.to = t.to
    OBVIOUS
<1> HIDE DEF h2, e
<1> QED BY <1>1, <1>3, <1>5, <1>6, <1>8, <1>9, <1>10, <1>11 DEF TransitionAllowed

\* A trail that is one path ends where the contract is.
LEMMA TransitionPathInv ==
    ASSUME IInv, PathInv, NEW w \in Workers, CommitTransition(w)
    PROVE  PathInv'
<1> DEFINE c == request[w].contract
           n == Len(history[c])
<1>1. PICK t \in request[w].definition.transitions :
          /\ history'[c][n + 1].from = request[w].step
          /\ history'[c][n + 1].to = t.to
          /\ instance'[c].step =
                 IF t.to = request[w].step THEN instance[c].step ELSE t.to
    BY TransitionWrites
<1>2. /\ c \in Created /\ Created' = Created
      /\ n \in Nat /\ n >= 1 /\ Len(history'[c]) = n + 1
      /\ \A i \in 1..n : history'[c][i] = history[c][i]
      /\ \A x \in Contracts \ {c} : instance'[x] = instance[x] /\ history'[x] = history[x]
    BY TransitionWrites
<1> SUFFICES ASSUME NEW x \in Created, IsPath(history'[x])
             PROVE  history'[x][Len(history'[x])].to = instance'[x].step
    BY <1>2 DEF PathInv
<1>3. CASE x # c
    BY <1>2, <1>3 DEF PathInv, Created
<1>4. CASE x = c
    <2>1. IsPath(history[c])
        <3> SUFFICES ASSUME NEW i \in 2..n
                     PROVE  history[c][i].from = history[c][i - 1].to
            BY DEF IsPath
        <3>1. /\ i \in 1..n /\ i - 1 \in 1..n /\ i \in 2..(n + 1)
            BY <1>2
        <3>2. history'[c][i].from = history'[c][i - 1].to
            BY <1>2, <1>4, <3>1 DEF IsPath
        <3> QED BY <1>2, <3>1, <3>2
    <2>2. history[c][n].to = instance[c].step
        BY <1>2, <2>1 DEF PathInv
    <2>3. history'[c][n + 1].from = history[c][n].to
        <3>1. n + 1 \in 2..(n + 1) /\ (n + 1) - 1 = n /\ n \in 1..n
            BY <1>2
        <3>2. history'[c][n + 1].from = history'[c][n].to
            BY <1>2, <1>4, <3>1 DEF IsPath
        <3> QED BY <1>2, <3>1, <3>2
    <2>4. history'[c][n + 1].to = instance'[c].step
        BY <1>1, <2>2, <2>3
    <2> QED BY <1>2, <1>4, <2>4
<1> QED BY <1>3, <1>4

LEMMA PathsEnd == Spec => []PathInv
<1>1. Init => PathInv
    BY DEF Init, PathInv, Created
<1>2. IInv /\ PathInv /\ [Next]_vars => PathInv'
    <2> SUFFICES ASSUME IInv, PathInv, [Next]_vars PROVE PathInv'
        OBVIOUS
    <2>1. CASE UNCHANGED <<instance, history>>
        BY <2>1 DEF PathInv, Created
    <2>2. ASSUME NEW w \in Workers, CommitCreate(w) PROVE PathInv'
        BY <2>2, CreateWrites DEF PathInv, Created
    <2>3. ASSUME NEW w \in Workers, CommitTransition(w) PROVE PathInv'
        BY <2>3, TransitionPathInv
    <2> QED BY <2>1, <2>2, <2>3
            DEF Next, vars, LoadForCreate, LoadForTransition, Refuse, Abandon
<1> QED BY <1>1, <1>2, RunsCorrect, PTL DEF Spec

Promises == AuditTrailIsPath /\ CompletedOnlyAtEnd

FinalKept ==
    \A c \in Created :
        instance[c].status = "completed" => UNCHANGED <<instance[c], history[c]>>

\* A new contract disturbs no other; what it was counted on does not matter here.
LEMMA CreateKeeps ==
    ASSUME IInv, Promises, NEW w \in Workers, CommitCreate(w)
    PROVE  Promises' /\ FinalKept
<1>1. PICK c \in Contracts \ Created, k \in Keys :
          /\ instance'[c].step = k /\ instance'[c].status = "active"
          /\ Len(history'[c]) = 1 /\ Created' = Created \cup {c}
          /\ \A x \in Contracts \ {c} :
                 instance'[x] = instance[x] /\ history'[x] = history[x]
    BY CreateWrites
<1>2. AuditTrailIsPath'
    BY <1>1 DEF Promises, AuditTrailIsPath, Moves, Created
<1>3. CompletedOnlyAtEnd'
    BY <1>1 DEF Promises, CompletedOnlyAtEnd, EndKeys, Created
<1>4. FinalKept
    BY <1>1 DEF FinalKept, Created
<1> QED BY <1>2, <1>3, <1>4 DEF Promises

LEMMA FreshCreateKeepsPlan ==
    ASSUME IInv, NEW w \in Workers, CommitCreate(w), Fresh(request[w])
    PROVE  PlanKept'
<1>1. Cardinality(Created) < MaxContracts /\ Cardinality(Created) \in Nat
    BY FS_CardinalityType
       DEF CommitCreate, CreateAllowed, Fresh, IInv, FinitelyMany
<1>2. Cardinality(Created') = Cardinality(Created) + 1
    BY CreateAddsOne
<1> QED BY <1>1, <1>2, BoundsAssumption DEF PlanKept

LEMMA FreshTransitionKeeps ==
    ASSUME IInv, PathInv, Promises, NEW w \in Workers, CommitTransition(w),
           Fresh(request[w])
    PROVE  Promises' /\ FinalKept
<1> DEFINE c == request[w].contract
           n == Len(history[c])
<1>1. PICK t \in request[w].definition.transitions :
          /\ history'[c][n + 1].from = request[w].step
          /\ instance'[c].step =
                 IF t.to = request[w].step THEN instance[c].step ELSE t.to
          /\ instance'[c].status =
                 IF t.to \in EndKeys(c) THEN "completed" ELSE instance[c].status
    BY TransitionWrites
<1>2. /\ c \in Created /\ Created' = Created
      /\ n \in Nat /\ n >= 1 /\ Len(history'[c]) = n + 1
      /\ \A i \in 1..n : history'[c][i] = history[c][i]
      /\ instance'[c].definition = instance[c].definition
      /\ \A x \in Contracts \ {c} : instance'[x] = instance[x] /\ history'[x] = history[x]
    BY TransitionWrites
<1>3. instance[c].step = request[w].step /\ instance[c].status = "active"
    <2>1. request[w].status = "active"
        BY TransitionWrites
    <2> QED BY <2>1 DEF Fresh, CommitTransition
<1>4. AuditTrailIsPath'
    <2> SUFFICES ASSUME NEW x \in Created, NEW i \in 2..Len(history'[x])
                 PROVE  history'[x][i].from = history'[x][i - 1].to
        BY <1>2 DEF AuditTrailIsPath, Moves
    <2>1. CASE x # c
        BY <1>2, <2>1 DEF Promises, AuditTrailIsPath, Moves, Created
    <2>2. CASE x = c /\ i = n + 1
        <3>1. history[c][n].to = instance[c].step
            BY <1>2 DEF Promises, AuditTrailIsPath, Moves, PathInv, IsPath
        <3>2. i - 1 = n /\ n \in 1..n
            BY <1>2, <2>2
        <3>3. history'[c][i - 1].to = instance[c].step
            BY <1>2, <3>1, <3>2
        <3> QED BY <1>1, <1>3, <2>2, <3>3
    <2>3. CASE x = c /\ i # n + 1
        <3>1. i \in 2..n /\ i \in 1..n /\ i - 1 \in 1..n
            BY <1>2, <2>3
        <3>2. history[c][i].from = history[c][i - 1].to
            BY <1>2, <3>1 DEF Promises, AuditTrailIsPath, Moves
        <3> QED BY <1>2, <2>3, <3>1, <3>2
    <2> QED BY <2>1, <2>2, <2>3
<1>5. CompletedOnlyAtEnd'
    <2> SUFFICES ASSUME NEW x \in Created, instance'[x].status = "completed"
                 PROVE  instance'[x].step \in TerminalKeys(instance'[x].definition.steps)
        BY <1>2 DEF CompletedOnlyAtEnd, EndKeys
    <2>1. CASE x # c
        BY <1>2, <2>1 DEF Promises, CompletedOnlyAtEnd, EndKeys, Created
    <2>2. CASE x = c
        BY <1>1, <1>2, <1>3, <2>2 DEF EndKeys
    <2> QED BY <2>1, <2>2
<1>6. FinalKept
    BY <1>2, <1>3 DEF FinalKept, Created
<1> QED BY <1>4, <1>5, <1>6 DEF Promises

\* No step but a transition on a row that is out of date breaks a path, moves a
\* completed contract or completes one elsewhere than at an end.
LEMMA FreshMovesKeep ==
    ASSUME IInv, PathInv, [Next]_vars, Promises,
           \A w \in Workers : CommitTransition(w) => Fresh(request[w])
    PROVE  Promises' /\ FinalKept
<1>1. CASE UNCHANGED <<instance, history>>
    BY <1>1 DEF Promises, FinalKept, AuditTrailIsPath, Moves,
       CompletedOnlyAtEnd, EndKeys, Created
<1>2. ASSUME NEW w \in Workers, CommitCreate(w) \/ CommitTransition(w)
      PROVE  Promises' /\ FinalKept
    BY <1>2, CreateKeeps, FreshTransitionKeeps
<1> QED BY <1>1, <1>2
        DEF Next, vars, LoadForCreate, LoadForTransition, Refuse, Abandon

\* No step but a creation on a count that is out of date exceeds the plan.
LEMMA FreshCreatesKeep ==
    ASSUME IInv, [Next]_vars, PlanKept,
           \A w \in Workers : CommitCreate(w) => Fresh(request[w])
    PROVE  PlanKept'
<1>1. CASE UNCHANGED <<instance, history>>
    BY <1>1 DEF PlanKept, Created
<1>2. ASSUME NEW w \in Workers, CommitCreate(w)
      PROVE  PlanKept'
    BY <1>2, FreshCreateKeepsPlan
<1>3. ASSUME NEW w \in Workers, CommitTransition(w)
      PROVE  PlanKept'
    BY <1>3, TransitionAddsNone DEF PlanKept
<1> QED BY <1>1, <1>2, <1>3
        DEF Next, vars, LoadForCreate, LoadForTransition, Refuse, Abandon

\* A commit ends its request.
LEMMA CommitsEnd ==
    ASSUME IInv, NEW w \in Workers, CommitCreate(w) \/ CommitTransition(w)
    PROVE  request[w] # Idle /\ request'[w] = Idle
BY TagsDiffer DEF IInv, TypeOK, CommitCreate, CreateAllowed, CommitTransition, Close

\* However many requests overlap, those that end on rows that are still
\* current leave one path, complete contracts where they end, leave completed
\* ones alone and keep the plan's limit.
THEOREM FreshRequestsKeep == Spec => FreshRequestsKeepPromises
<1> DEFINE AllFresh == \A w \in Workers :
               request[w] # Idle /\ request'[w] = Idle => Fresh(request[w])
<1>1. IInv /\ PathInv /\ [Next]_vars
        => (AllFresh /\ Promises /\ PlanKept => Promises' /\ PlanKept' /\ FinalKept)
    BY CommitsEnd, FreshMovesKeep, FreshCreatesKeep
<1> QED BY <1>1, RunsCorrect, PathsEnd, PTL
        DEF Spec, FreshRequestsKeepPromises, Promises, FinalKept

----------------------------------------------------------------------------
(***************************************************************************)
(* How much of the overlap has to go.  The counterexample of               *)
(* ContractMovedPastEnd, and every branching trail, needs two transitions  *)
(* of one contract at once; a plan that is exceeded needs two creations.   *)
(* What a lock on the instance's row, or on the organization's, would have *)
(* to exclude is just that: other requests may overlap as they like.       *)
(***************************************************************************)
OneMovePerContract ==
    \A v, w \in Workers :
        /\ request[v].op = "transition" /\ request[w].op = "transition"
        /\ request[v].contract = request[w].contract
        => v = w

MovesCurrent ==
    \A w \in Workers : request[w].op = "transition" => Fresh(request[w])

\* Only a transition of the same contract makes what a transition loaded stale.
LEMMA MovesStayCurrent ==
    ASSUME IInv, OneMovePerContract, [Next]_vars, MovesCurrent
    PROVE  MovesCurrent'
<1> SUFFICES ASSUME NEW x \in Workers, request'[x].op = "transition"
             PROVE  /\ instance'[request'[x].contract].step = request'[x].step
                    /\ instance'[request'[x].contract].status = request'[x].status
    BY DEF MovesCurrent, Fresh
<1>1. ASSUME request'[x] = request[x], instance'[request[x].contract] = instance[request[x].contract]
      PROVE  /\ instance'[request'[x].contract].step = request'[x].step
             /\ instance'[request'[x].contract].status = request'[x].status
    BY <1>1 DEF MovesCurrent, Fresh
<1>2. CASE UNCHANGED vars
    BY <1>1, <1>2 DEF vars
<1>3. ASSUME NEW w \in Workers, Close(w)
      PROVE  x # w /\ request'[x] = request[x]
    BY <1>3, TagsDiffer DEF Close, IInv, TypeOK
<1>4. ASSUME NEW w \in Workers, LoadForCreate(w)
      PROVE  x # w /\ request'[x] = request[x]
    BY <1>4 DEF LoadForCreate, IInv, TypeOK
<1>5. ASSUME NEW w \in Workers, LoadForTransition(w)
      PROVE  /\ instance'[request'[x].contract].step = request'[x].step
             /\ instance'[request'[x].contract].status = request'[x].status
    <2>1. CASE x = w
        BY <1>5, <2>1 DEF LoadForTransition, IInv, TypeOK
    <2>2. CASE x # w
        BY <1>1, <1>5, <2>2 DEF LoadForTransition, IInv, TypeOK
    <2> QED BY <2>1, <2>2
<1>6. ASSUME NEW w \in Workers, CommitCreate(w)
      PROVE  instance'[request[x].contract] = instance[request[x].contract]
    <2>1. PICK c \in Contracts \ Created :
              \A y \in Contracts \ {c} : instance'[y] = instance[y]
        BY <1>6, CreateWrites
    <2>2. x # w /\ request'[x] = request[x]
        BY <1>3, <1>6 DEF CommitCreate
    <2>3. request[x].contract \in Created
        BY <2>2, TagsDiffer DEF IInv, TypeOK, RequestInv, Created
    <2> QED BY <2>1, <2>3 DEF Created
<1>7. ASSUME NEW w \in Workers, CommitTransition(w)
      PROVE  instance'[request[x].contract] = instance[request[x].contract]
    <2>1. \A y \in Contracts \ {request[w].contract} : instance'[y] = instance[y]
        BY <1>7, TransitionWrites
    <2>2. x # w /\ request'[x] = request[x] /\ request[w].op = "transition"
        BY <1>3, <1>7 DEF CommitTransition
    <2>3. request[x].contract # request[w].contract
        BY <2>2 DEF OneMovePerContract
    <2>4. request[x].contract \in Contracts
        BY <2>2, TagsDiffer DEF IInv, TypeOK
    <2> QED BY <2>1, <2>3, <2>4
<1>8. ASSUME NEW w \in Workers, Refuse(w) \/ Abandon(w)
      PROVE  Close(w) /\ UNCHANGED instance
    BY <1>8 DEF Refuse, Abandon
<1> QED BY <1>1, <1>2, <1>3, <1>4, <1>5, <1>6, <1>7, <1>8
        DEF Next, CommitCreate, CommitTransition, LoadForCreate

\* When the transitions of each contract are handled one after the other, every
\* trail is one path and a contract completes where it ends and stays there,
\* however other requests overlap.
THEOREM SerialMovesKeepPromises ==
    Spec /\ []OneMovePerContract
        => [](AuditTrailIsPath /\ CompletedOnlyAtEnd) /\ CompletedIsFinal
<1>1. Init => MovesCurrent /\ Promises
    BY TagsDiffer
       DEF Init, MovesCurrent, Promises, AuditTrailIsPath, CompletedOnlyAtEnd, Created
<1>2. IInv /\ PathInv /\ OneMovePerContract /\ [Next]_vars /\ MovesCurrent /\ Promises
          => MovesCurrent' /\ Promises' /\ FinalKept
    BY MovesStayCurrent, FreshMovesKeep DEF MovesCurrent, CommitTransition
<1> QED BY <1>1, <1>2, RunsCorrect, PathsEnd, PTL
        DEF Spec, Promises, FinalKept, CompletedIsFinal

OneCreateAtATime ==
    \A v, w \in Workers : request[v].op = "create" /\ request[w].op = "create" => v = w

CountsCurrent == \A w \in Workers : request[w].op = "create" => Fresh(request[w])

\* Only a creation makes a count stale.
LEMMA CountsStayCurrent ==
    ASSUME IInv, OneCreateAtATime, [Next]_vars, CountsCurrent
    PROVE  CountsCurrent'
<1> SUFFICES ASSUME NEW x \in Workers, request'[x].op = "create"
             PROVE  request'[x].count = Cardinality(Created')
    BY DEF CountsCurrent, Fresh
<1>1. ASSUME request'[x] = request[x], Created' = Created
      PROVE  request'[x].count = Cardinality(Created')
    BY <1>1 DEF CountsCurrent, Fresh
<1>2. CASE UNCHANGED vars
    BY <1>1, <1>2 DEF vars, Created
<1>3. ASSUME NEW w \in Workers, Close(w)
      PROVE  x # w /\ request'[x] = request[x]
    BY <1>3, TagsDiffer DEF Close, IInv, TypeOK
<1>4. ASSUME NEW w \in Workers, LoadForCreate(w)
      PROVE  request'[x].count = Cardinality(Created')
    <2>1. Created' = Created
        BY <1>4 DEF LoadForCreate, Created
    <2>2. CASE x = w
        BY <1>4, <2>1, <2>2 DEF LoadForCreate, IInv, TypeOK
    <2>3. CASE x # w
        BY <1>1, <1>4, <2>1, <2>3 DEF LoadForCreate, IInv, TypeOK
    <2> QED BY <2>2, <2>3
<1>5. ASSUME NEW w \in Workers, LoadForTransition(w)
      PROVE  request'[x] = request[x] /\ Created' = Created
    BY <1>5 DEF LoadForTransition, IInv, TypeOK, Created
<1>6. ASSUME NEW w \in Workers, CommitCreate(w)
      PROVE  FALSE
    BY <1>3, <1>6 DEF CommitCreate, CreateAllowed, OneCreateAtATime
<1>7. ASSUME NEW w \in Workers, CommitTransition(w)
      PROVE  request'[x] = request[x] /\ Created' = Created
    BY <1>3, <1>7, TransitionAddsNone DEF CommitTransition
<1>8. ASSUME NEW w \in Workers, Refuse(w) \/ Abandon(w)
      PROVE  request'[x] = request[x] /\ Created' = Created
    BY <1>3, <1>8 DEF Refuse, Abandon, Created
<1> QED BY <1>1, <1>2, <1>4, <1>5, <1>6, <1>7, <1>8 DEF Next

\* When contracts are created one after the other the plan's limit is kept,
\* however other requests overlap.
THEOREM SerialCreatesKeepPlan == Spec /\ []OneCreateAtATime => []PlanKept
<1>1. Init => CountsCurrent /\ PlanKept
    <2> SUFFICES ASSUME Init PROVE CountsCurrent /\ PlanKept
        OBVIOUS
    <2>1. Created = {} /\ Cardinality(Created) = 0
        BY FS_EmptySet DEF Init, Created
    <2> QED BY <2>1, BoundsAssumption, TagsDiffer DEF Init, CountsCurrent, PlanKept
<1>2. IInv /\ OneCreateAtATime /\ [Next]_vars /\ CountsCurrent /\ PlanKept
          => CountsCurrent' /\ PlanKept'
    BY CountsStayCurrent, FreshCreatesKeep DEF CountsCurrent, CommitCreate, CreateAllowed
<1> QED BY <1>1, <1>2, RunsCorrect, PTL DEF Spec
=============================================================================
