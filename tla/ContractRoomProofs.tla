-------------------------- MODULE ContractRoomProofs --------------------------
(***************************************************************************)
(* For any steps, agents, roles, users, contracts, documents, links and    *)
(* number of concurrent requests: the rows have their types, deeds are     *)
(* entitled unless they were overtaken and then few, checklists apply, and *)
(* views stay within their links.                                          *)
(*                                                                         *)
(* Two arguments.  Documents, versions, unlocked links and the passwords   *)
(* of links stay, so what a request has read of them is still true.  The   *)
(* current steps and the links of roles do change, but whoever changes     *)
(* them overtakes all others who have read them, so what a request that is *)
(* not overtaken has read of them is still true as well.                   *)
(***************************************************************************)
EXTENDS ContractRoom, FiniteSetTheorems, TLAPS

RequestOf == {Idle} \cup ActOf \cup ReconcileOf \cup ShareOf \cup ViewOf \cup SummarizeOf

\* What stays true of a request while others commit.
RequestOK(r) ==
    /\ r.op = "share" => r.named \subseteq DocumentsOf(r.contract)
    /\ r.op = "view" => /\ link[r.link] # None
                        /\ link[r.link].password => r.link \in unlocked
    /\ r.op = "summarize" => r.version <= versions[r.document]

\* What stays true of it until it is overtaken.
Current(r) ==
    /\ r.op \in {"act", "assistant"} =>
           /\ r.step # None => r.step = place[r.contract]
           /\ r.may => r.step # None /\ CanEdit(r.role, Owner[r.step])
    /\ r.op = "reconcile" => r.todo = Todo(r.agent, r.ticked)

\* Who has it can be overtaken.
Reads(r) ==
    \/ r.op = "reconcile"
    \/ r.op \in {"act", "assistant"} /\ r.step # None

\* A view of a link that has ended is watched.
ViewOK(w) ==
    request[w].op = "view" => Active(request[w].link) \/ w \in ending[request[w].link]

\* The tables alone.
TablesOK ==
    /\ linked \in [Roles -> Agents \cup {None}]
    /\ roleOf \in [Users -> Roles]
    /\ place \in [Contracts -> Steps]
    /\ documents \subseteq Documents
    /\ versions \in [Documents -> 0..MaxVersions]
    /\ \A d \in Documents \ documents : versions[d] = 0
    /\ ai \in [Contracts -> Configs \cup {DefaultConfig}]
    /\ link \in [Links -> LinkOf \cup {None}]
    /\ \A l \in Links : link[l] # None => link[l].named \subseteq DocumentsOf(link[l].contract)
    /\ unlocked \subseteq Links
    /\ served \subseteq Links \X Documents
    /\ summary \in [Documents -> Nat]
    /\ \A d \in Documents : summary[d] <= versions[d]

RequestsOK ==
    /\ request \in [Workers -> RequestOf]
    /\ \A w \in Workers : RequestOK(request[w]) /\ ViewOK(w)
    /\ \A w \in Workers : w \notin overtaken => Current(request[w])

HistoryOK ==
    /\ overtaken \subseteq Readers
    /\ late \in [Contracts -> Nat]
    /\ \A l \in Links : ending[l] \subseteq ViewsOf(l)

IInv == TablesOK /\ RequestsOK /\ HistoryOK

----------------------------------------------------------------------------
(***************************************************************************)
(* The kinds of request differ in op.                                      *)
(***************************************************************************)
LEMMA KindsDiffer ==
    ASSUME NEW r \in RequestOf
    PROVE  /\ r.op = "none" <=> r = Idle
           /\ r.op \in {"act", "assistant"} => r \in ActOf
           /\ r.op = "reconcile" => r \in ReconcileOf
           /\ r.op = "share" => r \in ShareOf
           /\ r.op = "view" => r \in ViewOf
           /\ r.op = "summarize" => r \in SummarizeOf
           /\ r.op \in {"none", "act", "assistant", "reconcile", "share", "view", "summarize"}
<1>1. CASE r = Idle BY <1>1 DEF Idle
<1>2. CASE r \in ActOf BY <1>2 DEF ActOf, Idle
<1>3. CASE r \in ReconcileOf BY <1>3 DEF ReconcileOf, Idle
<1>4. CASE r \in ShareOf BY <1>4 DEF ShareOf, Idle
<1>5. CASE r \in ViewOf BY <1>5 DEF ViewOf, Idle
<1>6. CASE r \in SummarizeOf BY <1>6 DEF SummarizeOf, Idle
<1> QED BY <1>1, <1>2, <1>3, <1>4, <1>5, <1>6 DEF RequestOf

LEMMA Contract ==
    ASSUME NEW r \in RequestOf, r.op \in {"act", "assistant"}
    PROVE  r.contract \in Contracts
BY KindsDiffer DEF ActOf

LEMMA ReadersAre ==
    ASSUME request \in [Workers -> RequestOf]
    PROVE  \A w : w \in Readers <=> w \in Workers /\ Reads(request[w])
<1>1. \A w : w \in UNION {ReadersOf(c) : c \in Contracts}
             <=> \E c \in Contracts : w \in ReadersOf(c)
    OBVIOUS
<1>2. \A w : (\E c \in Contracts : w \in ReadersOf(c))
             <=> w \in Workers /\ Acts(w) /\ request[w].step # None
    <2>1. \A w \in Workers : Acts(w) => request[w].contract \in Contracts
        BY Contract DEF Acts
    <2> QED BY <2>1 DEF ReadersOf
<1> QED BY <1>1, <1>2 DEF Readers, Reads, Acts

LEMMA ReadersWillBe ==
    ASSUME request' \in [Workers -> RequestOf]
    PROVE  \A w : w \in Readers' <=> w \in Workers /\ Reads(request'[w])
<1>1. \A w : w \in UNION {ReadersOf(c)' : c \in Contracts}
             <=> \E c \in Contracts : w \in ReadersOf(c)'
    OBVIOUS
<1>2. \A w : (\E c \in Contracts : w \in ReadersOf(c)')
             <=> w \in Workers /\ Acts(w)' /\ request'[w].step # None
    <2>1. \A w \in Workers : Acts(w)' => request'[w].contract \in Contracts
        BY Contract DEF Acts
    <2> QED BY <2>1 DEF ReadersOf
<1> QED BY <1>1, <1>2 DEF Readers, Reads, Acts

LEMMA Overtaken ==
    ASSUME IInv, NEW w \in Workers
    PROVE  w \in overtaken => Reads(request[w])
BY ReadersAre DEF IInv, HistoryOK, RequestsOK

LEMMA Versions ==
    ASSUME TablesOK, NEW d \in Documents
    PROVE  versions[d] \in Nat /\ versions[d] <= MaxVersions
BY VersionsAssumption DEF TablesOK

LEMMA InvTyped == IInv => TypeOK
<1> SUFFICES ASSUME IInv PROVE TypeOK
    OBVIOUS
<1>1. \A d \in Documents : summary[d] \in 0..versions[d]
    BY Versions DEF IInv, TablesOK
<1>2. \A w \in Workers : request[w] \in RequestOf
    BY DEF IInv, RequestsOK
<1>3. ASSUME NEW w \in Workers
      PROVE  \/ request[w] = Idle
             \/ request[w].op \in {"act", "assistant"} /\ request[w] \in ActOf
             \/ request[w].op = "reconcile" /\ request[w] \in ReconcileOf
             \/ request[w].op = "share" /\ request[w] \in ShareOf
             \/ request[w].op = "view" /\ request[w] \in ViewOf
             \/ request[w].op = "summarize" /\ request[w] \in SummarizeOf
    BY <1>2, KindsDiffer
<1>4. AccessTypeOK
    BY DEF IInv, TablesOK, HistoryOK, AccessTypeOK
<1> QED BY <1>1, <1>3, <1>4 DEF IInv, TablesOK, HistoryOK, TypeOK

----------------------------------------------------------------------------
(***************************************************************************)
(* Steps.                                                                  *)
(***************************************************************************)
\* Nothing that a request relies on is undone.
Kept ==
    /\ documents \subseteq documents'
    /\ \A d \in Documents : versions'[d] \in Nat /\ versions[d] <= versions'[d]
    /\ unlocked \subseteq unlocked'
    /\ \A l \in Links : link[l] # None =>
           link'[l] # None /\ link'[l].password = link[l].password

\* What x has read is as it was, or x is overtaken.
Fair(x) ==
    /\ x \in overtaken' => Reads(request[x])
    /\ Reads(request[x]) /\ x \notin overtaken' =>
           /\ x \notin overtaken /\ UNCHANGED linked
           /\ Acts(x) => place'[request[x].contract] = place[request[x].contract]

LEMMA OthersOK ==
    ASSUME IInv, Kept, NEW x \in Workers, Fair(x), request'[x] = request[x]
    PROVE  /\ request'[x] \in RequestOf
           /\ RequestOK(request[x])'
           /\ x \notin overtaken' => Current(request[x])'
<1> DEFINE r == request[x]
<1>1. r \in RequestOf /\ RequestOK(r) /\ (x \notin overtaken => Current(r))
    BY DEF IInv, RequestsOK
<1>2. /\ r.op = "view" => r.link \in Links
      /\ r.op = "summarize" => /\ r.document \in Documents
                               /\ r.version \in Nat /\ versions[r.document] \in Nat
    <2>1. r.op = "view" => r.link \in Links
        BY <1>1, KindsDiffer DEF ViewOf
    <2>2. r.op = "summarize" => r.document \in Documents /\ r.version \in Nat
        BY <1>1, KindsDiffer, VersionsAssumption DEF SummarizeOf
    <2>3. \A d \in Documents : versions[d] \in Nat
        BY Versions DEF IInv
    <2> QED BY <2>1, <2>2, <2>3
<1>3. x \notin overtaken' =>
          /\ Current(r)
          /\ Reads(r) => /\ UNCHANGED linked
                         /\ r.op \in {"act", "assistant"} => place'[r.contract] = place[r.contract]
    BY <1>1, Overtaken DEF Fair, Acts
<1> HIDE DEF r
<1>4. /\ r.op = "share" => r.named \subseteq {d \in documents' : ContractOf[d] = r.contract}
      /\ r.op = "view" => /\ link'[r.link] # None
                          /\ link'[r.link].password => r.link \in unlocked'
      /\ r.op = "summarize" => r.version <= versions'[r.document]
    BY <1>1, <1>2 DEF Kept, RequestOK, DocumentsOf
<1>5. /\ request'[x] = r /\ RequestOK(request[x])'
    BY <1>4 DEF r, RequestOK, DocumentsOf
<1>6. ASSUME x \notin overtaken', Reads(r)
      PROVE  Current(request[x])'
    BY <1>3, <1>5, <1>6 DEF Current, CanEdit, Todo, LinkedTo
<1>7. ASSUME x \notin overtaken', ~Reads(r)
      PROVE  Current(request[x])'
    BY <1>3, <1>5, <1>7 DEF Current, Reads, CanEdit, Todo, LinkedTo
<1> QED BY <1>1, <1>5, <1>6, <1>7

Good == TablesOK' /\ Kept /\ late' \in [Contracts -> Nat]

\* A step of w.
StepOf(w) ==
    /\ Good
    /\ request' \in [Workers -> RequestOf]
    /\ RequestOK(request[w])'
    /\ w \notin overtaken' => Current(request[w])'
    /\ w \in overtaken' => Reads(request'[w])
    /\ request'[w].op = "view" => Active(request[w].link)'
    /\ overtaken' \subseteq Workers
    /\ \A x \in Workers \ {w} : request'[x] = request[x] /\ Fair(x)
    /\ \A l \in Links : Active(l) => Active(l)'

\* A step of nobody whose request is followed.
StepOfNobody ==
    /\ Good /\ UNCHANGED request
    /\ overtaken' \subseteq Workers
    /\ \A x \in Workers : Fair(x)

\* Views that go on are watched when their link ends.
LEMMA WatchingKeeps ==
    ASSUME IInv, Watched, NEW x \in Workers, request'[x] = request[x]
    PROVE  ViewOK(x)'
<1> SUFFICES ASSUME request[x].op = "view", ~Active(request[x].link)'
             PROVE  x \in ending'[request[x].link]
    BY DEF ViewOK, Active
<1> DEFINE l == request[x].link
<1>1. l \in Links
    BY KindsDiffer DEF IInv, RequestsOK, ViewOf
<1>2. ending'[l] = IF Active(l) THEN IF Active(l)' THEN {} ELSE ViewsOf(l)
                   ELSE {w \in ending[l] : request'[w] = request[w]}
    BY <1>1 DEF Watched
<1>3. x \in ViewsOf(l) /\ (Active(l) \/ x \in ending[l])
    BY DEF ViewsOf, IInv, RequestsOK, ViewOK
<1> QED BY <1>2, <1>3

LEMMA WatchedAreViews ==
    ASSUME IInv, Watched, NEW l \in Links, UNCHANGED request \/ (Active(l) => Active(l)')
    PROVE  ending'[l] \subseteq ViewsOf(l)'
<1>1. ending'[l] = IF Active(l) THEN IF Active(l)' THEN {} ELSE ViewsOf(l)
                   ELSE {w \in ending[l] : request'[w] = request[w]}
    BY DEF Watched
<1>2. ending[l] \subseteq ViewsOf(l)
    BY DEF IInv, HistoryOK
<1> QED BY <1>1, <1>2 DEF ViewsOf

LEMMA StepsKeep ==
    ASSUME IInv, Watched, StepOfNobody \/ \E w \in Workers : StepOf(w)
    PROVE  IInv'
<1>1. CASE StepOfNobody
    <2>1. TablesOK' /\ Kept /\ request' \in [Workers -> RequestOf] /\ late' \in [Contracts -> Nat]
        BY <1>1 DEF StepOfNobody, Good, IInv, RequestsOK
    <2>2. ASSUME NEW x \in Workers
          PROVE  /\ RequestOK(request[x])' /\ (x \notin overtaken' => Current(request[x])')
                 /\ ViewOK(x)'
        <3>1. Fair(x) /\ request'[x] = request[x]
            BY <1>1 DEF StepOfNobody
        <3> QED BY <2>1, <3>1, OthersOK, WatchingKeeps
    <2>3. overtaken' \subseteq Readers'
        BY <1>1, <2>1, ReadersWillBe DEF StepOfNobody, Fair
    <2>4. \A l \in Links : ending'[l] \subseteq ViewsOf(l)'
        BY <1>1, WatchedAreViews DEF StepOfNobody
    <2>5. RequestsOK'
        BY <2>1, <2>2 DEF RequestsOK
    <2> QED BY <2>1, <2>3, <2>4, <2>5 DEF IInv, HistoryOK
<1>2. ASSUME NEW w \in Workers, StepOf(w)
      PROVE  IInv'
    <2>1. TablesOK' /\ Kept /\ request' \in [Workers -> RequestOf] /\ late' \in [Contracts -> Nat]
        BY <1>2 DEF StepOf, Good
    <2>2. ASSUME NEW x \in Workers, x # w
          PROVE  /\ RequestOK(request[x])' /\ (x \notin overtaken' => Current(request[x])')
                 /\ ViewOK(x)'
        <3>1. Fair(x) /\ request'[x] = request[x]
            BY <1>2, <2>2 DEF StepOf
        <3> QED BY <2>1, <3>1, OthersOK, WatchingKeeps
    <2>3. ViewOK(w)'
        BY <1>2 DEF StepOf, ViewOK
    <2>4. overtaken' \subseteq Readers'
        BY <1>2, <2>1, ReadersWillBe DEF StepOf, Fair
    <2>5. \A l \in Links : ending'[l] \subseteq ViewsOf(l)'
        BY <1>2, WatchedAreViews DEF StepOf
    <2>6. RequestsOK'
        BY <1>2, <2>1, <2>2, <2>3 DEF StepOf, RequestsOK
    <2> QED BY <2>1, <2>4, <2>5, <2>6 DEF IInv, HistoryOK
<1> QED BY <1>1, <1>2

\* The request of w becomes r.
Becomes(w, r) == request' = [request EXCEPT ![w] = r]

LEMMA BecomesTyped ==
    ASSUME IInv, NEW w \in Workers, NEW r \in RequestOf, Becomes(w, r)
    PROVE  /\ request' \in [Workers -> RequestOf] /\ request'[w] = r
           /\ \A x \in Workers \ {w} : request'[x] = request[x]
BY DEF Becomes, IInv, RequestsOK

\* Nothing else changes, but what w had read may be dropped.
LEMMA AsksOK ==
    ASSUME IInv, NEW w \in Workers, NEW r \in RequestOf, Becomes(w, r),
           \/ overtaken' = overtaken /\ (Reads(request[w]) => Reads(r))
           \/ overtaken' = overtaken \ {w},
           UNCHANGED <<linked, roleOf, work, late, sharing>>,
           RequestOK(r), w \notin overtaken' => Current(r),
           r.op = "view" => Active(r.link)
    PROVE  StepOf(w)
<1>1. /\ request' \in [Workers -> RequestOf] /\ request'[w] = r
      /\ \A x \in Workers \ {w} : request'[x] = request[x]
    BY BecomesTyped
<1>2. TablesOK' /\ late' \in [Contracts -> Nat]
    BY DEF IInv, TablesOK, HistoryOK, DocumentsOf, work, sharing
<1>3. Kept
    BY Versions DEF Kept, work, sharing, IInv
<1>4. RequestOK(request[w])'
    BY <1>1 DEF RequestOK, DocumentsOf, work, sharing
<1>5. w \notin overtaken' => Current(request[w])'
    BY <1>1 DEF Current, CanEdit, Todo, LinkedTo, work
<1>6. \A x \in Workers \ {w} : Fair(x)
    BY Overtaken DEF Fair, work
<1>7. overtaken' \subseteq Workers /\ (w \in overtaken' => Reads(request'[w]))
    BY <1>1, Overtaken, ReadersAre DEF IInv, HistoryOK, RequestsOK
<1>8. /\ request'[w].op = "view" => Active(request[w].link)'
      /\ \A l \in Links : Active(l) => Active(l)'
    BY <1>1 DEF Active, sharing
<1> QED BY <1>1, <1>2, <1>3, <1>4, <1>5, <1>6, <1>7, <1>8 DEF StepOf, Good

LEMMA IdleOK == Idle \in RequestOf /\ RequestOK(Idle) /\ Current(Idle) /\ ~Reads(Idle) /\ Idle.op = "none"
BY DEF RequestOf, RequestOK, Current, Reads, Idle

LEMMA ClosesOK ==
    ASSUME IInv, NEW w \in Workers, Close(w), UNCHANGED <<linked, roleOf, work, late, sharing>>
    PROVE  StepOf(w)
BY IdleOK, AsksOK DEF Close, Becomes

----------------------------------------------------------------------------
(***************************************************************************)
(* Acts and the assistant.                                                 *)
(***************************************************************************)
LEMMA DeedFields ==
    ASSUME NEW q \in ActOf, NEW d \in Deeds, NEW r, r = [q EXCEPT !.deed = d]
    PROVE  /\ r \in ActOf /\ r.op = q.op /\ r.step = q.step /\ r.may = q.may
           /\ r.role = q.role /\ r.contract = q.contract
BY DEF ActOf

LEMMA StepFields ==
    ASSUME NEW q \in ActOf, NEW k \in Steps, NEW r, r = [q EXCEPT !.step = k]
    PROVE  /\ r \in ActOf /\ r.op = q.op /\ r.step = k /\ r.may = q.may
           /\ r.role = q.role /\ r.contract = q.contract
BY DEF ActOf

LEMMA ActFields ==
    ASSUME NEW q \in ActOf
    PROVE  /\ LET r == [q EXCEPT !.may = TRUE]
              IN  /\ r \in ActOf /\ r.op = q.op /\ r.step = q.step /\ r.may = TRUE
                  /\ r.role = q.role /\ r.contract = q.contract
           /\ AfterTool(q) \in ActOf /\ AfterTool(q).op = q.op
           /\ AfterTool(q).step = None /\ AfterTool(q).may = FALSE
BY DEF ActOf, AfterTool

LEMMA LoadsAct ==
    ASSUME IInv, NEW w \in Workers, LoadForAct(w) \/ LoadForAssistant(w), UNCHANGED sharing
    PROVE  StepOf(w)
<1>1. PICK o \in {"act", "assistant"}, u \in Users, c \in Contracts, t \in SUBSET Tools,
           d \in Deeds \cup {None} : Begin(w, Asked(o, u, c, t, d))
    <2>1. CASE LoadForAct(w)
        BY <2>1 DEF LoadForAct
    <2>2. CASE LoadForAssistant(w)
        <3>1. PICK u \in Users, c \in Contracts : Begin(w, Asked("assistant", u, c, ai[c].tools, None))
            BY <2>2 DEF LoadForAssistant
        <3>2. ai[c] \in Configs \cup {DefaultConfig}
            BY DEF IInv, TablesOK
        <3>3. ai[c].tools \in SUBSET Tools
            BY <3>2, ConfigsAssumption DEF DefaultConfig
        <3> QED BY <3>1, <3>3
    <2> QED BY <2>1, <2>2
<1> DEFINE r == Asked(o, u, c, t, d)
<1>2. r \in ActOf
    BY DEF IInv, TablesOK, Asked, ActOf
<1>3. r.op = o /\ r.step = None /\ r.may = FALSE
    BY DEF Asked
<1>4. Becomes(w, r) /\ UNCHANGED access /\ request[w] = Idle
    BY <1>1 DEF Begin, Becomes, LoadForAct, LoadForAssistant
<1> HIDE DEF r
<1>5. RequestOK(r) /\ Current(r) /\ r \in RequestOf /\ r.op # "view"
    BY <1>2, <1>3 DEF RequestOK, Current, RequestOf
<1> QED BY <1>4, <1>5, AsksOK, IdleOK DEF access

LEMMA GoesOn ==
    ASSUME IInv, NEW w \in Workers, Acts(w), GoOn(w)
    PROVE  \E r \in RequestOf :
               /\ Becomes(w, r) /\ RequestOK(r) /\ Current(r) /\ ~Reads(r)
               /\ r.op \in {"none", "assistant"}
               /\ r = Idle \/ r.may = FALSE
<1> DEFINE q == request[w]
<1>1. q \in ActOf /\ q.op \in {"act", "assistant"}
    BY KindsDiffer DEF IInv, RequestsOK, Acts
<1>2. Becomes(w, After(q))
    BY DEF GoOn, Becomes
<1> HIDE DEF q
<1>3. CASE q.op = "act"
    BY <1>2, <1>3, IdleOK DEF After
<1>4. CASE q.op = "assistant"
    <2> DEFINE r == AfterTool(q)
    <2>1. /\ r \in ActOf /\ r.op = "assistant" /\ r.step = None /\ r.may = FALSE
          /\ Becomes(w, r)
        BY <1>1, <1>2, <1>4, ActFields DEF After
    <2> HIDE DEF r
    <2> QED BY <2>1 DEF RequestOf, RequestOK, Current, Reads
<1> QED BY <1>1, <1>3, <1>4

LEMMA ChecksOK ==
    ASSUME IInv, NEW w \in Workers,
           CallTool(w) \/ ReadStep(w) \/ CheckRoles(w) \/ Fail(w), UNCHANGED sharing
    PROVE  StepOf(w)
<1> DEFINE q == request[w]
<1>1. Acts(w) /\ q.op \in {"act", "assistant"} /\ q \in ActOf
    BY KindsDiffer
    DEF IInv, RequestsOK, CallTool, ReadStep, CheckRoles, ToBeChecked, Fail, Acts
<1>2. w \notin overtaken => Current(q)
    BY DEF IInv, RequestsOK
<1>3. CASE CallTool(w)
    <2>1. PICK d \in Deeds : Becomes(w, [q EXCEPT !.deed = d])
        BY <1>3 DEF CallTool, Becomes
    <2>2. UNCHANGED access
        BY <1>3 DEF CallTool
    <2> HIDE DEF q
    <2> DEFINE r == [q EXCEPT !.deed = d]
    <2>3. /\ r \in ActOf /\ r.op = q.op /\ r.step = q.step /\ r.may = q.may
          /\ r.role = q.role /\ r.contract = q.contract
        BY <1>1, DeedFields
    <2>4. Becomes(w, r)
        BY <2>1
    <2> HIDE DEF r
    <2>5. RequestOK(r) /\ r \in RequestOf /\ r.op # "view" /\ (Reads(q) => Reads(r))
        BY <1>1, <2>3 DEF RequestOK, RequestOf, Reads
    <2>6. w \notin overtaken => Current(r)
        BY <1>1, <1>2, <2>3 DEF Current
    <2> QED BY <2>2, <2>4, <2>5, <2>6, AsksOK DEF access, q
<1>4. CASE ReadStep(w)
    <2>1. /\ Becomes(w, [q EXCEPT !.step = place[q.contract]]) /\ ~q.may
          /\ UNCHANGED access
        BY <1>4 DEF ReadStep, ToBeChecked, Becomes
    <2> HIDE DEF q
    <2> DEFINE r == [q EXCEPT !.step = place[q.contract]]
    <2>2. place[q.contract] \in Steps
        BY <1>1 DEF IInv, TablesOK, ActOf
    <2>3. /\ r \in ActOf /\ r.op = q.op /\ r.step = place[q.contract] /\ r.may = q.may
          /\ r.role = q.role /\ r.contract = q.contract
        BY <1>1, <2>2, StepFields
    <2>4. Becomes(w, r)
        BY <2>1
    <2> HIDE DEF r
    <2>5. RequestOK(r) /\ r \in RequestOf /\ r.op # "view" /\ Reads(r)
        BY <1>1, <2>2, <2>3, NoneAssumption DEF RequestOK, RequestOf, Reads
    <2>6. Current(r)
        BY <1>1, <2>1, <2>3 DEF Current
    <2> QED BY <2>1, <2>4, <2>5, <2>6, AsksOK DEF access
<1>5. CASE CheckRoles(w)
    <2>1. /\ Becomes(w, [q EXCEPT !.may = TRUE]) /\ q.step # None
          /\ CanEdit(q.role, Owner[q.step]) /\ UNCHANGED access
        BY <1>5 DEF CheckRoles, Becomes
    <2> HIDE DEF q
    <2> DEFINE r == [q EXCEPT !.may = TRUE]
    <2>2. /\ r \in ActOf /\ r.op = q.op /\ r.step = q.step /\ r.may = TRUE
          /\ r.role = q.role /\ r.contract = q.contract
        BY <1>1, ActFields
    <2>3. Becomes(w, r)
        BY <2>1
    <2> HIDE DEF r
    <2>4. RequestOK(r) /\ r \in RequestOf /\ r.op # "view" /\ Reads(r)
        BY <1>1, <2>1, <2>2 DEF RequestOK, RequestOf, Reads
    <2>5. w \notin overtaken => Current(r)
        BY <1>1, <1>2, <2>1, <2>2 DEF Current
    <2> QED BY <2>1, <2>3, <2>4, <2>5, AsksOK DEF access
<1>6. CASE Fail(w)
    <2>1. /\ GoOn(w) /\ overtaken' = overtaken \ {w}
          /\ UNCHANGED <<linked, roleOf, work, late>>
        BY <1>6 DEF Fail
    <2>2. PICK r \in RequestOf :
              /\ Becomes(w, r) /\ RequestOK(r) /\ Current(r) /\ r.op \in {"none", "assistant"}
        BY <1>1, <2>1, GoesOn
    <2> QED BY <2>1, <2>2, AsksOK
<1> QED BY <1>3, <1>4, <1>5, <1>6

\* What every deed leaves behind.
LEMMA DeedOK ==
    ASSUME IInv, NEW w \in Workers, Acts(w), GoOn(w), Good, UNCHANGED <<linked, link>>,
           \/ overtaken' = overtaken \ {w} /\ UNCHANGED place
           \/ /\ overtaken' = (overtaken \cup ReadersOf(request[w].contract)) \ {w}
              /\ \A c \in Contracts \ {request[w].contract} : place'[c] = place[c]
    PROVE  StepOf(w)
<1>1. PICK r \in RequestOf :
          Becomes(w, r) /\ RequestOK(r) /\ Current(r) /\ r.op \in {"none", "assistant"}
          /\ ~Reads(r)
    BY GoesOn
<1>2. /\ request' \in [Workers -> RequestOf] /\ request'[w] = r
      /\ \A x \in Workers \ {w} : request'[x] = request[x]
    BY <1>1, BecomesTyped
<1>3. RequestOK(request[w])' /\ Current(request[w])'
    BY <1>1, <1>2 DEF RequestOK, Current, Reads
<1>4. \A x \in Workers : x \in overtaken => Reads(request[x])
    BY Overtaken
<1>5. \A x \in Workers : Acts(x) => request[x].contract \in Contracts
    BY Contract DEF Acts, IInv, RequestsOK
<1>6. ASSUME NEW x \in Workers \ {w}
      PROVE  Fair(x)
    BY <1>4, <1>5 DEF Fair, ReadersOf, Reads, Acts
<1>7. overtaken' \subseteq Workers /\ w \notin overtaken'
    BY ReadersAre DEF IInv, HistoryOK, RequestsOK, ReadersOf
<1>8. \A l \in Links : Active(l) => Active(l)'
    BY DEF Active
<1>9. request'[w].op # "view"
    BY <1>1, <1>2
<1> QED BY <1>2, <1>3, <1>6, <1>7, <1>8, <1>9 DEF StepOf

----------------------------------------------------------------------------
(***************************************************************************)
(* What the services do, whoever calls them.                               *)
(***************************************************************************)
LEMMA MoveKeeps ==
    ASSUME IInv, NEW c \in Contracts, NEW action, Move(c, action), UNCHANGED <<linked, roleOf, sharing>>
    PROVE  TablesOK' /\ Kept
<1>1. PICK k \in Steps : place' = [place EXCEPT ![c] = k]
    BY StepsAssumption DEF Move
<1>2. UNCHANGED <<documents, versions, ai>>
    BY DEF Move
<1>3. TablesOK'
    BY <1>1, <1>2 DEF IInv, TablesOK, DocumentsOf, sharing
<1>4. Kept
    BY <1>2, Versions DEF Kept, IInv, sharing
<1> QED BY <1>3, <1>4

LEMMA AddKeeps ==
    ASSUME IInv, NEW c \in Contracts, Add(c), UNCHANGED <<linked, roleOf, sharing>>
    PROVE  TablesOK' /\ Kept
<1>1. PICK d \in Documents \ documents : documents' = documents \cup {d}
    BY DEF Add
<1>2. UNCHANGED <<place, versions, ai>>
    BY DEF Add
<1>3. TablesOK'
    BY <1>1, <1>2 DEF IInv, TablesOK, DocumentsOf, sharing
<1>4. Kept
    BY <1>1, <1>2, Versions DEF Kept, IInv, sharing
<1> QED BY <1>3, <1>4

LEMMA AddVersionKeeps ==
    ASSUME IInv, NEW d, AddVersion(d), UNCHANGED <<linked, roleOf, sharing>>
    PROVE  TablesOK' /\ Kept
<1>1. /\ d \in documents /\ versions[d] < MaxVersions
      /\ versions' = [versions EXCEPT ![d] = @ + 1]
      /\ UNCHANGED <<place, documents, ai>>
    BY DEF AddVersion
<1>2. d \in Documents
    BY <1>1 DEF IInv, TablesOK
<1>3. \A x \in Documents : versions[x] \in Nat /\ versions[x] <= MaxVersions
    BY Versions DEF IInv
<1>4. \A x \in Documents : versions'[x] = IF x = d THEN versions[x] + 1 ELSE versions[x]
    BY <1>1 DEF IInv, TablesOK
<1>5. \A x \in Documents : /\ versions'[x] \in 0..MaxVersions /\ versions'[x] \in Nat
                           /\ versions[x] <= versions'[x]
    BY <1>1, <1>3, <1>4, VersionsAssumption
<1>6. versions' \in [Documents -> 0..MaxVersions]
    BY <1>1, <1>5 DEF IInv, TablesOK
<1>7. \A x \in Documents \ documents : versions'[x] = 0
    BY <1>1, <1>4 DEF IInv, TablesOK
<1>8. /\ summary \in [Documents -> Nat]
      /\ \A x \in Documents : summary[x] <= versions'[x]
    BY <1>3, <1>5 DEF IInv, TablesOK
<1>9. TablesOK'
    BY <1>1, <1>6, <1>7, <1>8 DEF IInv, TablesOK, DocumentsOf, sharing
<1>10. Kept
    BY <1>1, <1>5 DEF Kept, sharing
<1> QED BY <1>9, <1>10

LEMMA ConfigureKeeps ==
    ASSUME IInv, NEW c \in Contracts, NEW config \in Configs, Configure(c, config),
           UNCHANGED <<linked, roleOf, sharing>>
    PROVE  TablesOK' /\ Kept
<1>1. ai' = [ai EXCEPT ![c] = config] /\ UNCHANGED <<place, documents, versions>>
    BY DEF Configure
<1>2. TablesOK'
    BY <1>1 DEF IInv, TablesOK, DocumentsOf, sharing
<1>3. Kept
    BY <1>1, Versions DEF Kept, IInv, sharing
<1> QED BY <1>2, <1>3

\* How late changes in a deed of w.
LEMMA LateIs ==
    ASSUME IInv, NEW w \in Workers, Acts(w), NEW n \in Nat, late' = LateWith(w, n)
    PROVE  /\ late' \in [Contracts -> Nat]
           /\ \A c \in Contracts : c # request[w].contract => late'[c] = late[c]
           /\ LET q == request[w]
              IN  late'[q.contract] =
                      IF CanEdit(q.role, Owner[place[q.contract]]) THEN n ELSE n + 1
<1>1. request[w].contract \in Contracts
    BY Contract DEF IInv, RequestsOK, Acts
<1>2. late \in [Contracts -> Nat]
    BY DEF IInv, HistoryOK
<1> QED BY <1>1, <1>2 DEF LateWith

LEMMA DeedsKeep ==
    ASSUME IInv, NEW w \in Workers, UNCHANGED sharing,
           Advance(w) \/ AddDocument(w) \/ UploadVersion(w) \/ SetAiConfig(w)
    PROVE  StepOf(w)
<1> DEFINE q == request[w]
<1>1. Acts(w) /\ GoOn(w) /\ q.deed # None /\ UNCHANGED <<linked, roleOf, link>>
    BY DEF Advance, AddDocument, UploadVersion, SetAiConfig, DoesInPlace, Does, sharing
<1>2. q \in ActOf /\ q.deed \in Deeds /\ q.contract \in Contracts
    <2>1. q \in ActOf
        BY <1>1, KindsDiffer DEF IInv, RequestsOK, Acts
    <2> QED BY <1>1, <2>1 DEF ActOf
<1>3. late[q.contract] \in Nat
    BY <1>2 DEF IInv, HistoryOK
<1>4. CASE Advance(w)
    <2>1. late' \in [Contracts -> Nat]
        BY <1>1, <1>4, LateIs DEF Advance
    <2>2. TablesOK' /\ Kept
        BY <1>1, <1>2, <1>4, MoveKeeps DEF Advance
    <2>3. /\ overtaken' = (overtaken \cup ReadersOf(q.contract)) \ {w}
          /\ \A c \in Contracts \ {q.contract} : place'[c] = place[c]
        BY <1>4 DEF Advance, Move, IInv, TablesOK
    <2> QED BY <1>1, <2>1, <2>2, <2>3, DeedOK DEF Good
<1>5. CASE AddDocument(w) \/ UploadVersion(w) \/ SetAiConfig(w)
    <2>1. late' \in [Contracts -> Nat] /\ overtaken' = overtaken \ {w} /\ UNCHANGED place
        BY <1>1, <1>3, <1>5, LateIs
        DEF AddDocument, UploadVersion, SetAiConfig, DoesInPlace, Add, AddVersion, Configure
    <2>2. CASE AddDocument(w)
        BY <1>1, <1>2, <2>1, <2>2, AddKeeps, DeedOK DEF AddDocument, Good
    <2>3. CASE UploadVersion(w)
        BY <1>1, <2>1, <2>3, AddVersionKeeps, DeedOK DEF UploadVersion, Good
    <2>4. CASE SetAiConfig(w)
        <3>1. q.deed.tool = "set_ai_config" /\ Configure(q.contract, q.deed.config)
            BY <2>4 DEF SetAiConfig, DoesInPlace, Does
        <3>2. q.deed.config \in Configs
            BY <1>2, <3>1 DEF Deeds
        <3> QED BY <1>1, <1>2, <2>1, <3>1, <3>2, ConfigureKeeps, DeedOK DEF Good
    <2> QED BY <1>5, <2>2, <2>3, <2>4
<1> QED BY <1>4, <1>5

LEMMA ApiKeeps ==
    ASSUME IInv, UNCHANGED sharing,
           \/ \E c \in Contracts : ApiTransition(c) \/ ApiAddDocument(c)
           \/ \E d \in Documents : ApiUploadVersion(d)
    PROVE  StepOfNobody
<1>1. ASSUME NEW c \in Contracts, ApiTransition(c)
      PROVE  StepOfNobody
    <2>1. PICK e \in Edges : Move(c, e.action)
        BY <1>1 DEF ApiTransition
    <2>2. /\ overtaken' = overtaken \cup ReadersOf(c) /\ late' = [late EXCEPT ![c] = 0]
          /\ UNCHANGED <<linked, roleOf, request>>
        BY <1>1 DEF ApiTransition
    <2>3. TablesOK' /\ Kept
        BY <2>1, <2>2, MoveKeeps
    <2>4. \A b \in Contracts \ {c} : place'[b] = place[b]
        BY <2>1 DEF Move, IInv, TablesOK
    <2>5. \A x \in Workers : x \in overtaken => Reads(request[x])
        BY Overtaken
    <2>6. \A x \in Workers : Acts(x) => request[x].contract \in Contracts
        BY Contract DEF Acts, IInv, RequestsOK
    <2>7. ASSUME NEW x \in Workers
          PROVE  Fair(x)
        BY <2>2, <2>4, <2>5, <2>6 DEF Fair, ReadersOf, Reads, Acts
    <2>8. overtaken' \subseteq Workers
        BY <2>2, ReadersAre DEF IInv, HistoryOK, RequestsOK, ReadersOf
    <2>9. late' \in [Contracts -> Nat]
        BY <2>2 DEF IInv, HistoryOK
    <2> QED BY <2>2, <2>3, <2>7, <2>8, <2>9 DEF StepOfNobody, Good
<1>2. ASSUME UNCHANGED <<linked, roleOf, request, overtaken, late, place>>, TablesOK', Kept
      PROVE  StepOfNobody
    <2>1. \A x \in Workers : Fair(x)
        BY <1>2, Overtaken DEF Fair
    <2>2. overtaken' \subseteq Workers /\ late' \in [Contracts -> Nat]
        BY <1>2, ReadersAre DEF IInv, HistoryOK, RequestsOK
    <2> QED BY <1>2, <2>1, <2>2 DEF StepOfNobody, Good
<1>3. ASSUME NEW c \in Contracts, ApiAddDocument(c)
      PROVE  StepOfNobody
    BY <1>2, <1>3, AddKeeps DEF ApiAddDocument, Add
<1>4. ASSUME NEW d \in Documents, ApiUploadVersion(d)
      PROVE  StepOfNobody
    BY <1>2, <1>4, AddVersionKeeps DEF ApiUploadVersion, AddVersion
<1> QED BY <1>1, <1>3, <1>4

----------------------------------------------------------------------------
(***************************************************************************)
(* Checklists, and the admins' forms.                                      *)
(***************************************************************************)
LEMMA LinkingKeeps ==
    ASSUME IInv, linked' \in [Roles -> Agents \cup {None}], NEW others, others \subseteq Readers,
           Linking(others), UNCHANGED sharing
    PROVE  Good /\ overtaken' \subseteq Workers
<1>1. UNCHANGED <<roleOf, work>> /\ late' = [c \in Contracts |-> 0]
    BY DEF Linking
<1>2. TablesOK'
    BY <1>1 DEF IInv, TablesOK, DocumentsOf, work, sharing
<1>3. Kept
    BY <1>1, Versions DEF Kept, IInv, work, sharing
<1>4. overtaken' \subseteq Workers
    BY ReadersAre DEF Linking, IInv, HistoryOK, RequestsOK
<1> QED BY <1>1, <1>2, <1>3, <1>4 DEF Good

LEMMA ChecklistsKeep ==
    ASSUME IInv, NEW w \in Workers, UNCHANGED sharing,
           LoadForReconcile(w) \/ Relink(w) \/ FinishReconcile(w) \/ Stop(w)
    PROVE  StepOf(w)
<1>1. CASE LoadForReconcile(w)
    <2>1. PICK a \in Agents, ticked \in SUBSET Roles :
              Begin(w, [op |-> "reconcile", agent |-> a, ticked |-> ticked,
                        todo |-> Todo(a, ticked)])
        BY <1>1 DEF LoadForReconcile
    <2> DEFINE r == [op |-> "reconcile", agent |-> a, ticked |-> ticked,
                     todo |-> Todo(a, ticked)]
    <2>2. r \in RequestOf
        BY DEF RequestOf, ReconcileOf, Todo, LinkedTo
    <2>3. RequestOK(r) /\ Current(r) /\ Reads(r) /\ r.op # "view"
        BY DEF RequestOK, Current, Reads
    <2>4. Becomes(w, r)
        BY <2>1 DEF Begin, Becomes
    <2>5. UNCHANGED access
        BY <1>1 DEF LoadForReconcile
    <2> HIDE DEF r
    <2> QED BY <2>2, <2>3, <2>4, <2>5, AsksOK DEF access
<1>2. CASE Relink(w)
    <2> DEFINE q == request[w]
    <2>1. q.op = "reconcile" /\ q \in ReconcileOf
        BY <1>2, KindsDiffer DEF Relink, IInv, RequestsOK
    <2>2. PICK x \in q.todo :
              /\ linked' = [linked EXCEPT ![x] = IF x \in q.ticked THEN q.agent ELSE None]
              /\ request' = [request EXCEPT ![w].todo = @ \ {x}]
        BY <1>2 DEF Relink
    <2>3. Linking(Readers \ {w})
        BY <1>2 DEF Relink
    <2>4. w \notin overtaken => q.todo = Todo(q.agent, q.ticked)
        BY <2>1 DEF IInv, RequestsOK, Current
    <2> DEFINE r == [q EXCEPT !.todo = @ \ {x}]
    <2>5. Becomes(w, r)
        BY <2>2 DEF Becomes
    <2> HIDE DEF q
    <2>6. /\ r \in ReconcileOf /\ r.op = "reconcile" /\ r.agent = q.agent
          /\ r.ticked = q.ticked /\ r.todo = q.todo \ {x}
        BY <2>1 DEF ReconcileOf
    <2> HIDE DEF r
    <2>7. x \in Roles /\ q.agent \in Agents /\ q.ticked \subseteq Roles
        BY <2>1 DEF ReconcileOf
    <2>8. linked \in [Roles -> Agents \cup {None}]
        BY DEF IInv, TablesOK
    <2>9. \A y \in Roles : linked'[y] = IF y = x THEN IF x \in q.ticked THEN q.agent ELSE None
                                        ELSE linked[y]
        BY <2>2, <2>7, <2>8
    <2>10. linked' \in [Roles -> Agents \cup {None}]
        BY <2>2, <2>7, <2>8
    <2>11. Good /\ overtaken' \subseteq Workers
        BY <2>3, <2>10, LinkingKeeps
    <2>12. r \in RequestOf
        BY <2>6 DEF RequestOf
    <2>13. /\ request' \in [Workers -> RequestOf] /\ request'[w] = r
           /\ \A y \in Workers \ {w} : request'[y] = request[y]
        BY <2>5, <2>12, BecomesTyped
    <2>14. RequestOK(request[w])' /\ Reads(request'[w]) /\ request'[w].op # "view"
        BY <2>6, <2>13 DEF RequestOK, Reads
    <2>15. w \notin overtaken' => w \notin overtaken
        BY <2>3 DEF Linking
    <2>16. ASSUME w \notin overtaken'
           PROVE  r.todo = (r.ticked \ {y \in Roles : linked'[y] = r.agent})
                           \cup ({y \in Roles : linked'[y] = r.agent} \ r.ticked)
        <3>1. q.todo = (q.ticked \ {y \in Roles : linked[y] = q.agent})
                       \cup ({y \in Roles : linked[y] = q.agent} \ q.ticked)
            BY <2>4, <2>15, <2>16 DEF Todo, LinkedTo
        <3>2. q.agent # None
            BY <2>7, NoneAssumption
        <3> QED BY <2>6, <2>7, <2>9, <3>1, <3>2
    <2>17. w \notin overtaken' => Current(request[w])'
        BY <2>6, <2>13, <2>16 DEF Current, Todo, LinkedTo
    <2>18. \A y \in Workers \ {w} : Fair(y)
        BY <2>3, ReadersAre DEF Fair, Linking, IInv, RequestsOK, HistoryOK
    <2>19. \A l \in Links : Active(l) => Active(l)'
        BY DEF Active, sharing
    <2> QED BY <2>11, <2>13, <2>14, <2>17, <2>18, <2>19 DEF StepOf
<1>3. CASE FinishReconcile(w)
    BY <1>3, ClosesOK DEF FinishReconcile
<1>4. CASE Stop(w)
    BY <1>4, ClosesOK DEF Stop
<1> QED BY <1>1, <1>2, <1>3, <1>4

LEMMA FormsKeep ==
    ASSUME IInv,
           \/ UNCHANGED sharing /\ \E r \in Roles : SetRoleAgent(r)
           \/ UNCHANGED sharing /\ \E u \in Users : SetUserRole(u)
           \/ \E l \in Links : Deactivate(l) \/ Unlock(l)
    PROVE  StepOfNobody
<1>1. ASSUME NEW r \in Roles, SetRoleAgent(r), UNCHANGED sharing
      PROVE  StepOfNobody
    <2>1. PICK a \in Agents \cup {None} : linked' = [linked EXCEPT ![r] = a]
        BY <1>1 DEF SetRoleAgent
    <2>2. Linking(Readers) /\ UNCHANGED request
        BY <1>1 DEF SetRoleAgent
    <2>3. linked' \in [Roles -> Agents \cup {None}]
        BY <2>1 DEF IInv, TablesOK
    <2>4. Good /\ overtaken' \subseteq Workers
        BY <1>1, <2>2, <2>3, LinkingKeeps
    <2>5. \A x \in Workers : Fair(x)
        BY <2>2, ReadersAre DEF Fair, Linking, IInv, RequestsOK, HistoryOK
    <2> QED BY <2>2, <2>4, <2>5 DEF StepOfNobody
<1>2. ASSUME Good, UNCHANGED <<linked, place, request, overtaken>>
      PROVE  StepOfNobody
    <2>1. \A x \in Workers : Fair(x)
        BY <1>2, Overtaken DEF Fair
    <2>2. overtaken' \subseteq Workers
        BY <1>2, ReadersAre DEF IInv, HistoryOK, RequestsOK
    <2> QED BY <1>2, <2>1, <2>2 DEF StepOfNobody
<1>3. ASSUME NEW u \in Users, SetUserRole(u), UNCHANGED sharing
      PROVE  StepOfNobody
    <2>1. roleOf' \in [Users -> Roles] /\ UNCHANGED <<linked, work, request, overtaken, late>>
        BY <1>3 DEF SetUserRole, IInv, TablesOK
    <2>2. TablesOK' /\ late' \in [Contracts -> Nat]
        BY <1>3, <2>1 DEF IInv, TablesOK, HistoryOK, DocumentsOf, work, sharing
    <2>3. Kept
        BY <1>3, <2>1, Versions DEF Kept, IInv, work, sharing
    <2> QED BY <1>2, <2>1, <2>2, <2>3 DEF Good, work
<1>4. ASSUME NEW l \in Links, Deactivate(l)
      PROVE  StepOfNobody
    <2>1. /\ link[l] # None /\ link' = [link EXCEPT ![l].active = FALSE]
          /\ UNCHANGED <<access, request, unlocked, served, summary>>
        BY <1>4 DEF Deactivate, Active
    <2> DEFINE k == [link[l] EXCEPT !.active = FALSE]
    <2>2. link[l] \in LinkOf /\ link \in [Links -> LinkOf \cup {None}]
        BY <2>1 DEF IInv, TablesOK
    <2>3. /\ k \in LinkOf /\ k.named = link[l].named /\ k.contract = link[l].contract
          /\ k.password = link[l].password
        BY <2>2 DEF LinkOf
    <2>4. \A m \in Links : link'[m] = IF m = l THEN k ELSE link[m]
        BY <2>1, <2>2
    <2>5. link' \in [Links -> LinkOf \cup {None}]
        BY <2>1, <2>2, <2>3
    <2> HIDE DEF k
    <2>6. UNCHANGED <<linked, roleOf, place, documents, versions, ai, overtaken, late>>
        BY <2>1 DEF access, work
    <2>7. \A m \in Links : link'[m] # None => link'[m].named \subseteq DocumentsOf(link'[m].contract)
        BY <2>1, <2>3, <2>4 DEF IInv, TablesOK
    <2>8. TablesOK'
        BY <2>1, <2>5, <2>6, <2>7 DEF IInv, TablesOK, DocumentsOf
    <2>9. Kept
        <3>1. k # None
            BY <2>3, NoLinkAssumption
        <3>2. \A m \in Links : link[m] # None =>
                  link'[m] # None /\ link'[m].password = link[m].password
            BY <2>3, <2>4, <3>1
        <3> QED BY <2>1, <2>6, <3>2, Versions DEF Kept, IInv
    <2> QED BY <1>2, <2>1, <2>6, <2>8, <2>9 DEF Good, IInv, HistoryOK
<1>5. ASSUME NEW l \in Links, Unlock(l)
      PROVE  StepOfNobody
    <2>1. /\ unlocked' = unlocked \cup {l}
          /\ UNCHANGED <<access, request, link, served, summary>>
        BY <1>5 DEF Unlock
    <2>2. UNCHANGED <<linked, roleOf, place, documents, versions, ai, overtaken, late>>
        BY <2>1 DEF access, work
    <2>3. TablesOK'
        BY <2>1, <2>2 DEF IInv, TablesOK, DocumentsOf
    <2>4. Kept
        BY <2>1, <2>2, Versions DEF Kept, IInv
    <2> QED BY <1>2, <2>1, <2>2, <2>3, <2>4 DEF Good, IInv, HistoryOK
<1> QED BY <1>1, <1>3, <1>4, <1>5

----------------------------------------------------------------------------
(***************************************************************************)
(* Share links and summaries.                                              *)
(***************************************************************************)
\* A request of w ends, and no other request depends on what changed.
LEMMA EndsOK ==
    ASSUME IInv, NEW w \in Workers, Close(w), UNCHANGED <<linked, place, late>>,
           TablesOK', Kept, \A l \in Links : Active(l) => Active(l)'
    PROVE  StepOf(w)
<1>1. Becomes(w, Idle) /\ overtaken' = overtaken \ {w}
    BY DEF Close, Becomes
<1>2. /\ request' \in [Workers -> RequestOf] /\ request'[w] = Idle
      /\ \A x \in Workers \ {w} : request'[x] = request[x]
    BY <1>1, IdleOK, BecomesTyped
<1>3. RequestOK(request[w])' /\ Current(request[w])' /\ request'[w].op # "view"
    BY <1>2 DEF RequestOK, Current, Idle
<1>4. \A x \in Workers \ {w} : Fair(x)
    BY <1>1, Overtaken DEF Fair
<1>5. overtaken' \subseteq Workers /\ w \notin overtaken'
    BY <1>1, ReadersAre DEF IInv, HistoryOK, RequestsOK
<1> QED BY <1>2, <1>3, <1>4, <1>5 DEF StepOf, Good, IInv, HistoryOK

LEMMA RoomLoads ==
    ASSUME IInv, NEW w \in Workers,
           LoadForShare(w) \/ LoadForView(w) \/ LoadForSummary(w)
    PROVE  StepOf(w)
<1>1. UNCHANGED <<access, sharing>> /\ request[w] = Idle
    BY DEF LoadForShare, LoadForView, LoadForSummary
<1>2. SUFFICES \E r \in RequestOf :
          /\ Becomes(w, r) /\ RequestOK(r) /\ Current(r)
          /\ r.op = "view" => Active(r.link)
    BY <1>1, AsksOK, IdleOK DEF access
<1>3. CASE LoadForShare(w)
    <2>1. PICK c \in Contracts, scope \in {"contract", "documents"}, password \in BOOLEAN :
              \E named \in Choices(c, scope) :
                  Begin(w, [op |-> "share", contract |-> c, scope |-> scope,
                            named |-> named, password |-> password])
        BY <1>3 DEF LoadForShare
    <2>2. PICK named \in Choices(c, scope) :
              Begin(w, [op |-> "share", contract |-> c, scope |-> scope,
                        named |-> named, password |-> password])
        BY <2>1
    <2>3. named \subseteq DocumentsOf(c) /\ named \subseteq Documents
        BY DEF Choices, ValidIds
    <2> DEFINE r == [op |-> "share", contract |-> c, scope |-> scope,
                     named |-> named, password |-> password]
    <2>4. r \in RequestOf
        BY <2>3 DEF RequestOf, ShareOf
    <2>5. RequestOK(r) /\ Current(r) /\ r.op # "view"
        BY <2>3 DEF RequestOK, Current
    <2> QED BY <2>2, <2>4, <2>5 DEF Begin, Becomes
<1>4. CASE LoadForView(w)
    <2>1. PICK l \in Links : Opens(l) /\ Begin(w, [op |-> "view", link |-> l])
        BY <1>4 DEF LoadForView
    <2> DEFINE r == [op |-> "view", link |-> l]
    <2>2. r \in RequestOf
        BY DEF RequestOf, ViewOf
    <2>3. RequestOK(r) /\ Current(r) /\ Active(r.link)
        BY <2>1 DEF RequestOK, Current, Opens, Active
    <2> QED BY <2>1, <2>2, <2>3 DEF Begin, Becomes
<1>5. CASE LoadForSummary(w)
    <2>1. PICK d \in documents :
              /\ versions[d] > 0
              /\ Begin(w, [op |-> "summarize", document |-> d, version |-> versions[d]])
        BY <1>5 DEF LoadForSummary
    <2> DEFINE r == [op |-> "summarize", document |-> d, version |-> versions[d]]
    <2>2. d \in Documents
        BY DEF IInv, TablesOK
    <2>3. versions[d] \in 1..MaxVersions
        BY <2>1, <2>2, Versions, VersionsAssumption DEF IInv
    <2>4. r \in RequestOf
        BY <2>2, <2>3 DEF RequestOf, SummarizeOf
    <2>5. RequestOK(r) /\ Current(r) /\ r.op # "view"
        BY <2>3 DEF RequestOK, Current
    <2> QED BY <2>1, <2>4, <2>5 DEF Begin, Becomes
<1> QED BY <1>3, <1>4, <1>5

LEMMA RoomCommits ==
    ASSUME IInv, NEW w \in Workers, CommitShare(w) \/ Serve(w) \/ CommitSummary(w)
    PROVE  StepOf(w)
<1> DEFINE q == request[w]
<1>1. Close(w) /\ UNCHANGED <<linked, roleOf, place, documents, versions, ai, late>>
    BY DEF CommitShare, Serve, CommitSummary, work
<1>2. q \in RequestOf /\ RequestOK(q)
    BY DEF IInv, RequestsOK
<1>3. SUFFICES TablesOK' /\ Kept /\ \A l \in Links : Active(l) => Active(l)'
    BY <1>1, EndsOK
<1>4. CASE CommitShare(w)
    <2>1. q.op = "share" /\ UNCHANGED <<unlocked, served, summary>>
        BY <1>4 DEF CommitShare
    <2> DEFINE k == [contract |-> q.contract, scope |-> q.scope, named |-> q.named,
                     password |-> q.password, active |-> TRUE]
    <2>2. PICK l \in Links : link[l] = None /\ link' = [link EXCEPT ![l] = k]
        BY <1>4 DEF CommitShare
    <2>3. k \in LinkOf /\ k.named \subseteq DocumentsOf(k.contract)
        <3>1. q \in ShareOf
            BY <1>2, <2>1, KindsDiffer
        <3>2. q.named \subseteq DocumentsOf(q.contract)
            BY <1>2, <2>1 DEF RequestOK
        <3> HIDE DEF q
        <3> QED BY <3>1, <3>2 DEF ShareOf, LinkOf
    <2> HIDE DEF k
    <2>4. \A m \in Links : link'[m] = IF m = l THEN k ELSE link[m]
        BY <2>2 DEF IInv, TablesOK
    <2>5. link' \in [Links -> LinkOf \cup {None}]
        BY <2>2, <2>3 DEF IInv, TablesOK
    <2>6. \A m \in Links : link'[m] # None => link'[m].named \subseteq DocumentsOf(link'[m].contract)
        BY <2>3, <2>4 DEF IInv, TablesOK
    <2>7. TablesOK'
        BY <1>1, <2>1, <2>5, <2>6 DEF IInv, TablesOK, DocumentsOf
    <2>8. Kept
        BY <1>1, <2>1, <2>2, <2>4, Versions DEF IInv, Kept
    <2>9. \A m \in Links : Active(m) => Active(m)'
        BY <2>2, <2>4 DEF Active
    <2> QED BY <2>7, <2>8, <2>9
<1>5. CASE Serve(w)
    <2>1. q.op = "view" /\ UNCHANGED <<link, unlocked, summary>>
        BY <1>5 DEF Serve
    <2>2. PICK d \in documents : served' = served \cup {<<q.link, d>>}
        BY <1>5 DEF Serve, DocumentsOf
    <2>3. q.link \in Links
        BY <1>2, <2>1, KindsDiffer DEF ViewOf
    <2>4. d \in Documents
        BY DEF IInv, TablesOK
    <2> HIDE DEF q
    <2>5. TablesOK'
        BY <1>1, <2>1, <2>2, <2>3, <2>4 DEF IInv, TablesOK, DocumentsOf
    <2>6. Kept
        BY <1>1, <2>1, Versions DEF IInv, Kept
    <2> QED BY <2>1, <2>5, <2>6 DEF Active
<1>6. CASE CommitSummary(w)
    <2>1. /\ q.op = "summarize" /\ UNCHANGED <<link, unlocked, served>>
          /\ summary' = [summary EXCEPT ![q.document] = q.version]
        BY <1>6 DEF CommitSummary
    <2>2. q \in SummarizeOf /\ q.version <= versions[q.document]
        BY <1>2, <2>1, KindsDiffer DEF RequestOK
    <2>3. q.document \in Documents /\ q.version \in Nat
        BY <2>2, VersionsAssumption DEF SummarizeOf
    <2> HIDE DEF q
    <2>4. \A d \in Documents : summary'[d] = IF d = q.document THEN q.version ELSE summary[d]
        BY <2>1 DEF IInv, TablesOK
    <2>5. summary' \in [Documents -> Nat] /\ \A d \in Documents : summary'[d] <= versions[d]
        BY <2>1, <2>2, <2>3, <2>4 DEF IInv, TablesOK
    <2>6. TablesOK'
        BY <1>1, <2>1, <2>5 DEF IInv, TablesOK, DocumentsOf
    <2>7. Kept
        BY <1>1, <2>1, Versions DEF IInv, Kept
    <2> QED BY <2>1, <2>6, <2>7 DEF Active
<1> QED BY <1>4, <1>5, <1>6

----------------------------------------------------------------------------
(***************************************************************************)
(* The invariant.                                                          *)
(***************************************************************************)
LEMMA InitInv == Init => IInv
<1> SUFFICES ASSUME Init PROVE IInv
    OBVIOUS
<1>1. {MainDocument[c] : c \in Contracts} \subseteq Documents
    BY DocumentsAssumption
<1>2. TablesOK
    BY <1>1, StepsAssumption, VersionsAssumption DEF Init, AccessInit, TablesOK
<1>3. \A w \in Workers : request[w] = Idle
    BY DEF Init
<1>4. RequestsOK
    BY <1>3, IdleOK DEF Init, RequestsOK, ViewOK
<1>5. HistoryOK
    BY DEF Init, AccessInit, HistoryOK
<1> QED BY <1>2, <1>4, <1>5 DEF IInv

LEMMA StepInv == IInv /\ [Next]_vars => IInv'
<1> SUFFICES ASSUME IInv, [Next]_vars PROVE IInv'
    OBVIOUS
<1>1. CASE UNCHANGED vars
    <2>1. TablesOK' /\ HistoryOK'
        BY <1>1 DEF vars, access, work, sharing, IInv, TablesOK, HistoryOK, DocumentsOf, Readers,
                    ReadersOf, ViewsOf, Acts
    <2>2. RequestsOK'
        BY <1>1 DEF vars, access, work, sharing, IInv, RequestsOK, RequestOK, ViewOK, Current,
                    Active, CanEdit, Todo, LinkedTo, DocumentsOf
    <2> QED BY <2>1, <2>2 DEF IInv
<1>2. CASE AccessNext /\ UNCHANGED sharing /\ Watched
    <2>1. ASSUME NEW w \in Workers,
                 \/ LoadForReconcile(w) \/ Relink(w) \/ FinishReconcile(w)
                 \/ LoadForAct(w) \/ LoadForAssistant(w) \/ CallTool(w)
                 \/ ReadStep(w) \/ CheckRoles(w) \/ Fail(w) \/ Stop(w)
                 \/ Advance(w) \/ AddDocument(w) \/ UploadVersion(w) \/ SetAiConfig(w)
          PROVE  StepOf(w)
        BY <1>2, <2>1, ChecklistsKeep, LoadsAct, ChecksOK, DeedsKeep
    <2>2. CASE (\E r \in Roles : SetRoleAgent(r)) \/ (\E u \in Users : SetUserRole(u))
        BY <1>2, <2>2, FormsKeep, StepsKeep
    <2>3. CASE \/ \E c \in Contracts : ApiTransition(c) \/ ApiAddDocument(c)
               \/ \E d \in Documents : ApiUploadVersion(d)
        BY <1>2, <2>3, ApiKeeps, StepsKeep
    <2> QED BY <1>2, <2>1, <2>2, <2>3, StepsKeep DEF AccessNext
<1>3. CASE RoomNext /\ Watched
    <2>1. ASSUME NEW w \in Workers,
                 \/ LoadForShare(w) \/ CommitShare(w) \/ LoadForView(w) \/ Serve(w)
                 \/ LoadForSummary(w) \/ CommitSummary(w)
          PROVE  StepOf(w)
        BY <2>1, RoomLoads, RoomCommits
    <2>2. CASE \E l \in Links : Deactivate(l) \/ Unlock(l)
        BY <1>3, <2>2, FormsKeep, StepsKeep
    <2> QED BY <1>3, <2>1, <2>2, StepsKeep DEF RoomNext
<1> QED BY <1>1, <1>2, <1>3 DEF Next

\* What requests read of documents, versions, passwords and unlocked links is
\* always still true, and what they read of a step and of the roles' links is
\* unless they were overtaken.
THEOREM Invariance == Spec => []IInv
BY InitInv, StepInv, PTL DEF Spec

\* The rows and requests of contracts' pages have their types: a link names
\* documents of its contract, a summary is of a version the document has.
THEOREM TypeCorrect == Spec => []TypeOK
BY Invariance, InvTyped, PTL

----------------------------------------------------------------------------
(***************************************************************************)
(* What a step may do.                                                     *)
(***************************************************************************)
\* A check that was not overtaken is still true.
LEMMA ChecksHold ==
    ASSUME IInv, NEW w \in Workers, Acts(w), request[w].may, w \notin overtaken
    PROVE  CanEdit(request[w].role, Owner[place[request[w].contract]])
BY DEF IInv, RequestsOK, Current, Acts

\* A deed of w ends its request, or the tool call.
LEMMA DeedEnds ==
    ASSUME IInv, NEW w \in Workers, NEW tool, Does(w, tool)
    PROVE  /\ Acts(w) /\ request[w].may
           /\ request'[w] # request[w]
           /\ \A x \in Workers \ {w} : request'[x] = request[x]
<1>1. Acts(w) /\ request[w].may /\ GoOn(w)
    BY DEF Does
<1>2. PICK r \in RequestOf : Becomes(w, r) /\ (r = Idle \/ r.may = FALSE)
    BY <1>1, GoesOn
<1>3. request[w] # Idle
    BY <1>1 DEF Acts, Idle
<1>4. request'[w] = r /\ \A x \in Workers \ {w} : request'[x] = request[x]
    BY <1>2, BecomesTyped
<1> QED BY <1>1, <1>2, <1>3, <1>4

\* The contracts are changed by deeds and by the JSON API alone.
LEMMA WorkIsDone ==
    ASSUME [Next]_vars, work' # work
    PROVE  \/ \E x \in Workers : Advance(x) \/ AddDocument(x) \/ UploadVersion(x) \/ SetAiConfig(x)
           \/ \E c \in Contracts : ApiTransition(c) \/ ApiAddDocument(c)
           \/ \E d \in Documents : ApiUploadVersion(d)
BY DEF Next, AccessNext, RoomNext, vars, access, sharing, Close, Linking, LoadForReconcile, Relink,
       FinishReconcile, LoadForAct, LoadForAssistant, CallTool, ReadStep, CheckRoles, Fail,
       Stop, SetRoleAgent, SetUserRole, LoadForShare, CommitShare, LoadForView, Serve,
       LoadForSummary, CommitSummary, Deactivate, Unlock

LEMMA ApiAsksNobody ==
    ASSUME \/ \E c \in Contracts : ApiTransition(c) \/ ApiAddDocument(c)
           \/ \E d \in Documents : ApiUploadVersion(d)
    PROVE  UNCHANGED request
BY DEF ApiTransition, ApiAddDocument, ApiUploadVersion

LEMMA DeedsAreDone ==
    ASSUME IInv, NEW x \in Workers,
           Advance(x) \/ AddDocument(x) \/ UploadVersion(x) \/ SetAiConfig(x)
    PROVE  /\ Acts(x) /\ request[x].may /\ request'[x] # request[x]
           /\ \A w \in Workers \ {x} : request'[w] = request[w]
BY DeedEnds DEF Advance, AddDocument, UploadVersion, SetAiConfig, DoesInPlace

\* Whatever an act or a tool call does, it does for a user who is entitled, at
\* that moment, to the contract it names, unless the check was overtaken or the
\* user's role changed.
THEOREM DeedsEntitled == Spec => DeedsAreEntitled
<1>1. ASSUME IInv, [Next]_vars, NEW w \in Workers, Acts(w), request'[w] # request[w],
             work' # work, w \notin overtaken, request[w].role = roleOf[request[w].user]
      PROVE  Entitled(request[w].user, request[w].contract)
    <2>1. PICK x \in Workers : Advance(x) \/ AddDocument(x) \/ UploadVersion(x) \/ SetAiConfig(x)
        BY <1>1, WorkIsDone, ApiAsksNobody
    <2>2. request[w].may
        BY <1>1, <2>1, DeedsAreDone
    <2> QED BY <1>1, <2>2, ChecksHold DEF Entitled
<1>2. IInv /\ [Next]_vars =>
          [ \A w \in Workers :
                /\ Acts(w) /\ request'[w] # request[w] /\ work' # work
                /\ w \notin overtaken
                /\ request[w].role = roleOf[request[w].user]
                => Entitled(request[w].user, request[w].contract) ]_<<access, request>>
    BY <1>1
<1> QED BY <1>2, Invariance, PTL DEF Spec, DeedsAreEntitled

----------------------------------------------------------------------------
(***************************************************************************)
(* The rule as it is written: "a step is only editable by a user whose     *)
(* role is linked to the step's agent, or by anyone if no role is linked   *)
(* to it at all".                                                          *)
(***************************************************************************)
\* What a contract's current step is in charge of.
WorkOf(c) ==
    [step |-> place[c], documents |-> DocumentsOf(c), ai |-> ai[c],
     versions |-> [d \in {e \in Documents : ContractOf[e] = c} |-> versions[d]]]

\* What changes of a contract is changed by a call that names this contract, for
\* a user who is entitled to it then, overtaken checks and changed roles aside.
EditsAreEntitled ==
    [][ \A c \in Contracts : WorkOf(c)' # WorkOf(c) =>
            \E w \in Workers :
                /\ Acts(w) /\ request[w].contract = c /\ request'[w] # request[w]
                /\ \/ w \in overtaken \/ request[w].role # roleOf[request[w].user]
                   \/ Entitled(request[w].user, c) ]_vars

\* Uploads go to documents of the contract that they name, which the routes and
\* the tool do not ask for.
OwnUploads ==
    \A w \in Workers :
        /\ Acts(w) /\ request[w].deed # None
        /\ request[w].deed.tool = "upload_document_version"
        => ContractOf[request[w].deed.document] = request[w].contract

\* The JSON API is not used for transitions, documents and versions.
ApiUnused == [][UNCHANGED request => UNCHANGED work]_vars

LEMMA DeedsStayWithin ==
    ASSUME IInv, OwnUploads, NEW c \in Contracts, WorkOf(c)' # WorkOf(c), NEW x \in Workers,
           Advance(x) \/ AddDocument(x) \/ UploadVersion(x) \/ SetAiConfig(x)
    PROVE  request[x].contract = c
<1> DEFINE q == request[x]
<1>1. Acts(x)
    BY DeedsAreDone
<1>2. SUFFICES ASSUME q.contract # c PROVE WorkOf(c)' = WorkOf(c)
    OBVIOUS
<1>3. SUFFICES /\ place'[c] = place[c] /\ ai'[c] = ai[c] /\ DocumentsOf(c)' = DocumentsOf(c)
               /\ \A d \in Documents : ContractOf[d] = c => versions'[d] = versions[d]
    BY DEF WorkOf
<1>4. CASE Advance(x)
    BY <1>2, <1>4 DEF Advance, Move, IInv, TablesOK, DocumentsOf
<1>5. CASE AddDocument(x)
    BY <1>2, <1>5 DEF AddDocument, Add, DocumentsOf
<1>6. CASE UploadVersion(x)
    <2>1. AddVersion(q.deed.document) /\ ContractOf[q.deed.document] = q.contract
        BY <1>1, <1>6 DEF UploadVersion, DoesInPlace, Does, OwnUploads
    <2> QED BY <1>2, <2>1 DEF AddVersion, DocumentsOf, IInv, TablesOK
<1>7. CASE SetAiConfig(x)
    BY <1>2, <1>7 DEF SetAiConfig, Configure, IInv, TablesOK, DocumentsOf
<1> QED BY <1>4, <1>5, <1>6, <1>7

\* If every upload goes to a document of the contract that it names, and the JSON
\* API is not used, whatever changes of a contract is changed for a user who is
\* entitled to that contract.  Nothing else in the code stands in the way of the
\* rule but checks that are overtaken and roles that change during a request.
THEOREM OwnUploadsKeepTheRule == Spec /\ []OwnUploads /\ ApiUnused => EditsAreEntitled
<1>1. ASSUME IInv, [Next]_vars, OwnUploads, [UNCHANGED request => UNCHANGED work]_vars,
             NEW c \in Contracts, WorkOf(c)' # WorkOf(c)
      PROVE  \E w \in Workers :
                /\ Acts(w) /\ request[w].contract = c /\ request'[w] # request[w]
                /\ \/ w \in overtaken \/ request[w].role # roleOf[request[w].user]
                   \/ Entitled(request[w].user, c)
    <2>1. work' # work
        BY <1>1 DEF WorkOf, DocumentsOf, work
    <2>2. vars' # vars
        BY <2>1 DEF vars, access
    <2>3. PICK x \in Workers : Advance(x) \/ AddDocument(x) \/ UploadVersion(x) \/ SetAiConfig(x)
        BY <1>1, <2>1, <2>2, WorkIsDone, ApiAsksNobody
    <2>4. Acts(x) /\ request[x].may /\ request'[x] # request[x] /\ request[x].contract = c
        BY <1>1, <2>3, DeedsAreDone, DeedsStayWithin
    <2> QED BY <1>1, <2>4, ChecksHold DEF Entitled
<1>2. IInv /\ [Next]_vars /\ OwnUploads /\ [UNCHANGED request => UNCHANGED work]_vars =>
          [ \A c \in Contracts : WorkOf(c)' # WorkOf(c) =>
                \E w \in Workers :
                    /\ Acts(w) /\ request[w].contract = c /\ request'[w] # request[w]
                    /\ \/ w \in overtaken \/ request[w].role # roleOf[request[w].user]
                       \/ Entitled(request[w].user, c) ]_vars
    BY <1>1
<1> QED BY <1>2, Invariance, PTL DEF Spec, ApiUnused, EditsAreEntitled

----------------------------------------------------------------------------
(***************************************************************************)
(* Late deeds.  Whoever is overtaken does one deed for which the rule was  *)
(* tested too early, and is checked again before the next: the deeds done  *)
(* and the deeds that may still come are together no more than the         *)
(* requests.                                                               *)
(***************************************************************************)
\* Those whose deed may be late, to contract c.
MayBeLate(c) == {w \in overtaken : Acts(w) /\ request[w].contract = c}

LateInv == \A c \in Contracts : late[c] + Cardinality(MayBeLate(c)) <= Cardinality(Workers)

LEMMA Counts ==
    ASSUME NEW S \in SUBSET Workers
    PROVE  /\ IsFiniteSet(S) /\ Cardinality(S) \in Nat /\ Cardinality(Workers) \in Nat
           /\ Cardinality(S) <= Cardinality(Workers)
BY WorkersAssumption, FS_Subset, FS_CardinalityType

LEMMA CountsLess ==
    ASSUME NEW S \in SUBSET Workers, NEW T, NEW w \in S, T \subseteq S \ {w}
    PROVE  Cardinality(T) \in Nat /\ Cardinality(S) \in Nat /\ Cardinality(T) + 1 <= Cardinality(S)
<1>1. /\ IsFiniteSet(S) /\ IsFiniteSet(S \ {w}) /\ Cardinality(S) \in Nat
      /\ Cardinality(S \ {w}) \in Nat
    BY Counts
<1>2. Cardinality(S \ {w}) = Cardinality(S) - 1
    BY <1>1, FS_RemoveElement
<1>3. Cardinality(T) \in Nat /\ Cardinality(T) <= Cardinality(S \ {w})
    BY <1>1, FS_Subset, FS_CardinalityType
<1> QED BY <1>1, <1>2, <1>3

LEMMA MayBeLateAre ==
    ASSUME IInv
    PROVE  \A c : MayBeLate(c) \subseteq Workers
BY ReadersAre DEF MayBeLate, IInv, HistoryOK, RequestsOK

\* Nobody is overtaken, and nobody turns to another contract in the middle.
Quiet ==
    /\ overtaken' \subseteq overtaken /\ UNCHANGED late
    /\ \A x \in overtaken' : request'[x].op = request[x].op
    /\ \A x \in overtaken' : Acts(x) => request'[x].contract = request[x].contract

LEMMA QuietSteps ==
    ASSUME IInv, NEW w \in Workers,
           \/ LoadForReconcile(w) \/ FinishReconcile(w)
           \/ LoadForAct(w) \/ LoadForAssistant(w) \/ CallTool(w)
           \/ ReadStep(w) \/ CheckRoles(w) \/ Fail(w) \/ Stop(w)
           \/ LoadForShare(w) \/ CommitShare(w) \/ LoadForView(w) \/ Serve(w)
           \/ LoadForSummary(w) \/ CommitSummary(w)
    PROVE  Quiet
<1>1. request \in [Workers -> RequestOf] /\ overtaken \subseteq Workers
    BY ReadersAre DEF IInv, RequestsOK, HistoryOK
<1>2. CASE \/ LoadForReconcile(w) \/ LoadForAct(w) \/ LoadForAssistant(w)
           \/ LoadForShare(w) \/ LoadForView(w) \/ LoadForSummary(w)
    <2>1. PICK r : request' = [request EXCEPT ![w] = r]
        BY <1>2 DEF LoadForReconcile, LoadForAct, LoadForAssistant, LoadForShare, LoadForView,
                    LoadForSummary, Begin
    <2>2. request[w] = Idle /\ UNCHANGED <<overtaken, late>>
        BY <1>2 DEF LoadForReconcile, LoadForAct, LoadForAssistant, LoadForShare, LoadForView,
                    LoadForSummary, access
    <2>3. w \notin overtaken
        BY <2>2, Overtaken, IdleOK
    <2> QED BY <1>1, <2>1, <2>2, <2>3 DEF Quiet
<1>3. CASE CallTool(w) \/ ReadStep(w) \/ CheckRoles(w)
    <2>1. Acts(w) /\ request[w] \in ActOf
        BY <1>1, <1>3, KindsDiffer DEF CallTool, ReadStep, CheckRoles, ToBeChecked, Acts
    <2>2. UNCHANGED <<overtaken, late>>
        BY <1>3 DEF CallTool, ReadStep, CheckRoles, access
    <2>3. \A x \in Workers \ {w} : request'[x] = request[x]
        BY <1>1, <1>3 DEF CallTool, ReadStep, CheckRoles
    <2>4. request'[w].op = request[w].op /\ request'[w].contract = request[w].contract
        BY <1>1, <1>3, <2>1 DEF CallTool, ReadStep, CheckRoles, ActOf
    <2> QED BY <1>1, <2>2, <2>3, <2>4 DEF Quiet
<1>4. CASE \/ FinishReconcile(w) \/ Fail(w) \/ Stop(w)
           \/ CommitShare(w) \/ Serve(w) \/ CommitSummary(w)
    <2>1. overtaken' = overtaken \ {w} /\ UNCHANGED late
        BY <1>4 DEF FinishReconcile, Fail, Stop, CommitShare, Serve, CommitSummary, Close
    <2>2. PICK r : request' = [request EXCEPT ![w] = r]
        BY <1>4 DEF FinishReconcile, Fail, Stop, CommitShare, Serve, CommitSummary, Close, GoOn
    <2> QED BY <1>1, <2>1, <2>2 DEF Quiet
<1> QED BY <1>2, <1>3, <1>4

LEMMA QuietKeeps ==
    ASSUME IInv, LateInv, Quiet
    PROVE  LateInv'
<1> SUFFICES ASSUME NEW c \in Contracts
             PROVE  late'[c] + Cardinality(MayBeLate(c)') <= Cardinality(Workers)
    BY DEF LateInv
<1>1. MayBeLate(c)' \subseteq MayBeLate(c) /\ MayBeLate(c) \subseteq Workers
    BY MayBeLateAre DEF MayBeLate, Quiet, Acts
<1>2. Cardinality(MayBeLate(c)') <= Cardinality(MayBeLate(c))
    BY <1>1, Counts, FS_Subset
<1>3. late[c] \in Nat /\ late'[c] = late[c]
    BY DEF IInv, HistoryOK, Quiet
<1>4. late[c] + Cardinality(MayBeLate(c)) <= Cardinality(Workers)
    BY DEF LateInv
<1>5. MayBeLate(c)' \subseteq Workers
    BY <1>1
<1>6. /\ Cardinality(MayBeLate(c)) \in Nat /\ Cardinality(MayBeLate(c)') \in Nat
      /\ Cardinality(Workers) \in Nat
    BY <1>1, <1>5, Counts
<1> QED BY <1>2, <1>3, <1>4, <1>6

\* Contracts that move, and roles that are linked, start the count again.
LEMMA NewCountKeeps ==
    ASSUME IInv', NEW c \in Contracts, late'[c] = 0
    PROVE  late'[c] + Cardinality(MayBeLate(c)') <= Cardinality(Workers)
<1>1. MayBeLate(c)' \subseteq Workers
    BY ReadersWillBe DEF MayBeLate, IInv, HistoryOK, RequestsOK
<1>2. /\ Cardinality(MayBeLate(c)') \in Nat /\ Cardinality(Workers) \in Nat
      /\ Cardinality(MayBeLate(c)') <= Cardinality(Workers)
    BY <1>1, Counts
<1> QED BY <1>2

LEMMA OtherContractKeeps ==
    ASSUME IInv, LateInv, NEW c \in Contracts, late'[c] = late[c],
           MayBeLate(c)' \subseteq MayBeLate(c)
    PROVE  late'[c] + Cardinality(MayBeLate(c)') <= Cardinality(Workers)
<1>1. MayBeLate(c) \subseteq Workers
    BY MayBeLateAre
<1>2. /\ Cardinality(MayBeLate(c)') <= Cardinality(MayBeLate(c))
      /\ Cardinality(MayBeLate(c)) \in Nat
    BY <1>1, Counts, FS_Subset
<1>3. Cardinality(MayBeLate(c)') \in Nat /\ Cardinality(Workers) \in Nat
    BY <1>1, Counts, FS_Subset, FS_CardinalityType
<1>4. late[c] \in Nat /\ late[c] + Cardinality(MayBeLate(c)) <= Cardinality(Workers)
    BY DEF LateInv, IInv, HistoryOK
<1> QED BY <1>2, <1>3, <1>4

LEMMA ApiMoveKeeps ==
    ASSUME IInv, IInv', LateInv, NEW b \in Contracts, ApiTransition(b)
    PROVE  LateInv'
<1>1. /\ late' = [late EXCEPT ![b] = 0] /\ overtaken' = overtaken \cup ReadersOf(b)
      /\ UNCHANGED request
    BY DEF ApiTransition
<1>2. ASSUME NEW c \in Contracts
      PROVE  late'[c] + Cardinality(MayBeLate(c)') <= Cardinality(Workers)
    <2>1. CASE c = b
        <3>1. late'[c] = 0
            BY <1>1, <2>1 DEF IInv, HistoryOK
        <3> QED BY <3>1, NewCountKeeps
    <2>2. CASE c # b
        <3>1. late'[c] = late[c]
            BY <1>1, <2>2 DEF IInv, HistoryOK
        <3>2. MayBeLate(c)' \subseteq MayBeLate(c)
            BY <1>1, <2>2 DEF MayBeLate, Acts, ReadersOf
        <3> QED BY <3>1, <3>2, OtherContractKeeps
    <2> QED BY <2>1, <2>2
<1> QED BY <1>2 DEF LateInv

LEMMA DeedsKeepCount ==
    ASSUME IInv, IInv', LateInv, NEW w \in Workers,
           Advance(w) \/ AddDocument(w) \/ UploadVersion(w) \/ SetAiConfig(w)
    PROVE  LateInv'
<1>0. /\ Acts(w) /\ request[w].may
      /\ \A x \in Workers \ {w} : request'[x] = request[x]
    BY DeedsAreDone
<1>1. PICK b \in Contracts : b = request[w].contract
    BY <1>0, Contract DEF IInv, RequestsOK, Acts
<1>2. late[b] \in Nat /\ overtaken \subseteq Workers
    BY <1>0, <1>1, ReadersAre DEF IInv, HistoryOK, RequestsOK
<1>3. PICK n \in {0, late[b]} : late' = LateWith(w, n)
    BY <1>1 DEF Advance, AddDocument, UploadVersion, SetAiConfig, DoesInPlace
<1>4. /\ \A c \in Contracts : c # b => late'[c] = late[c]
      /\ late'[b] = IF CanEdit(request[w].role, Owner[place[b]]) THEN n ELSE n + 1
    BY <1>0, <1>1, <1>2, <1>3, LateIs
<1>5. overtaken' \in {overtaken \ {w}, (overtaken \cup ReadersOf(b)) \ {w}}
    BY <1>1 DEF Advance, AddDocument, UploadVersion, SetAiConfig, DoesInPlace
<1>6. ASSUME NEW c \in Contracts, c # b
      PROVE  late'[c] + Cardinality(MayBeLate(c)') <= Cardinality(Workers)
    <2>1. MayBeLate(c)' \subseteq MayBeLate(c)
        BY <1>0, <1>1, <1>2, <1>5, <1>6 DEF MayBeLate, Acts, ReadersOf
    <2> QED BY <1>4, <1>6, <2>1, OtherContractKeeps
<1>7. late'[b] + Cardinality(MayBeLate(b)') <= Cardinality(Workers)
    <2>1. CASE Advance(w)
        <3>1. late'[b] \in {0, 1}
            BY <1>0, <1>1, <1>4, <2>1, LateIs DEF Advance
        <3>2. MayBeLate(b)' \subseteq Workers \ {w}
            BY <1>2, <1>5 DEF MayBeLate, ReadersOf
        <3>3. /\ Cardinality(MayBeLate(b)') \in Nat /\ Cardinality(Workers) \in Nat
              /\ Cardinality(MayBeLate(b)') + 1 <= Cardinality(Workers)
            BY <3>2, CountsLess
        <3> QED BY <3>1, <3>3
    <2>2. CASE AddDocument(w) \/ UploadVersion(w) \/ SetAiConfig(w)
        <3>1. /\ late' = LateWith(w, late[b]) /\ overtaken' = overtaken \ {w}
            BY <1>1, <2>2 DEF AddDocument, UploadVersion, SetAiConfig, DoesInPlace
        <3>2. late'[b] = IF CanEdit(request[w].role, Owner[place[b]]) THEN late[b] ELSE late[b] + 1
            BY <1>0, <1>1, <1>2, <3>1, LateIs
        <3>3. MayBeLate(b)' \subseteq MayBeLate(b) \ {w}
            BY <1>0, <1>1, <1>2, <3>1 DEF MayBeLate, Acts
        <3>4. CASE w \in overtaken
            <4>1. w \in MayBeLate(b) /\ MayBeLate(b) \subseteq Workers
                BY <1>0, <1>1, <3>4, MayBeLateAre DEF MayBeLate
            <4>2. /\ Cardinality(MayBeLate(b)') \in Nat /\ Cardinality(MayBeLate(b)) \in Nat
                  /\ Cardinality(MayBeLate(b)') + 1 <= Cardinality(MayBeLate(b))
                BY <3>3, <4>1, CountsLess
            <4>3. /\ late[b] + Cardinality(MayBeLate(b)) <= Cardinality(Workers)
                  /\ Cardinality(Workers) \in Nat
                BY <1>0, <1>1, Counts DEF LateInv
            <4> QED BY <1>2, <3>2, <4>2, <4>3
        <3>5. CASE w \notin overtaken
            <4>1. late'[b] = late[b]
                BY <1>0, <1>1, <3>2, <3>5, ChecksHold
            <4> QED BY <1>0, <1>1, <3>3, <4>1, OtherContractKeeps
        <3> QED BY <3>4, <3>5
    <2> QED BY <2>1, <2>2
<1> QED BY <1>6, <1>7 DEF LateInv

LEMMA LateStep == IInv /\ IInv' /\ LateInv /\ [Next]_vars => LateInv'
<1> SUFFICES ASSUME IInv, IInv', LateInv, [Next]_vars PROVE LateInv'
    OBVIOUS
<1>1. CASE UNCHANGED <<overtaken, late, request>>
    BY <1>1, QuietKeeps DEF Quiet
<1>2. CASE late' = [c \in Contracts |-> 0]
    BY <1>2, NewCountKeeps DEF LateInv
<1>3. ASSUME NEW w \in Workers,
             \/ LoadForReconcile(w) \/ Relink(w) \/ FinishReconcile(w)
             \/ LoadForAct(w) \/ LoadForAssistant(w) \/ CallTool(w)
             \/ ReadStep(w) \/ CheckRoles(w) \/ Fail(w) \/ Stop(w)
             \/ Advance(w) \/ AddDocument(w) \/ UploadVersion(w) \/ SetAiConfig(w)
      PROVE  LateInv'
    <2>1. CASE Relink(w)
        BY <1>2, <2>1 DEF Relink, Linking
    <2>2. CASE Advance(w) \/ AddDocument(w) \/ UploadVersion(w) \/ SetAiConfig(w)
        BY <2>2, DeedsKeepCount
    <2> QED BY <1>3, <2>1, <2>2, QuietSteps, QuietKeeps
<1>4. ASSUME NEW w \in Workers,
             \/ LoadForShare(w) \/ CommitShare(w) \/ LoadForView(w) \/ Serve(w)
             \/ LoadForSummary(w) \/ CommitSummary(w)
      PROVE  LateInv'
    BY <1>4, QuietSteps, QuietKeeps
<1>5. CASE \E r \in Roles : SetRoleAgent(r)
    BY <1>2, <1>5 DEF SetRoleAgent, Linking
<1>6. CASE \E c \in Contracts : ApiTransition(c)
    BY <1>6, ApiMoveKeeps
<1>7. CASE \/ \E u \in Users : SetUserRole(u)
           \/ \E c \in Contracts : ApiAddDocument(c)
           \/ \E d \in Documents : ApiUploadVersion(d)
           \/ \E l \in Links : Deactivate(l) \/ Unlock(l)
    BY <1>1, <1>7 DEF SetUserRole, ApiAddDocument, ApiUploadVersion, Deactivate, Unlock, access
<1>8. CASE UNCHANGED vars
    BY <1>1, <1>8 DEF vars, access
<1> QED BY <1>3, <1>4, <1>5, <1>6, <1>7, <1>8 DEF Next, AccessNext, RoomNext

LEMMA LateInit == Init => LateInv
<1> SUFFICES ASSUME Init, NEW c \in Contracts
             PROVE  late[c] + Cardinality(MayBeLate(c)) <= Cardinality(Workers)
    BY DEF LateInv
<1>1. late[c] = 0 /\ MayBeLate(c) = {}
    BY DEF Init, AccessInit, MayBeLate
<1>2. /\ Cardinality(MayBeLate(c)) \in Nat /\ Cardinality(Workers) \in Nat
      /\ Cardinality(MayBeLate(c)) <= Cardinality(Workers)
    BY <1>1, Counts
<1> QED BY <1>1, <1>2

LEMMA LateIsFew == IInv /\ LateInv => FewLateDeeds
<1> SUFFICES ASSUME IInv, LateInv, NEW c \in Contracts
             PROVE  late[c] <= Cardinality(Workers)
    BY DEF FewLateDeeds
<1>1. MayBeLate(c) \subseteq Workers /\ late[c] \in Nat
    BY MayBeLateAre DEF IInv, HistoryOK
<1>2. Cardinality(MayBeLate(c)) \in Nat /\ Cardinality(Workers) \in Nat
    BY <1>1, Counts
<1> QED BY <1>1, <1>2 DEF LateInv

\* After a contract has moved or roles were linked, each request that is still on
\* its way does one deed at most that the rule refuses by then, also an assistant
\* in the middle of its run.
THEOREM LateDeedsAreFew == Spec => []FewLateDeeds
BY LateInit, LateStep, LateIsFew, Invariance, PTL DEF Spec

----------------------------------------------------------------------------
(***************************************************************************)
(* Checklists and views.                                                   *)
(***************************************************************************)
\* A checklist that nobody overtook ends with exactly the ticked roles linked.
THEOREM ChecklistsAreApplied == Spec => ChecklistsApply
<1>1. ASSUME IInv, NEW w \in Workers, request[w].op = "reconcile",
             request[w].todo = {}, w \notin overtaken
      PROVE  LinkedTo(request[w].agent) = request[w].ticked
    <2> DEFINE q == request[w]
    <2>1. Todo(q.agent, q.ticked) = {}
        BY <1>1 DEF IInv, RequestsOK, Current
    <2> QED BY <2>1 DEF Todo
<1>2. IInv /\ [Next]_vars =>
          [ \A w \in Workers :
                /\ request[w].op = "reconcile" /\ request[w].todo = {}
                /\ request'[w] = Idle /\ w \notin overtaken
                => LinkedTo(request[w].agent) = request[w].ticked ]_<<access, request>>
    BY <1>1
<1> QED BY <1>2, Invariance, PTL DEF Spec, ChecklistsApply

\* A file is read while its link is active, or for a view that was in progress
\* when the link was ended; if there is a password it has been proved; and it is
\* a document of the link's contract that the link exposes.
THEOREM ViewsStay == Spec => ViewsStayWithinLinks
<1>1. ASSUME IInv, [Next]_vars, NEW w \in Workers, NEW l \in Links, NEW d \in Documents,
             request[w].op = "view", request'[w] # request[w], <<l, d>> \in served' \ served
      PROVE  /\ Active(l) \/ w \in ending[l]
             /\ link[l].password => l \in unlocked
             /\ d \in DocumentsOf(link[l].contract)
             /\ link[l].scope = "documents" => d \in link[l].named
    <2>1. PICK x \in Workers : Serve(x)
        BY <1>1
        DEF Next, AccessNext, RoomNext, vars, access, sharing, CommitShare, CommitSummary,
            LoadForShare, LoadForView, LoadForSummary, Deactivate, Unlock
    <2>2. Becomes(x, Idle)
        BY <2>1 DEF Serve, Close, Becomes
    <2>3. x = w
        BY <1>1, <2>2, IdleOK, BecomesTyped
    <2>4. PICK e \in DocumentsOf(link[request[w].link].contract) :
              Allows(request[w].link, e) /\ served' = served \cup {<<request[w].link, e>>}
        BY <2>1, <2>3 DEF Serve
    <2>5. request[w].link = l /\ d = e
        BY <1>1, <2>4
    <2>6. RequestOK(request[w]) /\ ViewOK(w)
        BY <1>1 DEF IInv, RequestsOK
    <2> QED BY <1>1, <2>4, <2>5, <2>6 DEF RequestOK, ViewOK, Allows
<1>2. IInv /\ [Next]_vars =>
          [ \A w \in Workers : \A l \in Links, d \in Documents :
                /\ request[w].op = "view" /\ request'[w] # request[w]
                /\ <<l, d>> \in served' \ served
                => /\ Active(l) \/ w \in ending[l]
                   /\ link[l].password => l \in unlocked
                   /\ d \in DocumentsOf(link[l].contract)
                   /\ link[l].scope = "documents" => d \in link[l].named ]_vars
    BY <1>1
<1> QED BY <1>2, Invariance, PTL DEF Spec, ViewsStayWithinLinks
=============================================================================
