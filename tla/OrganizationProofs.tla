-------------------------- MODULE OrganizationProofs --------------------------
(***************************************************************************)
(* For any limits, names, presets, customers, subscriptions and number of  *)
(* concurrent requests: the rows have their types, the limits are exceeded *)
(* by the requests in progress at most, presets are built whole, and fresh *)
(* webhooks leave a row that Stripe reported.                              *)
(***************************************************************************)
EXTENDS Organization, FiniteSetTheorems, WellFoundedInduction, TLAPS

TaskOf ==
    UNION {[preset : {p}, ids : [Range(p.agents) -> Agents \cup {None}],
            name : WorkflowNames \cup {None}, workflow : Workflows \cup {None},
            built : 0..Len(p.steps) + Len(p.transitions)] : p \in Presets}

CreateOf == [op : {"create"}, kind : Kinds, name : AgentNames \cup WorkflowNames \cup {None},
             plan : Plans, counted : BOOLEAN, task : TaskOf \cup {NoTask}]

DuplicateOf == [op : {"duplicate"}, source : WorkflowOf, name : WorkflowNames]

PresetOf == [op : {"preset"}, task : TaskOf]

RequestOf ==
    {Idle} \cup CheckoutOf \cup WebhookOf \cup CreateOf \cup DuplicateOf
        \cup RenameOf \cup RenameAgentOf \cup PresetOf

Owned(row) == \A s \in row.steps : s.agent \in AgentRows

\* What PresetsAreWhole says of one request.
Whole(t) ==
    /\ \A i \in 1..t.built :
           i > Len(t.preset.steps)
               \/ StepRow(t.preset.steps[i], t.ids) \in workflow[t.workflow].steps
    /\ \A i \in 1..t.built - Len(t.preset.steps) :
           t.preset.transitions[i] \in workflow[t.workflow].transitions

\* The agents are there before the name, and the name before the workflow.
TaskInv(t) ==
    /\ \A n \in Range(t.preset.agents) : t.ids[n] # None => t.ids[n] \in AgentRows
    /\ t.name # None => \A n \in Range(t.preset.agents) : t.ids[n] # None
    /\ t.workflow # None => t.name # None /\ t.workflow \in WorkflowRows /\ Whole(t)
    /\ t.workflow = None => t.built = 0

\* What stays true of a request while others commit.
RequestInv(r) ==
    /\ r.op = "webhook" => r.event \in events
    /\ r.op = "create" =>
           /\ r.plan \in held
           /\ r.kind = "agents" => r.name \in AgentNames
           /\ r.kind = "workflows" => r.name \in WorkflowNames
           /\ r.task # NoTask => /\ TaskInv(r.task) /\ r.task.workflow = None
                                 /\ r.kind = "agents" => r.task.name = None
                                 /\ r.kind = "workflows" => r.task.name # None
    /\ r.op = "duplicate" => Owned(r.source)
    /\ r.op = "rename" => r.workflow \in WorkflowRows
    /\ r.op = "renameAgent" => r.agent \in AgentRows
    /\ r.op = "preset" => TaskInv(r.task)

TablesOK ==
    /\ BillingTypeOK
    /\ tally \in [{"users", "contracts"} -> Nat]
    /\ agent \in [Agents -> AgentNames \cup {None}]
    /\ workflow \in [Workflows -> WorkflowOf \cup {None}]
    /\ \A d \in WorkflowRows : Owned(workflow[d])

IInv ==
    /\ TablesOK
    /\ request \in [Workers -> RequestOf]
    /\ \A w \in Workers : RequestInv(request[w])

----------------------------------------------------------------------------
(***************************************************************************)
(* Data.                                                                   *)
(***************************************************************************)
LEMMA Least ==
    ASSUME NEW T \in SUBSET Nat, T # {}
    PROVE  \E i \in T : \A j \in T : i <= j
<1> DEFINE R == {p \in Nat \X Nat : p[1] < p[2]}
<1>1. R = OpToRel(<, Nat)
    BY DEF OpToRel
<1>2. IsWellFoundedOn(R, Nat)
    BY <1>1, NatLessThanWellFounded
<1>3. \A i, j \in Nat : ~(j < i) => i <= j
    OBVIOUS
<1>4. \A i, j \in Nat : j < i => <<j, i>> \in R
    OBVIOUS
<1> HIDE DEF R
<1>5. PICK i \in T : \A j \in T : <<j, i>> \notin R
    BY <1>2, WFMin
<1> QED BY <1>3, <1>4, <1>5

LEMMA FirstFreeIsAName ==
    ASSUME NEW S, NEW names \in Seq(S), NEW slugs, SomeFree(names, slugs)
    PROVE  FirstFree(names, slugs) \in S
<1> DEFINE T == {i \in DOMAIN names : Slug[names[i]] \notin slugs}
<1>1. DOMAIN names \subseteq Nat /\ \A i \in DOMAIN names : \A j \in 1..i - 1 : j \in DOMAIN names
    OBVIOUS
<1>2. T \subseteq Nat /\ T # {}
    BY <1>1 DEF SomeFree, Range
<1>3. PICK i \in T : \A j \in T : i <= j
    BY <1>2, Least
<1>4. \A j \in 1..i - 1 : Slug[names[j]] \in slugs
    BY <1>1, <1>3
<1>5. FirstFree(names, slugs) \in {names[j] : j \in DOMAIN names}
    BY <1>3, <1>4 DEF FirstFree
<1> QED BY <1>5

LEMMA PresetFacts ==
    ASSUME NEW p \in Presets
    PROVE  /\ Len(p.steps) \in Nat /\ Len(p.transitions) \in Nat
           /\ \A i \in 1..Len(p.steps) : p.steps[i] \in Range(p.steps)
           /\ \A i \in 1..Len(p.transitions) : p.transitions[i] \in Edges
           /\ DOMAIN p.transitions = 1..Len(p.transitions)
           /\ DOMAIN p.agents \subseteq Nat
           /\ Range(p.agents) \subseteq AgentNames
           /\ \A n \in Range(p.agents) : \E i \in DOMAIN p.agents : p.agents[i] = n
           /\ \A i \in DOMAIN p.agents : p.agents[i] \in Range(p.agents)
           /\ \A s \in Range(p.steps) : /\ s.owner \in Range(p.agents) /\ s.key \in Keys
                                        /\ s.initial \in BOOLEAN /\ s.terminal \in BOOLEAN
           /\ PresetNames[p.name] \in Seq(WorkflowNames)
           /\ p # None
<1>1. /\ PresetNames[p.name] \in Seq(WorkflowNames) /\ p.agents \in Seq(AgentNames)
      /\ p.steps \in Seq(Range(p.steps)) /\ p.transitions \in Seq(Range(p.transitions))
      /\ \A s \in Range(p.steps) : /\ s.owner \in Range(p.agents)
                                   /\ s.initial \in BOOLEAN /\ s.terminal \in BOOLEAN
    BY PresetsAssumption
<1>2. \A s \in Range(p.steps) : s.key \in Keys
    BY DEF Keys, KeysOf
<1>3. Range(p.transitions) \subseteq Edges
    BY DEF Edges
<1>4. /\ Len(p.steps) \in Nat /\ \A i \in 1..Len(p.steps) : p.steps[i] \in Range(p.steps)
    BY <1>1
<1>5. /\ Len(p.transitions) \in Nat /\ DOMAIN p.transitions = 1..Len(p.transitions)
      /\ \A i \in 1..Len(p.transitions) : p.transitions[i] \in Edges
    BY <1>1, <1>3
<1>6. /\ DOMAIN p.agents \subseteq Nat /\ Range(p.agents) \subseteq AgentNames
      /\ \A n \in Range(p.agents) : \E i \in DOMAIN p.agents : p.agents[i] = n
      /\ \A i \in DOMAIN p.agents : p.agents[i] \in Range(p.agents)
    BY <1>1 DEF Range
<1> QED BY <1>1, <1>2, <1>4, <1>5, <1>6, RowsAssumption

----------------------------------------------------------------------------
(***************************************************************************)
(* Requests and tasks.                                                     *)
(***************************************************************************)
LEMMA TaskFields ==
    ASSUME NEW t \in TaskOf
    PROVE  /\ t.preset \in Presets
           /\ t.ids \in [Range(t.preset.agents) -> Agents \cup {None}]
           /\ t.name \in WorkflowNames \cup {None}
           /\ t.workflow \in Workflows \cup {None}
           /\ t.built \in 0..Len(t.preset.steps) + Len(t.preset.transitions)
           /\ t # NoTask
           /\ \A ids \in [Range(t.preset.agents) -> Agents \cup {None}] :
                  LET u == [t EXCEPT !.ids = ids]
                  IN  /\ u \in TaskOf /\ u.preset = t.preset /\ u.ids = ids /\ u.name = t.name
                      /\ u.workflow = t.workflow /\ u.built = t.built
           /\ \A n \in WorkflowNames :
                  LET u == [t EXCEPT !.name = n]
                  IN  /\ u \in TaskOf /\ u.preset = t.preset /\ u.ids = t.ids /\ u.name = n
                      /\ u.workflow = t.workflow /\ u.built = t.built
           /\ \A d \in Workflows :
                  LET u == [t EXCEPT !.workflow = d]
                  IN  /\ u \in TaskOf /\ u.preset = t.preset /\ u.ids = t.ids /\ u.name = t.name
                      /\ u.workflow = d /\ u.built = t.built
           /\ \A i \in 0..Len(t.preset.steps) + Len(t.preset.transitions) :
                  LET u == [t EXCEPT !.built = i]
                  IN  /\ u \in TaskOf /\ u.preset = t.preset /\ u.ids = t.ids /\ u.name = t.name
                      /\ u.workflow = t.workflow /\ u.built = i
<1>1. PICK p \in Presets :
          t \in [preset : {p}, ids : [Range(p.agents) -> Agents \cup {None}],
                 name : WorkflowNames \cup {None}, workflow : Workflows \cup {None},
                 built : 0..Len(p.steps) + Len(p.transitions)]
    BY DEF TaskOf
<1> DEFINE T(q) == [preset : {q}, ids : [Range(q.agents) -> Agents \cup {None}],
                    name : WorkflowNames \cup {None}, workflow : Workflows \cup {None},
                    built : 0..Len(q.steps) + Len(q.transitions)]
<1>2. \A u \in T(p) : u \in TaskOf
    BY DEF TaskOf
<1>3. t.preset = p
    BY <1>1
<1>4. t # NoTask
    BY <1>1, <1>3, RowsAssumption DEF NoTask
<1> QED BY <1>1, <1>2, <1>3, <1>4

LEMMA BuiltField ==
    ASSUME NEW t \in TaskOf,
           NEW i \in 0..Len(t.preset.steps) + Len(t.preset.transitions)
    PROVE  LET u == [t EXCEPT !.built = i]
           IN  /\ u \in TaskOf /\ u.preset = t.preset /\ u.ids = t.ids /\ u.name = t.name
               /\ u.workflow = t.workflow /\ u.built = i
<1>1. PICK p \in Presets :
          t \in [preset : {p}, ids : [Range(p.agents) -> Agents \cup {None}],
                 name : WorkflowNames \cup {None}, workflow : Workflows \cup {None},
                 built : 0..Len(p.steps) + Len(p.transitions)]
    BY DEF TaskOf
<1>2. t.preset = p
    BY <1>1
<1> DEFINE u == [t EXCEPT !.built = i]
<1>3. /\ u \in [preset : {p}, ids : [Range(p.agents) -> Agents \cup {None}],
               name : WorkflowNames \cup {None}, workflow : Workflows \cup {None},
               built : 0..Len(p.steps) + Len(p.transitions)]
      /\ u.preset = t.preset /\ u.ids = t.ids /\ u.name = t.name
      /\ u.workflow = t.workflow /\ u.built = i
    BY <1>1, <1>2
<1>4. u \in TaskOf
    BY <1>3 DEF TaskOf
<1> QED BY <1>3, <1>4

LEMMA KindsDiffer ==
    ASSUME NEW r \in RequestOf
    PROVE  /\ r.op = "none" <=> r = Idle
           /\ r.op = "checkout" => r \in CheckoutOf
           /\ r.op = "webhook" => r \in WebhookOf
           /\ r.op = "create" => r \in CreateOf
           /\ r.op = "duplicate" => r \in DuplicateOf
           /\ r.op = "rename" => r \in RenameOf
           /\ r.op = "renameAgent" => r \in RenameAgentOf
           /\ r.op = "preset" => r \in PresetOf
           /\ r.op \in {"none", "checkout", "webhook", "create", "duplicate", "rename",
                        "renameAgent", "preset"}
<1>1. CASE r = Idle BY <1>1 DEF Idle
<1>2. CASE r \in CheckoutOf BY <1>2 DEF CheckoutOf, Idle
<1>3. CASE r \in WebhookOf BY <1>3 DEF WebhookOf, Idle
<1>4. CASE r \in CreateOf BY <1>4 DEF CreateOf, Idle
<1>5. CASE r \in DuplicateOf BY <1>5 DEF DuplicateOf, Idle
<1>6. CASE r \in RenameOf BY <1>6 DEF RenameOf, Idle
<1>7. CASE r \in RenameAgentOf BY <1>7 DEF RenameAgentOf, Idle
<1>8. CASE r \in PresetOf BY <1>8 DEF PresetOf, Idle
<1> QED BY <1>1, <1>2, <1>3, <1>4, <1>5, <1>6, <1>7, <1>8 DEF RequestOf

LEMMA TasksTyped ==
    ASSUME NEW t \in TaskOf \cup {NoTask}
    PROVE  TaskOK(t)
<1>1. CASE t = NoTask
    BY <1>1 DEF TaskOK
<1>2. CASE t \in TaskOf
    BY <1>2, TaskFields DEF TaskOK
<1> QED BY <1>1, <1>2

LEMMA RequestsTyped ==
    ASSUME NEW r \in RequestOf, RequestInv(r)
    PROVE  RequestOK(r)
<1>1. CASE r.op \in {"none", "checkout", "rename", "renameAgent"}
    BY <1>1, KindsDiffer DEF RequestOK
<1>2. CASE r.op = "webhook"
    BY <1>2, KindsDiffer DEF RequestOK, WebhookOf
<1>3. CASE r.op = "create"
    <2>1. r \in CreateOf /\ r.plan \in held
        BY <1>3, KindsDiffer DEF RequestInv
    <2>2. r.kind \in Kinds /\ r.task \in TaskOf \cup {NoTask}
        BY <2>1 DEF CreateOf
    <2> QED BY <1>3, <2>1, <2>2, TasksTyped DEF RequestOK
<1>4. CASE r.op = "duplicate"
    BY <1>4, KindsDiffer DEF RequestOK, DuplicateOf
<1>5. CASE r.op = "preset"
    <2>1. r.task \in TaskOf
        BY <1>5, KindsDiffer DEF PresetOf
    <2> QED BY <1>5, <2>1, TaskFields, TasksTyped DEF RequestOK
<1> QED BY <1>1, <1>2, <1>3, <1>4, <1>5, KindsDiffer

LEMMA InvTyped == IInv => TypeOK
<1> SUFFICES ASSUME IInv PROVE TypeOK
    OBVIOUS
<1>1. \A w \in Workers : RequestOK(request[w])
    BY RequestsTyped DEF IInv
<1>2. \A d \in WorkflowRows : workflow[d] \in WorkflowOf
    BY DEF IInv, TablesOK, WorkflowRows
<1>3. \A d \in WorkflowRows : \A s \in workflow[d].steps : s.agent \in AgentRows
    BY DEF IInv, TablesOK, Owned
<1> QED BY <1>1, <1>2, <1>3 DEF IInv, TablesOK, TypeOK

----------------------------------------------------------------------------
(***************************************************************************)
(* Steps.                                                                  *)
(***************************************************************************)
\* Nothing that a request relies on is undone.
Kept ==
    /\ held \subseteq held' /\ events \subseteq events'
    /\ AgentRows \subseteq AgentRows' /\ WorkflowRows \subseteq WorkflowRows'
    /\ \A d \in WorkflowRows :
           /\ workflow[d].steps \subseteq workflow'[d].steps
           /\ workflow[d].transitions \subseteq workflow'[d].transitions

LEMMA TasksKeep ==
    ASSUME Kept, NEW t, TaskInv(t)
    PROVE  TaskInv(t)'
<1>1. t.workflow # None => Whole(t)'
    <2> SUFFICES ASSUME t.workflow # None PROVE Whole(t)'
        OBVIOUS
    <2> DEFINE d == t.workflow
    <2>1. d \in WorkflowRows /\ Whole(t)
        BY DEF TaskInv
    <2>2. /\ workflow[d].steps \subseteq workflow'[d].steps
          /\ workflow[d].transitions \subseteq workflow'[d].transitions
        BY <2>1 DEF Kept
    <2> QED BY <2>1, <2>2 DEF Whole
<1> QED BY <1>1 DEF TaskInv, Kept

LEMMA OthersOK ==
    ASSUME Kept, NEW r, RequestInv(r)
    PROVE  RequestInv(r)'
<1>1. (r.op = "create" /\ r.task # NoTask) \/ r.op = "preset" => TaskInv(r.task)'
    BY TasksKeep DEF RequestInv
<1>2. r.op = "duplicate" => Owned(r.source)'
    BY DEF RequestInv, Owned, Kept
<1> QED BY <1>1, <1>2 DEF RequestInv, Kept

Good == TablesOK' /\ Kept

\* The request of w becomes r.
Becomes(w, r) == request' = [request EXCEPT ![w] = r]

LEMMA StepsKeep ==
    ASSUME IInv, Good,
           \/ UNCHANGED request
           \/ \E w \in Workers, r \in RequestOf : Becomes(w, r) /\ RequestInv(r)'
    PROVE  IInv'
<1>1. ASSUME NEW w \in Workers PROVE RequestInv(request[w]) /\ Kept
    BY DEF IInv, Good
<1>2. CASE UNCHANGED request
    BY <1>1, <1>2, OthersOK DEF IInv, Good
<1>3. ASSUME NEW w \in Workers, NEW r \in RequestOf, Becomes(w, r), RequestInv(r)'
      PROVE  IInv'
    <2>1. /\ request' \in [Workers -> RequestOf] /\ request'[w] = r
          /\ \A x \in Workers \ {w} : request'[x] = request[x]
        BY <1>3 DEF Becomes, IInv
    <2>2. ASSUME NEW x \in Workers, x # w
          PROVE  RequestInv(request[x])'
        <3>1. request'[x] = request[x]
            BY <2>1, <2>2
        <3>2. PICK q : q = request[x]
            OBVIOUS
        <3>3. RequestInv(q)'
            BY <1>1, <3>2, OthersOK
        <3> QED BY <3>1, <3>2, <3>3 DEF RequestInv
    <2>3. RequestInv(request[w])'
        BY <1>3, <2>1 DEF RequestInv
    <2> QED BY <2>1, <2>2, <2>3 DEF IInv, Good
<1> QED BY <1>2, <1>3

----------------------------------------------------------------------------
(***************************************************************************)
(* Billing.                                                                *)
(***************************************************************************)
LEMMA RowsUpdated ==
    ASSUME org \in OrgOf, NEW row \in OrgOf, NEW new \in OrgOf
    PROVE  /\ Updated(row, new) \in OrgOf
           /\ row = org => Updated(row, new) = new
<1>1. DOMAIN org = {"plan", "customer", "subscription", "status"}
    BY DEF OrgOf
<1> DEFINE u == Updated(row, new)
<1>2. /\ u = [plan |-> u.plan, customer |-> u.customer, subscription |-> u.subscription,
              status |-> u.status]
      /\ u.plan \in {new.plan, org.plan} /\ u.customer \in {new.customer, org.customer}
      /\ u.subscription \in {new.subscription, org.subscription}
      /\ u.status \in {new.status, org.status}
      /\ row = org => /\ u.plan = new.plan /\ u.customer = new.customer
                      /\ u.subscription = new.subscription /\ u.status = new.status
    BY <1>1 DEF Updated
<1> HIDE DEF u
<1>3. u \in OrgOf
    BY <1>2 DEF OrgOf
<1>4. row = org => u = new
    BY <1>2 DEF OrgOf
<1> QED BY <1>3, <1>4 DEF u

LEMMA EventsWritten ==
    ASSUME NEW row \in OrgOf, NEW e \in EventOf
    PROVE  Written(row, e) \in OrgOf
<1>1. \A p : ResolvePlan(p) \in Plans
    BY PricesAssumption DEF ResolvePlan, Plans
<1>2. CASE e \in [type : {"completed"}, customer : Customers]
    BY <1>2 DEF Written, OrgOf
<1>3. CASE e \in [type : {"subscription"}, id : Subscriptions, customer : Customers,
                  price : Prices, status : Statuses]
    <2>1. /\ e.type = "subscription" /\ e.id \in Subscriptions /\ e.status \in Statuses
          /\ ResolvePlan(e.price) \in Plans
        BY <1>1, <1>3
    <2>2. Written(row, e) = [row EXCEPT !.subscription = e.id, !.status = e.status,
                                        !.plan = ResolvePlan(e.price)]
        BY <2>1 DEF Written
    <2> QED BY <2>1, <2>2 DEF OrgOf
<1>4. CASE e \in [type : {"deleted"}, id : Subscriptions, customer : Customers]
    <2>1. e.type = "deleted" /\ "free" \in Plans
        BY <1>4 DEF Plans
    <2>2. Written(row, e) = [row EXCEPT !.subscription = None, !.status = None, !.plan = "free"]
        BY <2>1 DEF Written
    <2> QED BY <2>1, <2>2 DEF OrgOf
<1> QED BY <1>2, <1>3, <1>4 DEF EventOf

\* The library is left alone, and the billing tables keep their types.
LEMMA BillingGood ==
    ASSUME IInv, BillingTypeOK', held \subseteq held', events \subseteq events',
           UNCHANGED library
    PROVE  Good
<1>1. TablesOK'
    BY DEF IInv, TablesOK, library, WorkflowRows, AgentRows, Owned
<1>2. Kept
    BY DEF Kept, library, WorkflowRows, AgentRows
<1> QED BY <1>1, <1>2 DEF Good

LEMMA IdleOK ==
    /\ Idle \in RequestOf
    /\ \A w \in Workers : Close(w) => Becomes(w, Idle) /\ RequestInv(Idle)'
BY DEF RequestOf, Idle, Close, Becomes, RequestInv

LEMMA StripeKeeps ==
    ASSUME IInv, UNCHANGED library,
           \/ \E w \in Workers : Subscribe(w)
           \/ \E s \in Subscriptions : Change(s) \/ EndSubscription(s)
    PROVE  Good
<1>1. /\ subscription \in [Subscriptions -> SubscriptionOf \cup {NoSubscription}]
      /\ events \subseteq EventOf
    BY DEF IInv, TablesOK, BillingTypeOK
<1>2. ASSUME NEW s \in Subscriptions, NEW sub \in SubscriptionOf
      PROVE  Snapshot(s, sub) \in EventOf
    BY DEF Snapshot, SubscriptionOf, EventOf
<1>3. ASSUME NEW w \in Workers, Subscribe(w)
      PROVE  Good
    <2>1. request[w].price \in Prices
        BY <1>3, KindsDiffer DEF Subscribe, IInv, CheckoutOf
    <2>2. PICK s \in Subscriptions, c \in Customers, st \in Statuses :
              LET sub == [customer |-> c, price |-> request[w].price, status |-> st]
              IN  /\ subscription' = [subscription EXCEPT ![s] = sub]
                  /\ events' = events \cup
                         {[type |-> "completed", customer |-> c], Snapshot(s, sub)}
        BY <1>3 DEF Subscribe
    <2> DEFINE sub == [customer |-> c, price |-> request[w].price, status |-> st]
    <2>3. sub \in SubscriptionOf
        BY <2>1 DEF SubscriptionOf
    <2>4. [type |-> "completed", customer |-> c] \in EventOf
        BY DEF EventOf
    <2>5. /\ subscription' = [subscription EXCEPT ![s] = sub]
          /\ events' = events \cup {[type |-> "completed", customer |-> c], Snapshot(s, sub)}
        BY <2>2
    <2> HIDE DEF sub
    <2>6. /\ subscription' \in [Subscriptions -> SubscriptionOf \cup {NoSubscription}]
          /\ events' \subseteq EventOf /\ events \subseteq events'
        BY <1>1, <1>2, <2>3, <2>4, <2>5
    <2>7. UNCHANGED <<org, held>>
        BY <1>3 DEF Subscribe
    <2>8. BillingTypeOK'
        BY <2>6, <2>7 DEF IInv, TablesOK, BillingTypeOK
    <2> QED BY <2>6, <2>7, <2>8, BillingGood
<1>4. ASSUME NEW s \in Subscriptions, Change(s)
      PROVE  Good
    <2>1. PICK sub \in SubscriptionOf :
              /\ subscription' = [subscription EXCEPT ![s] = sub]
              /\ events' = events \cup {Snapshot(s, sub)}
        BY <1>4 DEF Change
    <2>2. /\ subscription' \in [Subscriptions -> SubscriptionOf \cup {NoSubscription}]
          /\ events' \subseteq EventOf /\ events \subseteq events'
        BY <1>1, <1>2, <2>1
    <2>3. UNCHANGED <<org, held>>
        BY <1>4 DEF Change
    <2>4. BillingTypeOK'
        BY <2>2, <2>3 DEF IInv, TablesOK, BillingTypeOK
    <2> QED BY <2>2, <2>3, <2>4, BillingGood
<1>5. ASSUME NEW s \in Subscriptions, EndSubscription(s)
      PROVE  Good
    <2>1. subscription[s] \in SubscriptionOf
        BY <1>1, <1>5 DEF EndSubscription, Running
    <2>2. Deleted(s) \in EventOf
        BY <2>1 DEF Deleted, Customer, SubscriptionOf, EventOf
    <2>3. events' = events \cup {Deleted(s)} /\ UNCHANGED <<org, held, subscription>>
        BY <1>5 DEF EndSubscription
    <2>4. BillingTypeOK' /\ events \subseteq events'
        BY <1>1, <2>2, <2>3 DEF IInv, TablesOK, BillingTypeOK
    <2> QED BY <2>3, <2>4, BillingGood
<1> QED BY <1>3, <1>4, <1>5

LEMMA BillingKeeps ==
    ASSUME IInv, BillingNext, UNCHANGED library
    PROVE  IInv'
<1>1. ASSUME NEW w \in Workers, StartCheckout(w)
      PROVE  IInv'
    <2>1. PICK p \in Prices :
              Becomes(w, [op |-> "checkout", customer |-> org.customer, price |-> p])
        BY <1>1, PricesAssumption DEF StartCheckout, Begin, Becomes
    <2>2. PICK c \in Customers \cup {None} : c = org.customer
        BY DEF IInv, TablesOK, BillingTypeOK, OrgOf
    <2> DEFINE r == [op |-> "checkout", customer |-> c, price |-> p]
    <2>3. r \in RequestOf /\ RequestInv(r)'
        BY DEF RequestOf, CheckoutOf, RequestInv
    <2>4. Good
        BY <1>1, BillingGood DEF StartCheckout, billing, IInv, TablesOK, BillingTypeOK
    <2> QED BY <2>1, <2>2, <2>3, <2>4, StepsKeep
<1>2. ASSUME NEW w \in Workers, CancelCheckout(w)
      PROVE  IInv'
    <2>1. Good
        BY <1>2, BillingGood DEF CancelCheckout, billing, IInv, TablesOK, BillingTypeOK
    <2> QED BY <1>2, <2>1, IdleOK, StepsKeep DEF CancelCheckout
<1>3. ASSUME NEW w \in Workers, LoadForWebhook(w)
      PROVE  IInv'
    <2>1. PICK e \in events : Becomes(w, [op |-> "webhook", event |-> e, row |-> org])
        BY <1>3 DEF LoadForWebhook, Begin, Becomes
    <2>2. /\ e \in EventOf /\ events' = events
          /\ org \in OrgOf
        BY <1>3 DEF LoadForWebhook, billing, IInv, TablesOK, BillingTypeOK
    <2>0. PICK o \in OrgOf : o = org
        BY <2>2
    <2> DEFINE r == [op |-> "webhook", event |-> e, row |-> o]
    <2>3. r \in RequestOf /\ RequestInv(r)'
        BY <2>2 DEF RequestOf, WebhookOf, RequestInv
    <2>4. Good
        BY <1>3, BillingGood DEF LoadForWebhook, billing, IInv, TablesOK, BillingTypeOK
    <2> QED BY <2>0, <2>1, <2>3, <2>4, StepsKeep
<1>4. ASSUME NEW w \in Workers, CommitWebhook(w)
      PROVE  IInv'
    <2> DEFINE r == request[w]
    <2>1. r.event \in EventOf /\ r.row \in OrgOf
        BY <1>4, KindsDiffer DEF CommitWebhook, IInv, WebhookOf
    <2>2. /\ org' = Updated(r.row, Written(r.row, r.event)) /\ Close(w)
          /\ held' = held \cup {org'.plan} /\ UNCHANGED <<subscription, events>>
        BY <1>4 DEF CommitWebhook
    <2>3. org \in OrgOf /\ held \subseteq Plans
        BY DEF IInv, TablesOK, BillingTypeOK
    <2>4. org' \in OrgOf
        BY <2>1, <2>2, <2>3, EventsWritten, RowsUpdated
    <2>5. org'.plan \in Plans
        BY <2>4 DEF OrgOf
    <2>6. BillingTypeOK'
        BY <2>2, <2>3, <2>4, <2>5 DEF IInv, TablesOK, BillingTypeOK
    <2>7. Good
        BY <2>2, <2>6, BillingGood
    <2> QED BY <2>2, <2>7, IdleOK, StepsKeep
<1>5. ASSUME NEW w \in Workers, Subscribe(w)
      PROVE  IInv'
    BY <1>5, StripeKeeps, IdleOK, StepsKeep DEF Subscribe
<1>6. ASSUME NEW s \in Subscriptions, Change(s) \/ EndSubscription(s)
      PROVE  IInv'
    BY <1>6, StripeKeeps, StepsKeep DEF Change, EndSubscription
<1> QED BY <1>1, <1>2, <1>3, <1>4, <1>5, <1>6 DEF BillingNext

----------------------------------------------------------------------------
(***************************************************************************)
(* The library.                                                            *)
(***************************************************************************)
LEMMA NothingChanges ==
    ASSUME IInv, UNCHANGED <<billing, library>>
    PROVE  Good
<1>1. BillingTypeOK' /\ UNCHANGED <<held, events>>
    BY DEF billing, IInv, TablesOK, BillingTypeOK
<1> QED BY <1>1, BillingGood

LEMMA AsksOK ==
    ASSUME IInv, NEW w \in Workers, NEW r \in RequestOf, Becomes(w, r), RequestInv(r),
           UNCHANGED <<billing, library>>
    PROVE  IInv'
<1>1. Good
    BY NothingChanges
<1>2. PICK q : q = r
    OBVIOUS
<1>3. q \in RequestOf /\ Becomes(w, q) /\ RequestInv(q)'
    BY <1>1, <1>2, OthersOK DEF Good
<1> QED BY <1>1, <1>3, StepsKeep

LEMMA AgentsGood ==
    ASSUME IInv, NEW a \in Agents, NEW n \in AgentNames, agent' = [agent EXCEPT ![a] = n],
           UNCHANGED <<billing, tally, workflow>>
    PROVE  Good /\ a \in AgentRows' /\ AgentRows' = AgentRows \cup {a}
<1>1. /\ agent' \in [Agents -> AgentNames \cup {None}]
      /\ \A b \in Agents : agent'[b] = IF b = a THEN n ELSE agent[b]
    BY DEF IInv, TablesOK
<1>2. n # None
    BY RowsAssumption
<1>3. AgentRows' = AgentRows \cup {a}
    BY <1>1, <1>2 DEF AgentRows
<1>4. BillingTypeOK' /\ UNCHANGED <<held, events>>
    BY DEF billing, IInv, TablesOK, BillingTypeOK
<1>5. TablesOK'
    BY <1>1, <1>3, <1>4 DEF IInv, TablesOK, WorkflowRows, Owned
<1>6. Kept
    BY <1>3, <1>4 DEF Kept, WorkflowRows
<1> QED BY <1>3, <1>5, <1>6 DEF Good

LEMMA WorkflowsGood ==
    ASSUME IInv, NEW d \in Workflows, NEW row \in WorkflowOf, Owned(row),
           workflow' = [workflow EXCEPT ![d] = row],
           d \in WorkflowRows => /\ workflow[d].steps \subseteq row.steps
                                 /\ workflow[d].transitions \subseteq row.transitions,
           UNCHANGED <<billing, tally, agent>>
    PROVE  /\ Good /\ d \in WorkflowRows'
           /\ \A x \in Workflows : workflow'[x] = IF x = d THEN row ELSE workflow[x]
<1>1. /\ workflow' \in [Workflows -> WorkflowOf \cup {None}]
      /\ \A x \in Workflows : workflow'[x] = IF x = d THEN row ELSE workflow[x]
    BY DEF IInv, TablesOK
<1>2. row # None
    BY NoWorkflowAssumption
<1>3. WorkflowRows' = WorkflowRows \cup {d} /\ AgentRows' = AgentRows
    BY <1>1, <1>2 DEF WorkflowRows, AgentRows
<1>4. BillingTypeOK' /\ UNCHANGED <<held, events>>
    BY DEF billing, IInv, TablesOK, BillingTypeOK
<1>5. \A x \in WorkflowRows' : Owned(workflow[x])'
    BY <1>1, <1>3 DEF IInv, TablesOK, WorkflowRows, Owned
<1>6. TablesOK'
    BY <1>1, <1>4, <1>5 DEF IInv, TablesOK
<1>7. Kept
    BY <1>1, <1>3, <1>4 DEF Kept, WorkflowRows
<1> QED BY <1>1, <1>3, <1>6, <1>7 DEF Good

LEMMA CreatesKeep ==
    ASSUME IInv, NEW w \in Workers, LoadForCreate(w) \/ CountRows(w)
    PROVE  IInv'
<1>1. org.plan \in Plans /\ org.plan \in held
    BY DEF IInv, TablesOK, BillingTypeOK, OrgOf
<1>2. UNCHANGED <<billing, library>>
    BY DEF LoadForCreate, CountRows
<1>3. CASE LoadForCreate(w)
    <2>1. PICK k \in Kinds, n \in AgentNames \cup WorkflowNames \cup {None} :
              /\ k = "agents" => n \in AgentNames
              /\ k = "workflows" => n \in WorkflowNames
              /\ Becomes(w, Creating(k, n, NoTask))
        BY <1>3 DEF LoadForCreate, Begin, Becomes
    <2> DEFINE r == Creating(k, n, NoTask)
    <2>2. r \in RequestOf
        BY <1>1 DEF Creating, RequestOf, CreateOf
    <2>3. RequestInv(r)
        BY <1>1, <2>1 DEF Creating, RequestInv
    <2>4. Becomes(w, r)
        BY <2>1
    <2> HIDE DEF r
    <2> QED BY <1>2, <2>2, <2>3, <2>4, AsksOK
<1>4. CASE CountRows(w)
    <2> DEFINE q == request[w]
               r == [q EXCEPT !.counted = TRUE]
    <2>1. q \in CreateOf /\ RequestInv(q)
        BY <1>4, KindsDiffer DEF CountRows, IInv
    <2>2. Becomes(w, r)
        BY <1>4 DEF CountRows, Becomes
    <2> HIDE DEF q
    <2>3. /\ r \in CreateOf /\ r.op = "create" /\ r.kind = q.kind /\ r.name = q.name
          /\ r.plan = q.plan /\ r.task = q.task /\ q.op = "create"
        BY <2>1 DEF CreateOf
    <2> HIDE DEF r
    <2>4. r \in RequestOf /\ RequestInv(r)
        BY <2>1, <2>3 DEF RequestInv, RequestOf
    <2> QED BY <1>2, <2>2, <2>4, AsksOK
<1> QED BY <1>3, <1>4

\* What a call of a preset returns with is a task again.
LEMMA TasksGoOn ==
    ASSUME IInv, Good, NEW w \in Workers, NEW t, GoOn(w, t),
           request[w].task # NoTask => t \in TaskOf /\ TaskInv(t)'
    PROVE  IInv'
<1>1. CASE request[w].task = NoTask
    BY <1>1, IdleOK, StepsKeep DEF GoOn
<1>2. CASE request[w].task # NoTask
    <2> DEFINE r == [op |-> "preset", task |-> t]
    <2>1. r \in RequestOf /\ RequestInv(r)'
        BY <1>2 DEF RequestOf, PresetOf, RequestInv
    <2>2. Becomes(w, r)
        BY <1>2 DEF GoOn, Becomes
    <2> QED BY <2>1, <2>2, StepsKeep
<1> QED BY <1>1, <1>2

LEMMA InsertsKeep ==
    ASSUME IInv, NEW w \in Workers,
           InsertUserOrContract(w) \/ InsertAgent(w) \/ InsertWorkflow(w)
    PROVE  IInv'
<1> DEFINE q == request[w]
<1>1. q \in CreateOf /\ RequestInv(q) /\ q.op = "create"
    BY KindsDiffer DEF InsertUserOrContract, InsertAgent, InsertWorkflow, IInv
<1>2. PICK t : t = q.task
    OBVIOUS
<1>3. t \in TaskOf \cup {NoTask}
    BY <1>1, <1>2 DEF CreateOf
<1>4. CASE InsertUserOrContract(w)
    <2>1. /\ Close(w) /\ UNCHANGED <<billing, agent, workflow>>
          /\ tally' \in [{"users", "contracts"} -> Nat]
        BY <1>4 DEF InsertUserOrContract, IInv, TablesOK
    <2>2. BillingTypeOK' /\ UNCHANGED <<held, events>>
        BY <2>1 DEF billing, IInv, TablesOK, BillingTypeOK
    <2>3. Good
        BY <2>1, <2>2 DEF Good, Kept, IInv, TablesOK, WorkflowRows, AgentRows, Owned
    <2> QED BY <2>1, <2>3, IdleOK, StepsKeep
<1>5. CASE InsertAgent(w)
    <2>1. PICK a \in Agents, n \in AgentNames :
              /\ n = q.name /\ agent' = [agent EXCEPT ![a] = n]
              /\ GoOn(w, [t EXCEPT !.ids[n] = a])
        BY <1>1, <1>2, <1>5 DEF InsertAgent, RequestInv
    <2>2. Good /\ a \in AgentRows' /\ AgentRows' = AgentRows \cup {a}
        BY <1>5, <2>1, AgentsGood DEF InsertAgent
    <2>3. ASSUME t # NoTask
          PROVE  [t EXCEPT !.ids[n] = a] \in TaskOf /\ TaskInv([t EXCEPT !.ids[n] = a])'
        <3>1. t \in TaskOf /\ TaskInv(t) /\ t.workflow = None /\ t.name = None
            BY <1>1, <1>2, <1>3, <1>5, <2>3 DEF InsertAgent, RequestInv
        <3> DEFINE ids == [t.ids EXCEPT ![n] = a]
                   u == [t EXCEPT !.ids = ids]
        <3>2. /\ t.ids \in [Range(t.preset.agents) -> Agents \cup {None}]
              /\ ids \in [Range(t.preset.agents) -> Agents \cup {None}]
              /\ \A x \in Range(t.preset.agents) : ids[x] \in {a, t.ids[x]}
            BY <3>1, TaskFields
        <3> HIDE DEF ids
        <3>3. /\ u \in TaskOf /\ u.preset = t.preset /\ u.ids = ids /\ u.name = t.name
              /\ u.workflow = t.workflow /\ u.built = t.built
            BY <3>1, <3>2, TaskFields
        <3>4. u = [t EXCEPT !.ids[n] = a]
            BY DEF ids
        <3> HIDE DEF u
        <3>5. TaskInv(u)'
            BY <2>2, <3>1, <3>2, <3>3 DEF TaskInv
        <3> QED BY <3>3, <3>4, <3>5
    <2> QED BY <1>2, <2>1, <2>2, <2>3, TasksGoOn
<1>6. CASE InsertWorkflow(w)
    <2>1. PICK d \in Workflows \ WorkflowRows, n \in WorkflowNames :
              /\ workflow' = [workflow EXCEPT ![d] = Draft(n)]
              /\ GoOn(w, [t EXCEPT !.workflow = d])
        BY <1>1, <1>2, <1>6 DEF InsertWorkflow, RequestInv
    <2>2. Draft(n) \in WorkflowOf /\ Owned(Draft(n))
        BY DEF Draft, WorkflowOf, Owned
    <2>3. Good /\ d \in WorkflowRows'
        BY <1>6, <2>1, <2>2, WorkflowsGood DEF InsertWorkflow
    <2>4. ASSUME t # NoTask
          PROVE  [t EXCEPT !.workflow = d] \in TaskOf /\ TaskInv([t EXCEPT !.workflow = d])'
        <3>1. t \in TaskOf /\ TaskInv(t) /\ t.workflow = None /\ t.name # None
            BY <1>1, <1>2, <1>3, <1>6, <2>4 DEF InsertWorkflow, RequestInv
        <3> DEFINE u == [t EXCEPT !.workflow = d]
        <3>2. /\ u \in TaskOf /\ u.preset = t.preset /\ u.ids = t.ids /\ u.name = t.name
              /\ u.workflow = d /\ u.built = t.built
            BY <3>1, TaskFields
        <3>3. t.built = 0 /\ Len(t.preset.steps) \in Nat
            BY <3>1, TaskFields, PresetFacts DEF TaskInv
        <3> HIDE DEF u
        <3>4. Whole(u)'
            BY <3>2, <3>3 DEF Whole
        <3>5. d # None
            BY RowsAssumption
        <3>6. TaskInv(u)'
            BY <2>3, <3>1, <3>2, <3>4, <3>5 DEF TaskInv, Good, Kept
        <3> QED BY <3>2, <3>6 DEF u
    <2> QED BY <1>2, <2>1, <2>3, <2>4, TasksGoOn
<1> QED BY <1>4, <1>5, <1>6

LEMMA RenamesKeep ==
    ASSUME IInv, NEW w \in Workers,
           \/ LoadForRenameAgent(w) \/ RenameAgent(w) \/ LoadForRename(w) \/ RenameWorkflow(w)
    PROVE  IInv'
<1>1. CASE LoadForRenameAgent(w)
    <2>1. PICK a \in AgentRows, n \in AgentNames :
              Becomes(w, [op |-> "renameAgent", agent |-> a, name |-> n])
        BY <1>1 DEF LoadForRenameAgent, Begin, Becomes
    <2> DEFINE r == [op |-> "renameAgent", agent |-> a, name |-> n]
    <2>2. r \in RequestOf /\ RequestInv(r)
        BY DEF RequestOf, RenameAgentOf, RequestInv, AgentRows
    <2> QED BY <1>1, <2>1, <2>2, AsksOK DEF LoadForRenameAgent
<1>2. CASE RenameAgent(w)
    <2>1. PICK a \in Agents, n \in AgentNames : agent' = [agent EXCEPT ![a] = n]
        BY <1>2, KindsDiffer DEF RenameAgent, IInv, RenameAgentOf
    <2>2. Close(w) /\ UNCHANGED <<billing, tally, workflow>>
        BY <1>2 DEF RenameAgent
    <2>3. Good
        BY <2>1, <2>2, AgentsGood
    <2> QED BY <2>2, <2>3, IdleOK, StepsKeep
<1>3. CASE LoadForRename(w)
    <2>1. PICK d \in WorkflowRows, n \in WorkflowNames :
              Becomes(w, [op |-> "rename", workflow |-> d, name |-> n])
        BY <1>3 DEF LoadForRename, Begin, Becomes
    <2> DEFINE r == [op |-> "rename", workflow |-> d, name |-> n]
    <2>2. r \in RequestOf /\ RequestInv(r)
        BY DEF RequestOf, RenameOf, RequestInv, WorkflowRows
    <2> QED BY <1>3, <2>1, <2>2, AsksOK DEF LoadForRename
<1>4. CASE RenameWorkflow(w)
    <2>1. PICK d \in WorkflowRows, n \in WorkflowNames :
              workflow' = [workflow EXCEPT ![d].name = n]
        BY <1>4, KindsDiffer DEF RenameWorkflow, IInv, RenameOf, RequestInv
    <2>2. Close(w) /\ UNCHANGED <<billing, tally, agent>>
        BY <1>4 DEF RenameWorkflow
    <2> DEFINE row == [workflow[d] EXCEPT !.name = n]
    <2>3. d \in Workflows /\ workflow[d] \in WorkflowOf /\ Owned(workflow[d])
        BY DEF IInv, TablesOK, WorkflowRows
    <2>4. /\ row \in WorkflowOf /\ row.steps = workflow[d].steps
          /\ row.transitions = workflow[d].transitions
        BY <2>3 DEF WorkflowOf
    <2>5. workflow' = [workflow EXCEPT ![d] = row]
        BY <2>1
    <2> HIDE DEF row
    <2>6. Owned(row)
        BY <2>3, <2>4 DEF Owned
    <2>7. Good
        BY <2>2, <2>3, <2>4, <2>5, <2>6, WorkflowsGood
    <2> QED BY <2>2, <2>7, IdleOK, StepsKeep
<1> QED BY <1>1, <1>2, <1>3, <1>4

LEMMA ClonesKeep ==
    ASSUME IInv, NEW w \in Workers, LoadForDuplicate(w) \/ InsertClone(w)
    PROVE  IInv'
<1>1. CASE LoadForDuplicate(w)
    <2>1. PICK d \in WorkflowRows :
              /\ SomeFree(CopyNames[workflow[d].name], SlugsBeside({}))
              /\ Becomes(w, [op |-> "duplicate", source |-> workflow[d],
                             name |-> FirstFree(CopyNames[workflow[d].name], SlugsBeside({}))])
        BY <1>1 DEF LoadForDuplicate, Begin, Becomes
    <2>2. workflow[d] \in WorkflowOf /\ Owned(workflow[d])
        BY DEF IInv, TablesOK, WorkflowRows
    <2>3. workflow[d].name \in WorkflowNames
        BY <2>2 DEF WorkflowOf
    <2>4. PICK names \in Seq(WorkflowNames) : names = CopyNames[workflow[d].name]
        BY <2>3, NamesAssumption
    <2>5. FirstFree(names, SlugsBeside({})) \in WorkflowNames
        BY <2>1, <2>4, FirstFreeIsAName
    <2>6. PICK n \in WorkflowNames, row \in WorkflowOf :
              n = FirstFree(names, SlugsBeside({})) /\ row = workflow[d]
        BY <2>2, <2>5
    <2> DEFINE r == [op |-> "duplicate", source |-> row, name |-> n]
    <2>7. r \in RequestOf /\ RequestInv(r)
        BY <2>2, <2>6 DEF RequestOf, DuplicateOf, RequestInv
    <2>8. Becomes(w, r) /\ UNCHANGED <<billing, library>>
        BY <1>1, <2>1, <2>4, <2>6 DEF LoadForDuplicate
    <2> QED BY <2>7, <2>8, AsksOK
<1>2. CASE InsertClone(w)
    <2>1. PICK r \in DuplicateOf : r = request[w] /\ Owned(r.source)
        BY <1>2, KindsDiffer DEF InsertClone, IInv, RequestInv
    <2> DEFINE row == [r.source EXCEPT !.name = r.name, !.active = FALSE, !.clone = TRUE]
    <2>2. PICK d \in Workflows \ WorkflowRows : workflow' = [workflow EXCEPT ![d] = row]
        BY <1>2, <2>1 DEF InsertClone
    <2>3. row \in WorkflowOf /\ row.steps = r.source.steps
        <3>1. r.source \in WorkflowOf /\ r.name \in WorkflowNames
            BY DEF DuplicateOf
        <3> QED BY <3>1 DEF WorkflowOf
    <2> HIDE DEF row
    <2>4. Owned(row)
        BY <2>1, <2>3 DEF Owned
    <2>5. Close(w) /\ UNCHANGED <<billing, tally, agent>>
        BY <1>2 DEF InsertClone
    <2>6. Good
        BY <2>2, <2>3, <2>4, <2>5, WorkflowsGood
    <2> QED BY <2>5, <2>6, IdleOK, StepsKeep
<1> QED BY <1>1, <1>2

LEMMA PresetsAsk ==
    ASSUME IInv, NEW w \in Workers,
           \/ LoadForPreset(w) \/ CreateMissingAgent(w) \/ ChooseName(w)
           \/ CreatePresetWorkflow(w) \/ FinishPreset(w) \/ Stop(w)
    PROVE  IInv'
<1>1. UNCHANGED <<billing, library>>
    BY DEF LoadForPreset, CreateMissingAgent, ChooseName, CreatePresetWorkflow, FinishPreset, Stop
<1>2. CASE LoadForPreset(w)
    <2>1. PICK p \in Presets :
              Becomes(w, [op |-> "preset",
                          task |-> [preset |-> p, ids |-> [n \in Range(p.agents) |-> IdOf(n)],
                                    name |-> None, workflow |-> None, built |-> 0]])
        BY <1>2 DEF LoadForPreset, Begin, Becomes
    <2>2. \A n : IdOf(n) \in AgentRows \cup {None}
        BY DEF IdOf
    <2>3. PICK ids \in [Range(p.agents) -> AgentRows \cup {None}] :
              ids = [n \in Range(p.agents) |-> IdOf(n)]
        BY <2>2
    <2> DEFINE t == [preset |-> p, ids |-> ids, name |-> None, workflow |-> None, built |-> 0]
               r == [op |-> "preset", task |-> t]
    <2>4. t \in [preset : {p}, ids : [Range(p.agents) -> Agents \cup {None}],
                 name : WorkflowNames \cup {None}, workflow : Workflows \cup {None},
                 built : 0..Len(p.steps) + Len(p.transitions)]
        <3>1. 0 \in 0..Len(p.steps) + Len(p.transitions)
            <4>1. PICK n, m \in Nat : n = Len(p.steps) /\ m = Len(p.transitions)
                BY PresetFacts
            <4>2. 0 \in 0..n + m
                OBVIOUS
            <4> QED BY <4>1, <4>2
        <3>2. ids \in [Range(p.agents) -> Agents \cup {None}]
            BY DEF AgentRows
        <3> QED BY <3>1, <3>2
    <2>5. t \in TaskOf
        BY <2>4 DEF TaskOf
    <2>6. TaskInv(t)
        BY <2>3 DEF TaskInv
    <2>7. Becomes(w, r)
        BY <2>1, <2>3
    <2> HIDE DEF t
    <2>8. r \in RequestOf /\ RequestInv(r)
        BY <2>5, <2>6 DEF RequestOf, PresetOf, RequestInv
    <2> QED BY <1>1, <2>7, <2>8, AsksOK
<1>3. CASE FinishPreset(w) \/ Stop(w)
    BY <1>1, <1>3, NothingChanges, IdleOK, StepsKeep DEF FinishPreset, Stop
<1>4. ASSUME CreateMissingAgent(w) \/ ChooseName(w) \/ CreatePresetWorkflow(w)
      PROVE  IInv'
    <2> DEFINE t == request[w].task
    <2>1. request[w] \in PresetOf /\ request[w].op = "preset" /\ TaskInv(t)
        BY <1>4, KindsDiffer
        DEF CreateMissingAgent, ChooseName, CreatePresetWorkflow, IInv, RequestInv
    <2>2. t \in TaskOf
        BY <2>1 DEF PresetOf
    <2>3. org.plan \in Plans /\ org.plan \in held
        BY DEF IInv, TablesOK, BillingTypeOK, OrgOf
    <2>4. CASE CreateMissingAgent(w)
        <3>1. PICK i \in Missing(t) : Becomes(w, Creating("agents", t.preset.agents[i], t))
            BY <2>4 DEF CreateMissingAgent, Becomes
        <3> HIDE DEF t
        <3>2. /\ t.preset.agents[i] \in AgentNames
              /\ t.preset.agents[i] \in Range(t.preset.agents)
              /\ t.ids[t.preset.agents[i]] = None
            BY <2>2, TaskFields, PresetFacts DEF Missing
        <3>3. t.name = None /\ t.workflow = None
            BY <2>1, <3>2 DEF TaskInv
        <3> DEFINE r == Creating("agents", t.preset.agents[i], t)
        <3>4. r \in RequestOf
            BY <2>2, <2>3, <3>2 DEF Creating, RequestOf, CreateOf, Kinds
        <3>5. RequestInv(r)
            BY <2>1, <2>3, <3>2, <3>3 DEF Creating, RequestInv
        <3>6. Becomes(w, r)
            BY <3>1
        <3> HIDE DEF r
        <3> QED BY <1>1, <3>4, <3>5, <3>6, AsksOK
    <2>5. CASE ChooseName(w)
        <3> DEFINE n == FirstFree(PresetNames[t.preset.name], SlugsBeside({}))
        <3>1. /\ Becomes(w, [request[w] EXCEPT !.task = [t EXCEPT !.name = n]])
              /\ Missing(t) = {} /\ t.name = None
              /\ SomeFree(PresetNames[t.preset.name], SlugsBeside({}))
            BY <2>5 DEF ChooseName, Becomes
        <3> DEFINE u == [t EXCEPT !.name = n]
                   r == [request[w] EXCEPT !.task = u]
        <3>2. n \in WorkflowNames
            <4>1. t.preset \in Presets
                BY <2>2, TaskFields
            <4>2. PresetNames[t.preset.name] \in Seq(WorkflowNames)
                BY <4>1, PresetsAssumption
            <4> QED BY <3>1, <4>2, FirstFreeIsAName
        <3> HIDE DEF n
        <3>3. /\ u \in TaskOf /\ u.preset = t.preset /\ u.ids = t.ids /\ u.name = n
              /\ u.workflow = t.workflow /\ u.built = t.built
            BY <2>2, <3>2, TaskFields
        <3>4. \A x \in Range(t.preset.agents) : t.ids[x] # None
            <4>1. t.preset \in Presets
                BY <2>2, TaskFields
            <4>2. \A x \in Range(t.preset.agents) :
                      \E i \in DOMAIN t.preset.agents : t.preset.agents[i] = x
                BY <4>1, PresetFacts
            <4> QED BY <3>1, <4>2 DEF Missing
        <3>5. t.workflow = None
            BY <2>1, <3>1 DEF TaskInv
        <3>6. Becomes(w, r)
            BY <3>1
        <3> HIDE DEF u, t
        <3>7. TaskInv(u)
            BY <2>1, <3>3, <3>4, <3>5 DEF TaskInv
        <3>8. r \in PresetOf /\ r.op = "preset" /\ r.task = u
            BY <2>1, <3>3 DEF PresetOf
        <3> HIDE DEF r
        <3>9. r \in RequestOf /\ RequestInv(r)
            BY <3>7, <3>8 DEF RequestOf, RequestInv
        <3> QED BY <1>1, <3>6, <3>9, AsksOK
    <2>6. CASE CreatePresetWorkflow(w)
        <3>1. /\ Becomes(w, Creating("workflows", t.name, t))
              /\ t.name # None /\ t.workflow = None
            BY <2>6 DEF CreatePresetWorkflow, Becomes
        <3> HIDE DEF t
        <3>2. t.name \in WorkflowNames
            BY <2>2, <3>1, TaskFields
        <3> DEFINE r == Creating("workflows", t.name, t)
        <3>3. r \in RequestOf
            BY <2>2, <2>3, <3>2 DEF Creating, RequestOf, CreateOf, Kinds
        <3>4. RequestInv(r)
            BY <2>1, <2>3, <3>1, <3>2 DEF Creating, RequestInv
        <3>5. Becomes(w, r)
            BY <3>1
        <3> HIDE DEF r
        <3> QED BY <1>1, <3>3, <3>4, <3>5, AsksOK
    <2> QED BY <1>4, <2>4, <2>5, <2>6
<1> QED BY <1>2, <1>3, <1>4

\* What a task of w has built: the next step, the next transition.
LEMMA BuildsKeep ==
    ASSUME IInv, NEW w \in Workers, AddNextStep(w) \/ AddNextTransition(w)
    PROVE  IInv'
<1>1. PICK q \in PresetOf : q = request[w] /\ q.op = "preset" /\ TaskInv(q.task)
    BY KindsDiffer DEF AddNextStep, AddNextTransition, IInv, RequestInv
<1>2. PICK t \in TaskOf : t = q.task
    BY DEF PresetOf
<1>3. /\ t.preset \in Presets /\ t.workflow \in WorkflowRows /\ t.workflow # None /\ Whole(t)
      /\ t.name # None /\ \A n \in Range(t.preset.agents) : t.ids[n] \in AgentRows
    BY <1>1, <1>2, TaskFields DEF AddNextStep, AddNextTransition, TaskInv
<1>0. PICK N, M \in Nat : N = Len(t.preset.steps) /\ M = Len(t.preset.transitions)
    BY <1>3, PresetFacts
<1>4. PICK b \in Nat : b = t.built /\ b <= N + M
    <2>1. t.built \in 0..N + M
        BY <1>0, TaskFields
    <2> QED BY <2>1
<1>5. PICK d \in Workflows : d = t.workflow
    BY <1>3 DEF WorkflowRows
<1>6. workflow[d] \in WorkflowOf /\ Owned(workflow[d])
    BY <1>3, <1>5 DEF IInv, TablesOK, WorkflowRows
<1> DEFINE u == [t EXCEPT !.built = b + 1]
           r == [q EXCEPT !.task = u]
<1>7. Becomes(w, r)
    BY <1>1, <1>2, <1>4 DEF AddNextStep, AddNextTransition, Becomes
\* It is enough that the row grows and has the part.
<1>8. ASSUME NEW row \in WorkflowOf, Owned(row), workflow' = [workflow EXCEPT ![d] = row],
             workflow[d].steps \subseteq row.steps,
             workflow[d].transitions \subseteq row.transitions,
             UNCHANGED <<billing, tally, agent>>, b + 1 <= N + M,
             b < N => StepRow(t.preset.steps[b + 1], t.ids) \in row.steps,
             b >= N => t.preset.transitions[b + 1 - N] \in row.transitions
      PROVE  IInv'
    <2>1. /\ Good /\ d \in WorkflowRows'
          /\ \A x \in Workflows : workflow'[x] = IF x = d THEN row ELSE workflow[x]
        BY <1>8, WorkflowsGood
    <2>2. b + 1 \in 0..N + M
        BY <1>8
    <2>3. /\ u \in TaskOf /\ u.preset = t.preset /\ u.ids = t.ids /\ u.name = t.name
          /\ u.workflow = t.workflow /\ u.built = b + 1
        <3>1. b + 1 \in 0..Len(t.preset.steps) + Len(t.preset.transitions)
            BY <1>0, <2>2
        <3> QED BY <3>1, BuiltField
    <2>4. TaskInv(t)'
        BY <1>1, <1>2, <2>1, TasksKeep DEF Good
    <2>5. \A i \in 1..b + 1 :
              i > N \/ StepRow(t.preset.steps[i], t.ids) \in row.steps
        <3>1. \A i \in 1..b :
                  i > N \/ StepRow(t.preset.steps[i], t.ids) \in workflow[d].steps
            BY <1>0, <1>3, <1>4, <1>5 DEF Whole
        <3>2. \A i \in 1..b + 1 : i \in 1..b \/ i = b + 1
            OBVIOUS
        <3>3. b + 1 > N \/ b < N
            OBVIOUS
        <3> QED BY <1>8, <3>1, <3>2, <3>3
    <2>6. \A i \in 1..b + 1 - N : t.preset.transitions[i] \in row.transitions
        <3>1. \A i \in 1..b - N : t.preset.transitions[i] \in workflow[d].transitions
            BY <1>0, <1>3, <1>4, <1>5 DEF Whole
        <3>2. ASSUME NEW i \in 1..b + 1 - N
              PROVE  b >= N /\ (i \in 1..b - N \/ i = b + 1 - N)
            OBVIOUS
        <3> QED BY <1>8, <3>1, <3>2
    <2>7. workflow'[u.workflow] = row
        BY <1>5, <2>1, <2>3
    <2> HIDE DEF u
    <2>8. Whole(u)'
        BY <1>0, <2>3, <2>5, <2>6, <2>7 DEF Whole
    <2>9. TaskInv(u)'
        BY <1>3, <2>3, <2>4, <2>8 DEF TaskInv
    <2>10. r \in PresetOf /\ r.op = "preset" /\ r.task = u
        BY <2>3 DEF PresetOf
    <2> HIDE DEF r
    <2>11. r \in RequestOf /\ RequestInv(r)'
        BY <2>9, <2>10 DEF RequestOf, RequestInv
    <2> QED BY <1>7, <2>1, <2>11, StepsKeep
<1>9. CASE AddNextStep(w)
    <2> DEFINE s == StepRow(t.preset.steps[b + 1], t.ids)
               row == [workflow[d] EXCEPT !.steps = workflow[d].steps \cup {s}]
    <2>1. /\ b < N /\ workflow' = [workflow EXCEPT ![d] = row]
          /\ UNCHANGED <<billing, tally, agent>>
        BY <1>0, <1>1, <1>2, <1>4, <1>5, <1>9 DEF AddNextStep
    <2>2. s \in StepRows /\ s.agent \in AgentRows
        <3>1. t.preset.steps[b + 1] \in Range(t.preset.steps)
            BY <1>0, <1>3, <2>1, PresetFacts
        <3>2. PICK x \in Range(t.preset.steps) : x = t.preset.steps[b + 1]
            BY <3>1
        <3>3. /\ x.owner \in Range(t.preset.agents) /\ x.key \in Keys
              /\ x.initial \in BOOLEAN /\ x.terminal \in BOOLEAN
            BY <1>3, PresetFacts
        <3> QED BY <1>3, <3>2, <3>3 DEF StepRow, StepRows, AgentRows
    <2> HIDE DEF s
    <2>3. /\ row \in WorkflowOf /\ row.steps = workflow[d].steps \cup {s}
          /\ row.transitions = workflow[d].transitions
        BY <1>6, <2>2 DEF WorkflowOf
    <2> HIDE DEF row
    <2>4. Owned(row)
        BY <1>6, <2>2, <2>3 DEF Owned
    <2>5. b + 1 <= N + M /\ ~(b >= N)
        BY <2>1
    <2> QED BY <1>8, <2>1, <2>3, <2>4, <2>5 DEF s
<1>10. CASE AddNextTransition(w)
    <2> DEFINE e == t.preset.transitions[b + 1 - N]
               row == [workflow[d] EXCEPT !.transitions = workflow[d].transitions \cup {e}]
    <2>1. /\ b + 1 - N \in 1..M /\ workflow' = [workflow EXCEPT ![d] = row]
          /\ UNCHANGED <<billing, tally, agent>>
        BY <1>0, <1>1, <1>2, <1>3, <1>4, <1>5, <1>10, PresetFacts DEF AddNextTransition
    <2>2. e \in Edges
        BY <1>0, <1>3, <2>1, PresetFacts
    <2> HIDE DEF e
    <2>3. /\ row \in WorkflowOf /\ row.steps = workflow[d].steps
          /\ row.transitions = workflow[d].transitions \cup {e}
        BY <1>6, <2>2 DEF WorkflowOf
    <2> HIDE DEF row
    <2>4. Owned(row)
        BY <1>6, <2>3 DEF Owned
    <2>5. b + 1 <= N + M /\ ~(b < N)
        BY <2>1
    <2> QED BY <1>8, <2>1, <2>3, <2>4, <2>5 DEF e
<1> QED BY <1>9, <1>10

LEMMA OthersBuild ==
    ASSUME IInv, NEW d \in WorkflowRows, DesignStep(d) \/ DesignTransition(d) \/ Activate(d)
    PROVE  IInv'
<1>1. d \in Workflows /\ workflow[d] \in WorkflowOf /\ Owned(workflow[d])
    BY DEF IInv, TablesOK, WorkflowRows
<1>2. CASE DesignStep(d)
    <2>1. PICK s \in StepRows :
              /\ s.agent \in AgentRows
              /\ workflow' = [workflow EXCEPT ![d].steps = @ \cup {s}]
        BY <1>2 DEF DesignStep
    <2> DEFINE row == [workflow[d] EXCEPT !.steps = workflow[d].steps \cup {s}]
    <2>2. workflow' = [workflow EXCEPT ![d] = row]
        BY <2>1
    <2>3. /\ row \in WorkflowOf /\ row.steps = workflow[d].steps \cup {s}
          /\ row.transitions = workflow[d].transitions
        BY <1>1 DEF WorkflowOf
    <2> HIDE DEF row
    <2>4. Owned(row)
        BY <1>1, <2>1, <2>3 DEF Owned
    <2> QED BY <1>1, <1>2, <2>2, <2>3, <2>4, WorkflowsGood, StepsKeep DEF DesignStep
<1>3. CASE DesignTransition(d)
    <2>1. PICK e \in Edges : workflow' = [workflow EXCEPT ![d].transitions = @ \cup {e}]
        BY <1>3 DEF DesignTransition
    <2> DEFINE row == [workflow[d] EXCEPT !.transitions = workflow[d].transitions \cup {e}]
    <2>2. workflow' = [workflow EXCEPT ![d] = row]
        BY <2>1
    <2>3. /\ row \in WorkflowOf /\ row.steps = workflow[d].steps
          /\ row.transitions = workflow[d].transitions \cup {e}
        BY <1>1 DEF WorkflowOf
    <2> HIDE DEF row
    <2>4. Owned(row)
        BY <1>1, <2>3 DEF Owned
    <2> QED BY <1>1, <1>3, <2>2, <2>3, <2>4, WorkflowsGood, StepsKeep DEF DesignTransition
<1>4. CASE Activate(d)
    <2> DEFINE row == [workflow[d] EXCEPT !.active = TRUE]
    <2>1. workflow' = [workflow EXCEPT ![d] = row]
        BY <1>4 DEF Activate
    <2>2. /\ row \in WorkflowOf /\ row.steps = workflow[d].steps
          /\ row.transitions = workflow[d].transitions
        BY <1>1 DEF WorkflowOf
    <2> HIDE DEF row
    <2>3. Owned(row)
        BY <1>1, <2>2 DEF Owned
    <2> QED BY <1>1, <1>4, <2>1, <2>2, <2>3, WorkflowsGood, StepsKeep DEF Activate
<1> QED BY <1>2, <1>3, <1>4

----------------------------------------------------------------------------
(***************************************************************************)
(* The invariant.                                                          *)
(***************************************************************************)
LEMMA InitInv == Init => IInv
<1> SUFFICES ASSUME Init PROVE IInv
    OBVIOUS
<1>1. BillingTypeOK
    BY DEF Init, BillingInit, BillingTypeOK, OrgOf, Plans
<1>2. TablesOK
    BY <1>1 DEF Init, TablesOK, WorkflowRows
<1>3. request \in [Workers -> RequestOf] /\ \A w \in Workers : RequestInv(request[w])
    BY DEF Init, RequestOf, RequestInv, Idle
<1> QED BY <1>2, <1>3 DEF IInv

LEMMA StepInv == IInv /\ [Next]_vars => IInv'
<1> SUFFICES ASSUME IInv, [Next]_vars PROVE IInv'
    OBVIOUS
<1>1. CASE UNCHANGED vars
    BY <1>1, NothingChanges, StepsKeep DEF vars
<1>2. CASE BillingNext /\ UNCHANGED library
    BY <1>2, BillingKeeps
<1>3. ASSUME NEW w \in Workers,
             \/ LoadForCreate(w) \/ CountRows(w)
             \/ InsertUserOrContract(w) \/ InsertAgent(w) \/ InsertWorkflow(w)
             \/ LoadForRenameAgent(w) \/ RenameAgent(w)
             \/ LoadForRename(w) \/ RenameWorkflow(w)
             \/ LoadForDuplicate(w) \/ InsertClone(w)
             \/ LoadForPreset(w) \/ CreateMissingAgent(w) \/ ChooseName(w)
             \/ CreatePresetWorkflow(w) \/ AddNextStep(w) \/ AddNextTransition(w)
             \/ FinishPreset(w) \/ Stop(w)
      PROVE  IInv'
    BY <1>3, CreatesKeep, InsertsKeep, RenamesKeep, ClonesKeep, PresetsAsk, BuildsKeep
<1>4. ASSUME NEW d \in WorkflowRows, DesignStep(d) \/ DesignTransition(d) \/ Activate(d)
      PROVE  IInv'
    BY <1>4, OthersBuild
<1> QED BY <1>1, <1>2, <1>3, <1>4 DEF Next, LibraryNext

\* The rows have their types, and what requests rely on in them stays.
THEOREM Invariance == Spec => []IInv
BY InitInv, StepInv, PTL DEF Spec

\* The organization's rows, its agents, workflows and requests have their types;
\* every step of a workflow belongs to an agent that exists.
THEOREM TypeCorrect == Spec => []TypeOK
BY Invariance, InvTyped, PTL

\* A preset that nothing refused is built whole, whatever others do to its draft.
THEOREM PresetsAreBuiltWhole == Spec => []PresetsAreWhole
<1>1. IInv => PresetsAreWhole
    BY DEF IInv, RequestInv, TaskInv, Whole, PresetsAreWhole
<1> QED BY <1>1, Invariance, PTL

\* A request has counted nothing, and a webhook holds the row as it is.
Quiet(r) == (r.op = "create" => r.counted = FALSE) /\ (r.op = "webhook" => r.row = org)

\* All steps of a request but CountRows.
QuietStep(w) ==
    \/ StartCheckout(w) \/ CancelCheckout(w) \/ Subscribe(w)
    \/ LoadForWebhook(w) \/ CommitWebhook(w)
    \/ LoadForCreate(w)
    \/ InsertUserOrContract(w) \/ InsertAgent(w) \/ InsertWorkflow(w)
    \/ LoadForRenameAgent(w) \/ RenameAgent(w)
    \/ LoadForRename(w) \/ RenameWorkflow(w)
    \/ LoadForDuplicate(w) \/ InsertClone(w)
    \/ LoadForPreset(w) \/ CreateMissingAgent(w) \/ ChooseName(w)
    \/ CreatePresetWorkflow(w) \/ AddNextStep(w) \/ AddNextTransition(w)
    \/ FinishPreset(w) \/ Stop(w)

LEMMA StepsAsk ==
    ASSUME IInv, NEW w \in Workers, QuietStep(w)
    PROVE  \E r : Becomes(w, r) /\ Quiet(r)
<1>1. ASSUME Close(w)
      PROVE  \E r : Becomes(w, r) /\ Quiet(r)
    <2>1. Becomes(w, Idle) /\ Quiet(Idle)
        BY <1>1, IdleOK DEF Idle, Quiet
    <2> QED BY <2>1
<1>2. ASSUME NEW t, GoOn(w, t)
      PROVE  \E r : Becomes(w, r) /\ Quiet(r)
    <2>1. CASE request[w].task = NoTask
        BY <1>1, <1>2, <2>1 DEF GoOn
    <2>2. CASE request[w].task # NoTask
        <3> DEFINE r == [op |-> "preset", task |-> t]
        <3>1. Becomes(w, r) /\ Quiet(r)
            BY <1>2, <2>2 DEF GoOn, Becomes, Quiet
        <3> QED BY <3>1
    <2> QED BY <2>1, <2>2
<1>3. CASE \/ CancelCheckout(w) \/ Subscribe(w) \/ CommitWebhook(w) \/ InsertUserOrContract(w)
           \/ RenameAgent(w) \/ RenameWorkflow(w) \/ InsertClone(w)
           \/ FinishPreset(w) \/ Stop(w)
    BY <1>1, <1>3 DEF CancelCheckout, Subscribe, CommitWebhook, InsertUserOrContract,
                      RenameAgent, RenameWorkflow, InsertClone, FinishPreset, Stop
<1>4. CASE InsertAgent(w) \/ InsertWorkflow(w)
    BY <1>2, <1>4 DEF InsertAgent, InsertWorkflow
<1>5. CASE StartCheckout(w)
    <2>1. PICK p : Becomes(w, [op |-> "checkout", customer |-> org.customer, price |-> p])
        BY <1>5 DEF StartCheckout, Begin, Becomes
    <2>2. Quiet([op |-> "checkout", customer |-> org.customer, price |-> p])
        BY DEF Quiet
    <2> QED BY <2>1, <2>2
<1>6. CASE LoadForWebhook(w)
    <2>1. PICK e : Becomes(w, [op |-> "webhook", event |-> e, row |-> org])
        BY <1>6 DEF LoadForWebhook, Begin, Becomes
    <2>2. Quiet([op |-> "webhook", event |-> e, row |-> org])
        BY DEF Quiet
    <2> QED BY <2>1, <2>2
<1>7. CASE LoadForRenameAgent(w)
    <2>1. PICK a, n : Becomes(w, [op |-> "renameAgent", agent |-> a, name |-> n])
        BY <1>7 DEF LoadForRenameAgent, Begin, Becomes
    <2>2. Quiet([op |-> "renameAgent", agent |-> a, name |-> n])
        BY DEF Quiet
    <2> QED BY <2>1, <2>2
<1>8. CASE LoadForRename(w)
    <2>1. PICK d, n : Becomes(w, [op |-> "rename", workflow |-> d, name |-> n])
        BY <1>8 DEF LoadForRename, Begin, Becomes
    <2>2. Quiet([op |-> "rename", workflow |-> d, name |-> n])
        BY DEF Quiet
    <2> QED BY <2>1, <2>2
<1>9. CASE LoadForDuplicate(w)
    <2>1. PICK row, n : Becomes(w, [op |-> "duplicate", source |-> row, name |-> n])
        BY <1>9 DEF LoadForDuplicate, Begin, Becomes
    <2>2. Quiet([op |-> "duplicate", source |-> row, name |-> n])
        BY DEF Quiet
    <2> QED BY <2>1, <2>2
<1>10. CASE LoadForPreset(w)
    <2>1. PICK t : Becomes(w, [op |-> "preset", task |-> t])
        BY <1>10 DEF LoadForPreset, Begin, Becomes
    <2>2. Quiet([op |-> "preset", task |-> t])
        BY DEF Quiet
    <2> QED BY <2>1, <2>2
<1>11. CASE LoadForCreate(w)
    <2>1. PICK k, n : Becomes(w, Creating(k, n, NoTask))
        BY <1>11 DEF LoadForCreate, Begin, Becomes
    <2>2. Quiet(Creating(k, n, NoTask))
        BY DEF Creating, Quiet
    <2> QED BY <2>1, <2>2
<1>12. CASE CreateMissingAgent(w)
    <2>1. PICK n, t : Becomes(w, Creating("agents", n, t))
        BY <1>12 DEF CreateMissingAgent, Becomes
    <2>2. Quiet(Creating("agents", n, t))
        BY DEF Creating, Quiet
    <2> QED BY <2>1, <2>2
<1>13. CASE CreatePresetWorkflow(w)
    <2>1. PICK n, t : Becomes(w, Creating("workflows", n, t))
        BY <1>13 DEF CreatePresetWorkflow, Becomes
    <2>2. Quiet(Creating("workflows", n, t))
        BY DEF Creating, Quiet
    <2> QED BY <2>1, <2>2
<1>14. CASE ChooseName(w) \/ AddNextStep(w) \/ AddNextTransition(w)
    <2>1. PICK q \in PresetOf : q = request[w] /\ q.op = "preset"
        BY <1>14, KindsDiffer DEF ChooseName, AddNextStep, AddNextTransition, IInv
    <2>2. \E t : Becomes(w, [q EXCEPT !.task = t])
        BY <1>14, <2>1 DEF ChooseName, AddNextStep, AddNextTransition, Becomes
    <2>3. PICK t : Becomes(w, [q EXCEPT !.task = t])
        BY <2>2
    <2>4. Quiet([q EXCEPT !.task = t])
        <3>1. [q EXCEPT !.task = t].op = "preset"
            BY <2>1 DEF PresetOf
        <3> QED BY <3>1 DEF Quiet
    <2> QED BY <2>3, <2>4
<1> QED
    BY <1>3, <1>4, <1>5, <1>6, <1>7, <1>8, <1>9, <1>10, <1>11, <1>12, <1>13, <1>14
    DEF QuietStep

\* What the library's requests do, billing does not see.
LEMMA LibraryLeavesBilling == LibraryNext => UNCHANGED billing
<1>1. ASSUME NEW w \in Workers,
             \/ LoadForCreate(w) \/ CountRows(w) \/ InsertUserOrContract(w)
             \/ InsertAgent(w) \/ InsertWorkflow(w)
      PROVE  UNCHANGED billing
    BY <1>1 DEF LoadForCreate, CountRows, InsertUserOrContract, InsertAgent, InsertWorkflow
<1>2. ASSUME NEW w \in Workers,
             \/ LoadForRenameAgent(w) \/ RenameAgent(w) \/ LoadForRename(w)
             \/ RenameWorkflow(w) \/ LoadForDuplicate(w) \/ InsertClone(w)
      PROVE  UNCHANGED billing
    BY <1>2 DEF LoadForRenameAgent, RenameAgent, LoadForRename, RenameWorkflow,
                LoadForDuplicate, InsertClone
<1>3. ASSUME NEW w \in Workers,
             \/ LoadForPreset(w) \/ CreateMissingAgent(w) \/ ChooseName(w)
             \/ CreatePresetWorkflow(w)
      PROVE  UNCHANGED billing
    BY <1>3 DEF LoadForPreset, CreateMissingAgent, ChooseName, CreatePresetWorkflow
<1>4. ASSUME NEW w \in Workers,
             AddNextStep(w) \/ AddNextTransition(w) \/ FinishPreset(w) \/ Stop(w)
      PROVE  UNCHANGED billing
    BY <1>4 DEF AddNextStep, AddNextTransition, FinishPreset, Stop
<1>5. ASSUME NEW d \in WorkflowRows, DesignStep(d) \/ DesignTransition(d) \/ Activate(d)
      PROVE  UNCHANGED billing
    BY <1>5 DEF DesignStep, DesignTransition, Activate
<1> QED BY <1>1, <1>2, <1>3, <1>4, <1>5 DEF LibraryNext

\* A webhook that writes the row it read leaves a row that Stripe reported.
LEMMA FreshWebhookStep ==
    ASSUME IInv, [Next]_vars, MirrorsStripe,
           \A w \in Workers :
               request[w].op = "webhook" /\ request'[w] = Idle => request[w].row = org
    PROVE  MirrorsStripe'
<1>1. CASE UNCHANGED org /\ events \subseteq events'
    BY <1>1 DEF MirrorsStripe
<1>2. ASSUME NEW w \in Workers, CommitWebhook(w)
      PROVE  MirrorsStripe'
    <2> DEFINE r == request[w]
               e == r.event
    <2>1. e \in EventOf /\ r.row \in OrgOf /\ e \in events
        BY <1>2, KindsDiffer DEF CommitWebhook, IInv, WebhookOf, RequestInv
    <2>2. r.row = org
        BY <1>2 DEF CommitWebhook, Close, IInv
    <2>3. org' = Written(org, e) /\ org \in OrgOf /\ events' = events
        BY <1>2, <2>1, <2>2, EventsWritten, RowsUpdated DEF CommitWebhook
    <2>4. CASE e \in [type : {"completed"}, customer : Customers]
        <3>1. org' = [org EXCEPT !.customer = e.customer]
            BY <2>3, <2>4 DEF Written
        <3>2. /\ org'.subscription = org.subscription /\ org'.status = org.status
              /\ org'.plan = org.plan
            BY <2>3, <3>1 DEF OrgOf
        <3> QED BY <2>3, <3>2 DEF MirrorsStripe, ResolvePlan
    <2>5. CASE e \in [type : {"subscription"}, id : Subscriptions, customer : Customers,
                      price : Prices, status : Statuses]
        <3>1. /\ e.type = "subscription"
              /\ org' = [org EXCEPT !.subscription = e.id, !.status = e.status,
                                    !.plan = ResolvePlan(e.price)]
            BY <2>3, <2>5 DEF Written
        <3>2. /\ org'.subscription = e.id /\ org'.status = e.status
              /\ org'.plan = ResolvePlan(e.price)
            BY <2>3, <3>1 DEF OrgOf
        <3>3. PICK x \in events' :
                  /\ x.type = "subscription" /\ x.id = org'.subscription
                  /\ x.status = org'.status /\ ResolvePlan(x.price) = org'.plan
            BY <2>1, <2>3, <3>1, <3>2
        <3> QED BY <3>3 DEF MirrorsStripe, ResolvePlan
    <2>6. CASE e \in [type : {"deleted"}, id : Subscriptions, customer : Customers]
        <3>1. org' = [org EXCEPT !.subscription = None, !.status = None, !.plan = "free"]
            BY <2>3, <2>6 DEF Written
        <3>2. org'.subscription = None /\ org'.status = None /\ org'.plan = "free"
            BY <2>3, <3>1 DEF OrgOf
        <3> QED BY <3>2 DEF MirrorsStripe
    <2> QED BY <2>1, <2>4, <2>5, <2>6 DEF EventOf
<1>3. (UNCHANGED org /\ events \subseteq events') \/ \E w \in Workers : CommitWebhook(w)
    <2>1. CASE UNCHANGED vars
        BY <2>1 DEF vars, billing
    <2>2. CASE BillingNext
        <3>1. ASSUME NEW w \in Workers,
                     StartCheckout(w) \/ CancelCheckout(w) \/ LoadForWebhook(w)
              PROVE  UNCHANGED org /\ events \subseteq events'
            BY <3>1 DEF StartCheckout, CancelCheckout, LoadForWebhook, billing
        <3>2. ASSUME NEW w \in Workers, Subscribe(w)
              PROVE  UNCHANGED org /\ events \subseteq events'
            BY <3>2 DEF Subscribe
        <3>3. ASSUME NEW s \in Subscriptions, Change(s) \/ EndSubscription(s)
              PROVE  UNCHANGED org /\ events \subseteq events'
            BY <3>3 DEF Change, EndSubscription
        <3> QED BY <2>2, <3>1, <3>2, <3>3 DEF BillingNext
    <2>3. CASE LibraryNext
        <3>1. UNCHANGED billing
            BY <2>3, LibraryLeavesBilling
        <3> QED BY <3>1 DEF billing
    <2> QED BY <2>1, <2>2, <2>3 DEF Next
<1> QED BY <1>1, <1>2, <1>3

\* As long as each webhook's row is current when it writes, the row that billing
\* decides on is one that Stripe has reported.
THEOREM FreshWebhooksKeep == Spec => FreshWebhooksMirror
<1>1. IInv /\ [Next]_vars =>
          [ /\ MirrorsStripe
            /\ \A w \in Workers :
                   request[w].op = "webhook" /\ request'[w] = Idle => request[w].row = org
            => MirrorsStripe' ]_<<billing, request>>
    BY FreshWebhookStep
<1> QED BY <1>1, Invariance, PTL DEF Spec, FreshWebhooksMirror

OneWebhookAtATime ==
    \A v, w \in Workers :
        request[v].op = "webhook" /\ request[w].op = "webhook" => v = w

RowsCurrent == \A w \in Workers : request[w].op = "webhook" => request[w].row = org

\* Only a webhook writes the row, and then no other holds it.
LEMMA RowsStayCurrent ==
    ASSUME IInv, OneWebhookAtATime, RowsCurrent, [Next]_vars
    PROVE  RowsCurrent'
<1>1. ASSUME NEW w \in Workers, NEW r, Becomes(w, r), Quiet(r), org' = org
      PROVE  RowsCurrent'
    <2>1. request'[w] = r /\ \A x \in Workers \ {w} : request'[x] = request[x]
        BY <1>1 DEF Becomes, IInv
    <2> QED BY <1>1, <2>1 DEF RowsCurrent, Quiet
<1>2. ASSUME NEW w \in Workers, CommitWebhook(w)
      PROVE  RowsCurrent'
    <2>1. request'[w] = Idle /\ \A x \in Workers \ {w} : request'[x] = request[x]
        BY <1>2 DEF CommitWebhook, Close, IInv
    <2>2. \A x \in Workers \ {w} : request[x].op # "webhook"
        BY <1>2 DEF CommitWebhook, OneWebhookAtATime
    <2> QED BY <2>1, <2>2 DEF RowsCurrent, Idle
<1>3. CASE UNCHANGED <<org, request>>
    BY <1>3 DEF RowsCurrent
<1>4. ASSUME NEW w \in Workers, QuietStep(w), org' = org
      PROVE  RowsCurrent'
    BY <1>1, <1>4, StepsAsk
<1>5. ASSUME NEW w \in Workers, CountRows(w)
      PROVE  RowsCurrent'
    <2>1. PICK q \in CreateOf : q = request[w]
        BY <1>5, KindsDiffer DEF CountRows, IInv
    <2>2. /\ request'[w] = [q EXCEPT !.counted = TRUE]
          /\ \A x \in Workers \ {w} : request'[x] = request[x]
          /\ org' = org
        BY <1>5, <2>1 DEF CountRows, IInv, billing
    <2>3. request'[w].op = "create"
        BY <2>2 DEF CreateOf
    <2> QED BY <2>2, <2>3 DEF RowsCurrent
<1>6. CASE UNCHANGED vars
    BY <1>3, <1>6 DEF vars, billing
<1>7. CASE BillingNext
    <2>1. ASSUME NEW w \in Workers,
                 StartCheckout(w) \/ CancelCheckout(w) \/ Subscribe(w) \/ LoadForWebhook(w)
          PROVE  RowsCurrent'
        <3>1. org' = org
            BY <2>1 DEF StartCheckout, CancelCheckout, Subscribe, LoadForWebhook, billing
        <3> QED BY <1>4, <2>1, <3>1 DEF QuietStep
    <2>2. ASSUME NEW s \in Subscriptions, Change(s) \/ EndSubscription(s)
          PROVE  RowsCurrent'
        BY <1>3, <2>2 DEF Change, EndSubscription
    <2> QED BY <1>2, <1>7, <2>1, <2>2 DEF BillingNext
<1>8. CASE LibraryNext
    <2>1. org' = org
        BY <1>8, LibraryLeavesBilling DEF billing
    <2>2. ASSUME NEW d \in WorkflowRows, DesignStep(d) \/ DesignTransition(d) \/ Activate(d)
          PROVE  RowsCurrent'
        BY <1>3, <2>1, <2>2 DEF DesignStep, DesignTransition, Activate
    <2> QED BY <1>4, <1>5, <1>8, <2>1, <2>2 DEF LibraryNext, QuietStep
<1> QED BY <1>6, <1>7, <1>8 DEF Next

\* When no two webhooks are handled at once, the row that billing decides on is
\* always one that Stripe has reported, in whatever order and however often the
\* events arrive.
THEOREM SerialWebhooksMirror == Spec /\ []OneWebhookAtATime => []MirrorsStripe
<1>1. Init => RowsCurrent /\ MirrorsStripe
    BY DEF Init, BillingInit, RowsCurrent, MirrorsStripe, Idle
<1>2. IInv /\ OneWebhookAtATime /\ RowsCurrent /\ MirrorsStripe /\ [Next]_vars
          => (RowsCurrent /\ MirrorsStripe)'
    <2> SUFFICES ASSUME IInv, OneWebhookAtATime, RowsCurrent, MirrorsStripe, [Next]_vars
                 PROVE  (RowsCurrent /\ MirrorsStripe)'
        OBVIOUS
    <2>1. RowsCurrent'
        BY RowsStayCurrent
    <2>2. MirrorsStripe'
        BY FreshWebhookStep DEF RowsCurrent
    <2> QED BY <2>1, <2>2
<1> QED BY <1>1, <1>2, Invariance, PTL DEF Spec

----------------------------------------------------------------------------
(***************************************************************************)
(* The limits.                                                             *)
(*                                                                         *)
(* A request that has counted will insert one more.  It counted less than  *)
(* the limit of a plan that was held, when the others that have counted had *)
(* one insert each to come; so the rows and the requests that will add one *)
(* exceed a limit by less than the requests that have counted at once (n), *)
(* whatever plan comes later.                                              *)
(***************************************************************************)
Armed(k) == {w \in Workers : /\ request[w].op = "create" /\ request[w].kind = k
                             /\ request[w].counted}

NonClones == {d \in WorkflowRows : ~workflow[d].clone}

CountedAtOnce(n) == \A k \in Kinds : Cardinality(Armed(k)) <= n

CountOf(k, n) ==
    (\A p \in held : Limit[p][k] # None) =>
        \E p \in held :
            Counted(k) + Cardinality(Armed(k)) <= Limit[p][k] + n - 1

CountInv(n) == \A k \in Kinds : CountOf(k, n)

LimitsKeptBut(n) ==
    \A k \in Kinds :
        (\A p \in held : Limit[p][k] # None) =>
            \E p \in held : Counted(k) <= Limit[p][k] + n - 1

LEMMA Sizes ==
    ASSUME NEW S, IsFiniteSet(S), NEW T \in SUBSET S, NEW U \in SUBSET S
    PROVE  /\ Cardinality(T) \in Nat
           /\ U \subseteq T => Cardinality(U) <= Cardinality(T)
           /\ \A x : U \subseteq T \cup {x} => Cardinality(U) <= Cardinality(T) + 1
           /\ \A x \in T : U \subseteq T \ {x} => Cardinality(U) <= Cardinality(T) - 1
<1>1. IsFiniteSet(T) /\ IsFiniteSet(U) /\ Cardinality(T) \in Nat /\ Cardinality(U) \in Nat
    BY FS_Subset, FS_CardinalityType
<1>2. U \subseteq T => Cardinality(U) <= Cardinality(T)
    BY <1>1, FS_Subset
<1>3. ASSUME NEW x, U \subseteq T \cup {x}
      PROVE  Cardinality(U) <= Cardinality(T) + 1
    <2>1. /\ IsFiniteSet(T \cup {x}) /\ Cardinality(T \cup {x}) \in Nat
          /\ Cardinality(T \cup {x}) = IF x \in T THEN Cardinality(T) ELSE Cardinality(T) + 1
        BY <1>1, FS_AddElement, FS_CardinalityType
    <2>2. Cardinality(U) <= Cardinality(T \cup {x})
        BY <1>3, <2>1, FS_Subset
    <2> QED BY <1>1, <2>1, <2>2
<1>4. ASSUME NEW x \in T, U \subseteq T \ {x}
      PROVE  Cardinality(U) <= Cardinality(T) - 1
    <2>1. IsFiniteSet(T \ {x}) /\ Cardinality(T \ {x}) = Cardinality(T) - 1
        BY <1>1, FS_RemoveElement
    <2>2. Cardinality(U) <= Cardinality(T \ {x})
        BY <1>4, <2>1, FS_Subset
    <2> QED BY <2>1, <2>2
<1> QED BY <1>1, <1>2, <1>3, <1>4

LEMMA Rows4 ==
    /\ Counted("users") = tally["users"] /\ Counted("contracts") = tally["contracts"]
    /\ Counted("agents") = Cardinality(AgentRows)
    /\ Counted("workflows") = Cardinality(NonClones)
BY DEF Counted, Rows, NonClones

LEMMA CountedTyped ==
    ASSUME IInv, NEW k \in Kinds
    PROVE  Counted(k) \in Nat
<1>1. Cardinality(AgentRows) \in Nat /\ Cardinality(NonClones) \in Nat
    <2>1. AgentRows \in SUBSET Agents /\ NonClones \in SUBSET Workflows
        BY DEF AgentRows, NonClones, WorkflowRows
    <2> QED BY <2>1, Sizes, RowsAssumption
<1>2. tally["users"] \in Nat /\ tally["contracts"] \in Nat
    BY DEF IInv, TablesOK
<1> QED BY <1>1, <1>2, Rows4 DEF Kinds

LEMMA LimitsTyped ==
    ASSUME IInv, NEW k \in Kinds, NEW p \in held, Limit[p][k] # None
    PROVE  Limit[p][k] \in Nat
BY LimitAssumption DEF IInv, TablesOK, BillingTypeOK

LEMMA WorkersCounted ==
    /\ Cardinality(Workers) \in Nat /\ Cardinality(Workers) >= 1
    /\ \A k : Cardinality(Armed(k)) \in Nat
<1>1. Cardinality(Workers) \in Nat /\ Cardinality(Workers) # 0
    BY WorkersAssumption, FS_CardinalityType, FS_EmptySet
<1>2. \A k : Armed(k) \in SUBSET Workers
    BY DEF Armed
<1> QED BY <1>1, <1>2, Sizes, WorkersAssumption

\* A step adds a row only for a request that will not add another.
LEMMA CountsKeep ==
    ASSUME NEW CONSTANT n \in Nat \ {0}, IInv, IInv', NEW k \in Kinds, CountOf(k, n),
           \/ Armed(k)' \subseteq Armed(k) /\ Counted(k)' <= Counted(k)
           \/ \E w \in Armed(k) :
                  Armed(k)' \subseteq Armed(k) \ {w} /\ Counted(k)' <= Counted(k) + 1,
           held \subseteq held'
    PROVE  CountOf(k, n)'
<1>1. /\ Counted(k) \in Nat /\ Counted(k)' \in Nat
      /\ Cardinality(Workers) \in Nat
      /\ Cardinality(Armed(k)) \in Nat /\ Cardinality(Armed(k)') \in Nat
    <2>1. Cardinality(Armed(k)') \in Nat
        BY Sizes, WorkersAssumption DEF Armed
    <2>2. Counted(k)' \in Nat
        <3>1. Cardinality(AgentRows') \in Nat /\ Cardinality(NonClones') \in Nat
            <4>1. AgentRows' \in SUBSET Agents /\ NonClones' \in SUBSET Workflows
                BY DEF AgentRows, NonClones, WorkflowRows
            <4> QED BY <4>1, Sizes, RowsAssumption
        <3>2. tally'["users"] \in Nat /\ tally'["contracts"] \in Nat
            BY DEF IInv, TablesOK
        <3>3. Counted(k)' \in {tally'["users"], tally'["contracts"], Cardinality(AgentRows'),
                               Cardinality(NonClones')}
            BY DEF Counted, Rows, NonClones, Kinds
        <3> QED BY <3>1, <3>2, <3>3
    <2> QED BY <2>1, <2>2, CountedTyped, WorkersCounted
<1>2. Counted(k)' + Cardinality(Armed(k)') <= Counted(k) + Cardinality(Armed(k))
    <2>1. Armed(k) \in SUBSET Workers /\ Armed(k)' \in SUBSET Workers
        BY DEF Armed
    <2>2. /\ Armed(k)' \subseteq Armed(k) => Cardinality(Armed(k)') <= Cardinality(Armed(k))
          /\ \A w \in Armed(k) : Armed(k)' \subseteq Armed(k) \ {w} =>
                 Cardinality(Armed(k)') <= Cardinality(Armed(k)) - 1
        BY <2>1, Sizes, WorkersAssumption
    <2> QED BY <1>1, <2>2
<1>3. ASSUME \A p \in held' : Limit[p][k] # None
      PROVE  \E p \in held' :
                 Counted(k)' + Cardinality(Armed(k)') <= Limit[p][k] + n - 1
    <2>1. PICK p \in held :
              Counted(k) + Cardinality(Armed(k)) <= Limit[p][k] + n - 1
        BY <1>3 DEF CountOf
    <2>2. Limit[p][k] \in Nat
        BY <1>3, LimitsTyped
    <2> QED BY <1>1, <1>2, <2>1, <2>2
<1> QED BY <1>3 DEF CountOf

\* Requests are idle again, or ask for something that has not been counted.
LEMMA ArmedShrinks ==
    ASSUME IInv, NEW w \in Workers, NEW r, Becomes(w, r),
           r.op # "create" \/ r.counted = FALSE
    PROVE  \A k : Armed(k)' \subseteq Armed(k) \ {w}
<1>1. request'[w] = r /\ \A x \in Workers \ {w} : request'[x] = request[x]
    BY DEF Becomes, IInv
<1> QED BY <1>1 DEF Armed

\* All that is not an insert leaves the counted rows.
LEMMA LibraryCounts ==
    ASSUME IInv,
           \/ UNCHANGED library
           \/ \E a \in AgentRows, n \in AgentNames :
                  agent' = [agent EXCEPT ![a] = n] /\ UNCHANGED <<tally, workflow>>
           \/ \E d \in Workflows : \E row :
                  /\ workflow' = [workflow EXCEPT ![d] = row] /\ UNCHANGED <<tally, agent>>
                  /\ row.clone = TRUE \/ (d \in WorkflowRows /\ row.clone = workflow[d].clone)
    PROVE  \A k \in Kinds : Counted(k)' <= Counted(k)
<1>1. Cardinality(AgentRows') <= Cardinality(AgentRows)
    <2>1. AgentRows \in SUBSET Agents /\ AgentRows' \in SUBSET Agents
        BY DEF AgentRows
    <2>2. AgentRows' \subseteq AgentRows
        BY RowsAssumption DEF library, AgentRows, IInv, TablesOK
    <2> QED BY <2>1, <2>2, Sizes, RowsAssumption
<1>2. Cardinality(NonClones') <= Cardinality(NonClones)
    <2>1. NonClones \in SUBSET Workflows /\ NonClones' \in SUBSET Workflows
        BY DEF NonClones, WorkflowRows
    <2>2. NonClones' \subseteq NonClones
        <3>1. CASE UNCHANGED workflow
            BY <3>1 DEF NonClones, WorkflowRows
        <3>2. ASSUME NEW d \in Workflows, NEW row,
                     workflow' = [workflow EXCEPT ![d] = row],
                     row.clone = TRUE \/ (d \in WorkflowRows /\ row.clone = workflow[d].clone)
              PROVE  NonClones' \subseteq NonClones
            <4>1. \A x \in Workflows : workflow'[x] = IF x = d THEN row ELSE workflow[x]
                BY <3>2 DEF IInv, TablesOK
            <4> QED BY <3>2, <4>1 DEF NonClones, WorkflowRows
        <3> QED BY <3>1, <3>2 DEF library
    <2> QED BY <2>1, <2>2, Sizes, RowsAssumption
<1>3. UNCHANGED tally /\ tally["users"] \in Nat /\ tally["contracts"] \in Nat
    BY DEF library, IInv, TablesOK
<1>4. /\ Counted("users")' = tally["users"] /\ Counted("contracts")' = tally["contracts"]
      /\ Counted("agents")' = Cardinality(AgentRows')
      /\ Counted("workflows")' = Cardinality(NonClones')
    BY <1>3 DEF Counted, Rows, NonClones
<1> QED BY <1>1, <1>2, <1>3, <1>4, Rows4 DEF Kinds

\* All but CountRows leave a request that has counted nothing.
LEMMA Disarms ==
    ASSUME IInv, NEW w \in Workers, QuietStep(w)
    PROVE  \A k : Armed(k)' \subseteq Armed(k) \ {w}
<1>1. PICK r : Becomes(w, r) /\ Quiet(r)
    BY StepsAsk
<1> QED BY <1>1, ArmedShrinks DEF Quiet

LEMMA CountInit ==
    ASSUME NEW CONSTANT n \in Nat \ {0}, Init
    PROVE  CountInv(n)
<1> SUFFICES ASSUME NEW k \in Kinds PROVE CountOf(k, n)
    BY DEF CountInv
<1>1. Armed(k) = {} /\ AgentRows = {} /\ NonClones = {}
    BY DEF Init, Armed, Idle, AgentRows, NonClones, WorkflowRows
<1>2. Counted(k) = 0 /\ Cardinality(Armed(k)) = 0
    BY <1>1, Rows4, FS_EmptySet DEF Kinds, Init
<1>3. held = {"free"} /\ (Limit["free"][k] = None \/ Limit["free"][k] \in Nat)
    BY LimitAssumption DEF Init, BillingInit, Plans
<1>4. \A x \in Nat : 0 + 0 <= x + n - 1
    OBVIOUS
<1> QED BY <1>2, <1>3, <1>4 DEF CountOf

\* Steps that only disarm and count no more.
LEMMA QuietKeeps ==
    ASSUME NEW CONSTANT n \in Nat \ {0}, IInv, IInv', CountInv(n),
           \A k : Armed(k)' \subseteq Armed(k),
           \A k \in Kinds : Counted(k)' <= Counted(k), held \subseteq held'
    PROVE  CountInv(n)'
BY CountsKeep DEF CountInv

\* The row that is counted last finds room for itself, and the requests that
\* have counted before it are all of the others at most.
LEMMA CountRowsKeeps ==
    ASSUME NEW CONSTANT n \in Nat \ {0}, IInv, IInv', CountInv(n), CountedAtOnce(n)',
           NEW w \in Workers, CountRows(w)
    PROVE  CountInv(n)'
<1>1. PICK q \in CreateOf : q = request[w] /\ q.op = "create" /\ q.plan \in held
    BY KindsDiffer DEF CountRows, IInv, RequestInv
<1>2. PICK kind \in Kinds, plan \in held : kind = q.kind /\ plan = q.plan
    BY <1>1 DEF CreateOf
<1>3. /\ CanAdd(Limit[plan][kind], Rows(kind)) /\ UNCHANGED <<billing, library>>
      /\ request' = [request EXCEPT ![w].counted = TRUE]
    BY <1>1, <1>2 DEF CountRows
<1>4. /\ \A x \in Workers \ {w} : request'[x] = request[x]
      /\ request'[w] = [q EXCEPT !.counted = TRUE]
    BY <1>1, <1>3 DEF IInv
<1>5. request'[w].kind = kind
    BY <1>2, <1>4 DEF CreateOf
<1>6. UNCHANGED held /\ \A k \in Kinds : Counted(k)' <= Counted(k)
    BY <1>3, LibraryCounts DEF billing
<1>7. ASSUME NEW k \in Kinds, k # kind
      PROVE  CountOf(k, n)'
    <2>1. Armed(k)' \subseteq Armed(k)
        BY <1>4, <1>5, <1>7 DEF Armed
    <2> QED BY <1>6, <2>1, CountsKeep DEF CountInv
<1>8. CountOf(kind, n)'
    <2>1. /\ Counted(kind) \in Nat /\ Rows(kind) \in Nat /\ Counted(kind) <= Rows(kind)
        <3>1. NonClones \in SUBSET WorkflowRows /\ WorkflowRows \in SUBSET Workflows
            BY DEF NonClones, WorkflowRows
        <3>2. NonClones \in SUBSET Workflows /\ AgentRows \in SUBSET Agents
            BY <3>1 DEF AgentRows
        <3>3. /\ Cardinality(NonClones) <= Cardinality(WorkflowRows)
              /\ Cardinality(WorkflowRows) \in Nat /\ Cardinality(AgentRows) \in Nat
            BY <3>1, <3>2, Sizes, RowsAssumption
        <3>4. Counted(kind) \in Nat
            BY CountedTyped
        <3>5. CASE kind = "workflows"
            BY <3>3, <3>4, <3>5, Rows4 DEF Rows
        <3>6. CASE kind # "workflows"
            BY <3>4, <3>6 DEF Counted
        <3> QED BY <3>5, <3>6
    <2>2. Cardinality(Armed(kind)') \in Nat /\ Cardinality(Armed(kind)') <= n
        <3>1. Armed(kind)' \in SUBSET Workers
            BY DEF Armed
        <3>2. Cardinality(Armed(kind)') \in Nat
            BY <3>1, Sizes, WorkersAssumption
        <3> QED BY <3>2 DEF CountedAtOnce
    <2>3. ASSUME \A p \in held' : Limit[p][kind] # None
          PROVE  \E p \in held' : Counted(kind)' + Cardinality(Armed(kind)')
                                     <= Limit[p][kind] + n - 1
        <3>1. Limit[plan][kind] \in Nat /\ Rows(kind) < Limit[plan][kind]
            BY <1>3, <1>6, <2>3, LimitsTyped DEF CanAdd
        <3>2. Counted(kind)' = Counted(kind)
            BY <1>3 DEF library, Counted, Rows, AgentRows, WorkflowRows
        <3>3. Counted(kind) + Cardinality(Armed(kind)')
                  <= Limit[plan][kind] + n - 1
            BY <2>1, <2>2, <3>1
        <3> QED BY <1>6, <3>2, <3>3
    <2> QED BY <2>3 DEF CountOf
<1> QED BY <1>7, <1>8 DEF CountInv

\* One row more, for a request that has counted and will not again.
LEMMA InsertsCount ==
    ASSUME NEW CONSTANT n \in Nat \ {0}, IInv, IInv', CountInv(n), NEW w \in Workers,
           InsertUserOrContract(w) \/ InsertAgent(w) \/ InsertWorkflow(w)
    PROVE  CountInv(n)'
<1>1. PICK kind \in Kinds : kind = request[w].kind /\ w \in Armed(kind)
    <2>1. /\ request[w] \in CreateOf /\ request[w].op = "create" /\ request[w].counted
        BY KindsDiffer DEF InsertUserOrContract, InsertAgent, InsertWorkflow, IInv
    <2> QED BY <2>1 DEF CreateOf, Armed
<1>2. \A k : Armed(k)' \subseteq Armed(k) \ {w}
    BY Disarms DEF QuietStep
<1>3. held \subseteq held'
    BY DEF InsertUserOrContract, InsertAgent, InsertWorkflow, billing
<1>4. /\ AgentRows \in SUBSET Agents /\ AgentRows' \in SUBSET Agents
      /\ NonClones \in SUBSET Workflows /\ NonClones' \in SUBSET Workflows
    BY DEF AgentRows, NonClones, WorkflowRows
<1>5. /\ tally["users"] \in Nat /\ tally["contracts"] \in Nat
      /\ Cardinality(AgentRows) \in Nat /\ Cardinality(NonClones) \in Nat
    BY <1>4, Sizes, RowsAssumption DEF IInv, TablesOK
<1>6. /\ Counted("users")' = tally'["users"] /\ Counted("contracts")' = tally'["contracts"]
      /\ Counted("agents")' = Cardinality(AgentRows')
      /\ Counted("workflows")' = Cardinality(NonClones')
    BY DEF Counted, Rows, NonClones
<1>7. \A k \in Kinds : Counted(k)' <= IF k = kind THEN Counted(k) + 1 ELSE Counted(k)
    <2>1. CASE InsertUserOrContract(w)
        <3>1. /\ kind \in {"users", "contracts"}
              /\ tally' = [tally EXCEPT ![kind] = tally[kind] + 1] /\ UNCHANGED <<agent, workflow>>
            BY <1>1, <2>1 DEF InsertUserOrContract, IInv, TablesOK
        <3>2. AgentRows' = AgentRows /\ NonClones' = NonClones
            BY <3>1 DEF AgentRows, NonClones, WorkflowRows
        <3>3. \A k \in {"users", "contracts"} :
                  tally'[k] = IF k = kind THEN tally[k] + 1 ELSE tally[k]
            BY <3>1 DEF IInv, TablesOK
        <3> QED BY <1>5, <1>6, <3>1, <3>2, <3>3, Rows4 DEF Kinds
    <2>2. CASE InsertAgent(w)
        <3>1. PICK a \in Agents : agent' = [agent EXCEPT ![a] = request[w].name]
            BY <2>2 DEF InsertAgent
        <3>2. kind = "agents" /\ UNCHANGED <<tally, workflow>>
            BY <1>1, <2>2 DEF InsertAgent
        <3>3. AgentRows' \subseteq AgentRows \cup {a}
            BY <3>1 DEF AgentRows, IInv, TablesOK
        <3>4. Cardinality(AgentRows') <= Cardinality(AgentRows) + 1
            BY <1>4, <3>3, Sizes, RowsAssumption
        <3>5. NonClones' = NonClones
            BY <3>2 DEF NonClones, WorkflowRows
        <3> QED BY <1>5, <1>6, <3>2, <3>4, <3>5, Rows4 DEF Kinds
    <2>3. CASE InsertWorkflow(w)
        <3>1. PICK d \in Workflows : workflow' = [workflow EXCEPT ![d] = Draft(request[w].name)]
            BY <2>3 DEF InsertWorkflow
        <3>2. kind = "workflows" /\ UNCHANGED <<tally, agent>>
            BY <1>1, <2>3 DEF InsertWorkflow
        <3>3. NonClones' \subseteq NonClones \cup {d}
            BY <3>1 DEF NonClones, WorkflowRows, IInv, TablesOK
        <3>4. Cardinality(NonClones') <= Cardinality(NonClones) + 1
            BY <1>4, <3>3, Sizes, RowsAssumption
        <3>5. AgentRows' = AgentRows
            BY <3>2 DEF AgentRows
        <3> QED BY <1>5, <1>6, <3>2, <3>4, <3>5, Rows4 DEF Kinds
    <2> QED BY <2>1, <2>2, <2>3
<1>8. ASSUME NEW k \in Kinds
      PROVE  CountOf(k, n)'
    <2>1. CASE k = kind
        BY <1>1, <1>2, <1>3, <1>7, <2>1, CountsKeep DEF CountInv
    <2>2. CASE k # kind
        BY <1>2, <1>3, <1>7, <2>2, CountsKeep DEF CountInv
    <2> QED BY <2>1, <2>2
<1> QED BY <1>8 DEF CountInv

\* A row of a workflow that is there is changed, and stays a clone or not.
LEMMA RowsStay ==
    ASSUME IInv, NEW w \in Workers,
           RenameWorkflow(w) \/ AddNextStep(w) \/ AddNextTransition(w)
    PROVE  \A k \in Kinds : Counted(k)' <= Counted(k)
<1>1. /\ request[w].op = "rename" => request[w].workflow \in WorkflowRows
      /\ request[w].op = "preset" /\ request[w].task.workflow # None =>
             request[w].task.workflow \in WorkflowRows
    BY DEF IInv, RequestInv, TaskInv
<1>2. \A d \in WorkflowRows : d \in Workflows /\ workflow[d] \in WorkflowOf
    BY DEF IInv, TablesOK, WorkflowRows
<1>3. CASE RenameWorkflow(w)
    <2>1. PICK d \in WorkflowRows : \E n :
              workflow' = [workflow EXCEPT ![d] = [workflow[d] EXCEPT !.name = n]]
        BY <1>1, <1>3 DEF RenameWorkflow
    <2>2. \A n : [workflow[d] EXCEPT !.name = n].clone = workflow[d].clone
        BY <1>2 DEF WorkflowOf
    <2> QED BY <1>2, <1>3, <2>1, <2>2, LibraryCounts DEF RenameWorkflow
<1>4. CASE AddNextStep(w)
    <2>1. PICK d \in WorkflowRows : \E s :
              workflow' = [workflow EXCEPT ![d] = [workflow[d] EXCEPT !.steps = s]]
        BY <1>1, <1>4 DEF AddNextStep
    <2>2. \A s : [workflow[d] EXCEPT !.steps = s].clone = workflow[d].clone
        BY <1>2 DEF WorkflowOf
    <2> QED BY <1>2, <1>4, <2>1, <2>2, LibraryCounts DEF AddNextStep
<1>5. CASE AddNextTransition(w)
    <2>1. PICK d \in WorkflowRows : \E e :
              workflow' = [workflow EXCEPT ![d] = [workflow[d] EXCEPT !.transitions = e]]
        BY <1>1, <1>5 DEF AddNextTransition
    <2>2. \A e : [workflow[d] EXCEPT !.transitions = e].clone = workflow[d].clone
        BY <1>2 DEF WorkflowOf
    <2> QED BY <1>2, <1>5, <2>1, <2>2, LibraryCounts DEF AddNextTransition
<1> QED BY <1>3, <1>4, <1>5

LEMMA OthersCount ==
    ASSUME NEW CONSTANT n \in Nat \ {0}, IInv, IInv', CountInv(n),
           NEW d \in WorkflowRows, DesignStep(d) \/ DesignTransition(d) \/ Activate(d)
    PROVE  CountInv(n)'
<1>1. d \in Workflows /\ workflow[d] \in WorkflowOf
    BY DEF IInv, TablesOK, WorkflowRows
<1>2. held' = held /\ \A k : Armed(k)' = Armed(k)
    <2>1. UNCHANGED billing /\ request' = request
        BY DEF DesignStep, DesignTransition, Activate
    <2> QED BY <2>1 DEF billing, Armed
<1>3. \A k \in Kinds : Counted(k)' <= Counted(k)
    <2>1. CASE DesignStep(d)
        <3>1. PICK s : workflow' = [workflow EXCEPT ![d] = [workflow[d] EXCEPT !.steps = s]]
            BY <2>1 DEF DesignStep
        <3>2. [workflow[d] EXCEPT !.steps = s].clone = workflow[d].clone
            BY <1>1 DEF WorkflowOf
        <3> QED BY <1>1, <2>1, <3>1, <3>2, LibraryCounts DEF DesignStep
    <2>2. CASE Activate(d)
        <3>1. workflow' = [workflow EXCEPT ![d] = [workflow[d] EXCEPT !.active = TRUE]]
            BY <2>2 DEF Activate
        <3>2. [workflow[d] EXCEPT !.active = TRUE].clone = workflow[d].clone
            BY <1>1 DEF WorkflowOf
        <3> QED BY <1>1, <2>2, <3>1, <3>2, LibraryCounts DEF Activate
    <2>3. CASE DesignTransition(d)
        <3>1. PICK e : workflow' = [workflow EXCEPT ![d] = [workflow[d] EXCEPT !.transitions = e]]
            BY <2>3 DEF DesignTransition
        <3>2. [workflow[d] EXCEPT !.transitions = e].clone = workflow[d].clone
            BY <1>1 DEF WorkflowOf
        <3> QED BY <1>1, <2>3, <3>1, <3>2, LibraryCounts DEF DesignTransition
    <2> QED BY <2>1, <2>2, <2>3
<1> QED BY <1>2, <1>3, QuietKeeps

LEMMA BillingCounts ==
    ASSUME NEW CONSTANT n \in Nat \ {0}, IInv, IInv', CountInv(n), BillingNext, UNCHANGED library
    PROVE  CountInv(n)'
<1>1. \A k \in Kinds : Counted(k)' <= Counted(k)
    BY LibraryCounts
<1>2. \A k : Armed(k)' \subseteq Armed(k)
    <2>1. ASSUME NEW s \in Subscriptions, Change(s) \/ EndSubscription(s)
          PROVE  \A k : Armed(k)' \subseteq Armed(k)
        BY <2>1 DEF Change, EndSubscription, Armed
    <2> QED BY <2>1, Disarms DEF BillingNext, QuietStep
<1>3. held \subseteq held'
    BY DEF BillingNext, StartCheckout, CancelCheckout, Subscribe, LoadForWebhook, CommitWebhook,
           Change, EndSubscription, billing
<1> QED BY <1>1, <1>2, <1>3, QuietKeeps

LEMMA CountStep ==
    ASSUME NEW CONSTANT n \in Nat \ {0}, IInv, IInv', CountInv(n), CountedAtOnce(n)', [Next]_vars
    PROVE  CountInv(n)'
<1>1. CASE UNCHANGED vars
    <2>1. UNCHANGED library /\ held' = held /\ \A k : Armed(k)' = Armed(k)
        BY <1>1 DEF vars, billing, Armed
    <2>2. \A k \in Kinds : Counted(k)' <= Counted(k)
        BY <2>1, LibraryCounts
    <2> QED BY <2>1, <2>2, QuietKeeps
<1>2. CASE BillingNext /\ UNCHANGED library
    BY <1>2, BillingCounts
<1>3. ASSUME NEW w \in Workers,
             \/ LoadForCreate(w) \/ LoadForRenameAgent(w) \/ RenameAgent(w)
             \/ LoadForRename(w) \/ RenameWorkflow(w)
             \/ LoadForDuplicate(w) \/ InsertClone(w)
             \/ LoadForPreset(w) \/ CreateMissingAgent(w) \/ ChooseName(w)
             \/ CreatePresetWorkflow(w) \/ AddNextStep(w) \/ AddNextTransition(w)
             \/ FinishPreset(w) \/ Stop(w)
      PROVE  CountInv(n)'
    <2>1. \A k : Armed(k)' \subseteq Armed(k)
        BY <1>3, Disarms DEF QuietStep
    <2>2. held' = held
        BY <1>3 DEF LoadForCreate, LoadForRenameAgent, RenameAgent, LoadForRename,
                    RenameWorkflow, LoadForDuplicate, InsertClone, LoadForPreset,
                    CreateMissingAgent, ChooseName, CreatePresetWorkflow, AddNextStep,
                    AddNextTransition, FinishPreset, Stop, billing
    <2>3. \A k \in Kinds : Counted(k)' <= Counted(k)
        <3>1. CASE RenameAgent(w)
            <4>1. request[w].agent \in AgentRows /\ request[w].name \in AgentNames
                BY <3>1, KindsDiffer DEF RenameAgent, IInv, RequestInv, RenameAgentOf
            <4> QED BY <3>1, <4>1, LibraryCounts DEF RenameAgent
        <3>2. CASE RenameWorkflow(w) \/ AddNextStep(w) \/ AddNextTransition(w)
            BY <3>2, RowsStay
        <3>3. CASE InsertClone(w)
            <4>1. PICK r \in DuplicateOf : r = request[w]
                BY <3>3, KindsDiffer DEF InsertClone, IInv
            <4>2. [r.source EXCEPT !.name = r.name, !.active = FALSE, !.clone = TRUE].clone = TRUE
                BY DEF DuplicateOf, WorkflowOf
            <4>3. PICK d \in Workflows :
                      workflow' = [workflow EXCEPT ![d] =
                          [r.source EXCEPT !.name = r.name, !.active = FALSE, !.clone = TRUE]]
                BY <3>3, <4>1 DEF InsertClone
            <4>4. PICK row : /\ row.clone = TRUE
                             /\ workflow' = [workflow EXCEPT ![d] = row]
                BY <4>2, <4>3
            <4>5. UNCHANGED <<tally, agent>>
                BY <3>3 DEF InsertClone
            <4>6. \E x \in Workflows : \E y :
                      /\ workflow' = [workflow EXCEPT ![x] = y] /\ UNCHANGED <<tally, agent>>
                      /\ y.clone = TRUE \/ (x \in WorkflowRows /\ y.clone = workflow[x].clone)
                BY <4>4, <4>5, Zenon
            <4> QED BY <4>6, LibraryCounts, Zenon
        <3>4. CASE \/ LoadForCreate(w) \/ LoadForRenameAgent(w) \/ LoadForRename(w)
                   \/ LoadForDuplicate(w) \/ LoadForPreset(w) \/ CreateMissingAgent(w)
                   \/ ChooseName(w) \/ CreatePresetWorkflow(w) \/ FinishPreset(w) \/ Stop(w)
            BY <3>4, LibraryCounts
            DEF LoadForCreate, LoadForRenameAgent, LoadForRename, LoadForDuplicate,
                LoadForPreset, CreateMissingAgent, ChooseName, CreatePresetWorkflow,
                FinishPreset, Stop
        <3> QED BY <1>3, <3>1, <3>2, <3>3, <3>4
    <2> QED BY <2>1, <2>2, <2>3, QuietKeeps
<1>4. ASSUME NEW w \in Workers,
             \/ CountRows(w) \/ InsertUserOrContract(w) \/ InsertAgent(w) \/ InsertWorkflow(w)
      PROVE  CountInv(n)'
    BY <1>4, CountRowsKeeps, InsertsCount
<1>5. ASSUME NEW d \in WorkflowRows, DesignStep(d) \/ DesignTransition(d) \/ Activate(d)
      PROVE  CountInv(n)'
    BY <1>5, OthersCount
<1> QED BY <1>1, <1>2, <1>3, <1>4, <1>5 DEF Next, LibraryNext

LEMMA FewOver ==
    ASSUME NEW CONSTANT n \in Nat \ {0}, IInv, CountInv(n)
    PROVE  LimitsKeptBut(n)
<1> SUFFICES ASSUME NEW k \in Kinds, \A p \in held : Limit[p][k] # None
             PROVE  \E p \in held : Counted(k) <= Limit[p][k] + n - 1
    BY DEF LimitsKeptBut
<1>1. PICK p \in held : Counted(k) + Cardinality(Armed(k)) <= Limit[p][k] + n - 1
    BY DEF CountInv, CountOf
<1>2. Limit[p][k] \in Nat
    BY LimitsTyped
<1> QED BY <1>1, <1>2, CountedTyped, WorkersCounted

\* However many requests count and insert while the plan changes, the rows that
\* were counted exceed the largest limit held by the requests in progress at most.
THEOREM LimitsAreNearlyKept == Spec => []LimitsNearlyKept
<1> DEFINE n == Cardinality(Workers)
<1>1. n \in Nat \ {0}
    BY WorkersCounted
<1>2. CountedAtOnce(n)'
    <2>1. ASSUME NEW k \in Kinds
          PROVE  Cardinality(Armed(k)') <= n
        <3>1. Armed(k)' \in SUBSET Workers /\ Workers \in SUBSET Workers
            BY DEF Armed
        <3> QED BY <3>1, Sizes, WorkersAssumption
    <2> QED BY <2>1 DEF CountedAtOnce
<1> HIDE DEF n
<1>3. Init => CountInv(n)
    BY <1>1, CountInit
<1>4. IInv /\ IInv' /\ CountInv(n) /\ [Next]_vars => CountInv(n)'
    BY <1>1, <1>2, CountStep
<1>5. IInv /\ CountInv(n) => LimitsNearlyKept
    BY <1>1, FewOver DEF n, LimitsKeptBut, LimitsNearlyKept
<1> QED BY <1>3, <1>4, <1>5, Invariance, PTL DEF Spec

\* The rows exceed a limit only by the requests that have counted and not yet
\* inserted: when one request at a time does so for each kind (n is 1), no limit
\* is exceeded, clones aside.
THEOREM LimitsAreKeptBut ==
    ASSUME NEW CONSTANT n \in Nat \ {0}
    PROVE  Spec /\ []CountedAtOnce(n) => []LimitsKeptBut(n)
<1>1. Init => CountInv(n)
    BY CountInit
<1>2. IInv /\ IInv' /\ CountInv(n) /\ CountedAtOnce(n)' /\ [Next]_vars => CountInv(n)'
    BY CountStep
<1>3. IInv /\ CountInv(n) => LimitsKeptBut(n)
    BY FewOver
<1> QED BY <1>1, <1>2, <1>3, Invariance, PTL DEF Spec
=============================================================================
