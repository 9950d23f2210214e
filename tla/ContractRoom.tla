---------------------------- MODULE ContractRoom ----------------------------
(***************************************************************************)
(* The pages of contracts: the work of StepAccess, the AI summaries of     *)
(* their documents, and the share links through which people without an    *)
(* account read them.  A link is looked up on every request; the file is   *)
(* read in units of work after that.                                       *)
(***************************************************************************)
EXTENDS StepAccess

CONSTANT Links  \* bound: the share links that are followed

VARIABLES link,      \* each share_links row with its share_link_documents
          unlocked,  \* the links whose password a browser has proved
          served,    \* history: which document was read through which link
          ending,    \* history: whose views of each link were in progress when
                     \* it was revoked or its time was over, and still are
          summary    \* the version that each document's summary describes

sharing == <<link, unlocked, served, summary>>

vars == <<access, request, sharing, ending>>

\* named is what a DOCUMENTS-scoped link exposes.
LinkOf == [contract : Contracts, scope : {"contract", "documents"},
           named : SUBSET Documents, password : BOOLEAN, active : BOOLEAN]

ASSUME NoLinkAssumption == None \notin LinkOf

ShareOf == [op : {"share"}, contract : Contracts, scope : {"contract", "documents"},
            named : SUBSET Documents, password : BOOLEAN]

ViewOf == [op : {"view"}, link : Links]

SummarizeOf == [op : {"summarize"}, document : Documents, version : 1..MaxVersions]

\* contract.documents
DocumentsOf(c) == {d \in documents : ContractOf[d] = c}

ViewsOf(l) == {w \in Workers : request[w].op = "view" /\ request[w].link = l}

\* A link names documents that its contract has; a summary is of a version
\* that the document has.
TypeOK ==
    /\ AccessTypeOK
    /\ link \in [Links -> LinkOf \cup {None}]
    /\ \A l \in Links : link[l] # None => link[l].named \subseteq DocumentsOf(link[l].contract)
    /\ unlocked \subseteq Links
    /\ served \subseteq Links \X Documents
    /\ \A l \in Links : ending[l] \subseteq ViewsOf(l)
    /\ \A d \in Documents : summary[d] \in 0..versions[d]
    /\ \A w \in Workers :
           \/ request[w] = Idle
           \/ request[w].op \in {"act", "assistant"} /\ request[w] \in ActOf
           \/ request[w].op = "reconcile" /\ request[w] \in ReconcileOf
           \/ request[w].op = "share" /\ request[w] \in ShareOf
           \/ request[w].op = "view" /\ request[w] \in ViewOf
           \/ request[w].op = "summarize" /\ request[w] \in SummarizeOf

Init ==
    /\ AccessInit
    /\ request = [w \in Workers |-> Idle]
    /\ link = [l \in Links |-> None]
    /\ unlocked = {} /\ served = {}
    /\ ending = [l \in Links |-> {}]
    /\ summary = [d \in Documents |-> 0]

----------------------------------------------------------------------------
\* Mutant: the form's document ids are taken as they are.
ValidIdsUnfiltered(c, ids) == ids

\* create_link ignores ids that are not the contract's.
ValidIds(c, ids) == ids \cap DocumentsOf(c)

\* What a link to documents of c may name: all of them, or at least one.
Choices(c, scope) ==
    IF scope = "contract" THEN {{}}
    ELSE {ValidIds(c, ids) : ids \in SUBSET Documents} \ {{}}

LoadForShare(w) ==
    /\ request[w] = Idle
    /\ \E c \in Contracts, scope \in {"contract", "documents"}, password \in BOOLEAN :
           \E named \in Choices(c, scope) :
               Begin(w, [op |-> "share", contract |-> c, scope |-> scope,
                         named |-> named, password |-> password])
    /\ UNCHANGED <<access, sharing>>

CommitShare(w) ==
    LET q == request[w]
    IN  /\ q.op = "share"
        /\ \E l \in Links :
               /\ link[l] = None
               /\ link' = [link EXCEPT ![l] =
                      [contract |-> q.contract, scope |-> q.scope, named |-> q.named,
                       password |-> q.password, active |-> TRUE]]
        /\ Close(w)
        /\ UNCHANGED <<linked, roleOf, work, late, unlocked, served, summary>>

Active(l) == link[l] # None /\ link[l].active

\* revoke, or the time is over.
Deactivate(l) ==
    /\ Active(l)
    /\ link' = [link EXCEPT ![l].active = FALSE]
    /\ UNCHANGED <<access, request, unlocked, served, summary>>

\* share_unlock: the cookie is derived from the token alone.
Unlock(l) ==
    /\ Active(l) /\ link[l].password
    /\ unlocked' = unlocked \cup {l}
    /\ UNCHANGED <<access, request, link, served, summary>>

\* Mutant: the cookie of an unlocked link is enough.
OpensByCookie(l) == l \in unlocked \/ (Active(l) /\ ~link[l].password)

\* get_active_link and the password gate.
Opens(l) == Active(l) /\ (link[l].password => l \in unlocked)

LoadForView(w) ==
    /\ request[w] = Idle
    /\ \E l \in Links : Opens(l) /\ Begin(w, [op |-> "view", link |-> l])
    /\ UNCHANGED <<access, sharing>>

Allows(l, d) == link[l].scope = "contract" \/ d \in link[l].named

\* get_shared_version: a document of the link's contract that has a version.
Serve(w) ==
    /\ request[w].op = "view"
    /\ LET l == request[w].link
       IN  \E d \in DocumentsOf(link[l].contract) :
               Allows(l, d) /\ versions[d] > 0 /\ served' = served \cup {<<l, d>>}
    /\ Close(w)
    /\ UNCHANGED <<linked, roleOf, work, late, link, unlocked, summary>>

\* summarize_document: the latest version is read, sent to Gemini, and the
\* answer stored, whichever version is the latest by then.
LoadForSummary(w) ==
    /\ request[w] = Idle
    /\ \E d \in documents :
           /\ ai[ContractOf[d]].enabled /\ versions[d] > 0
           /\ Begin(w, [op |-> "summarize", document |-> d, version |-> versions[d]])
    /\ UNCHANGED <<access, sharing>>

CommitSummary(w) ==
    LET q == request[w]
    IN  /\ q.op = "summarize"
        /\ summary' = [summary EXCEPT ![q.document] = q.version]
        /\ Close(w)
        /\ UNCHANGED <<linked, roleOf, work, late, link, unlocked, served>>

RoomNext ==
    \/ \E w \in Workers :
           \/ LoadForShare(w) \/ CommitShare(w) \/ LoadForView(w) \/ Serve(w)
           \/ LoadForSummary(w) \/ CommitSummary(w)
    \/ \E l \in Links : Deactivate(l) \/ Unlock(l)

\* What ending remembers.
Watched ==
    ending' = [l \in Links |->
                  IF Active(l) THEN IF Active(l)' THEN {} ELSE ViewsOf(l)
                  ELSE {w \in ending[l] : request'[w] = request[w]}]

Next == ((AccessNext /\ UNCHANGED sharing) \/ RoomNext) /\ Watched

Spec == Init /\ [][Next]_vars

----------------------------------------------------------------------------
\* "a revoked/expired link stops working immediately": when a file is read, its
\* link is active, or this very view was in progress when the link was ended; if
\* the link has a password, a browser has proved it; and what is read are
\* documents of the link's contract, of which a link that names some shows no
\* other, even those added later.
ViewsStayWithinLinks ==
    [][ \A w \in Workers : \A l \in Links, d \in Documents :
            /\ request[w].op = "view" /\ request'[w] # request[w]
            /\ <<l, d>> \in served' \ served
            => /\ Active(l) \/ w \in ending[l]
               /\ link[l].password => l \in unlocked
               /\ d \in DocumentsOf(link[l].contract)
               /\ link[l].scope = "documents" => d \in link[l].named ]_vars
=============================================================================
