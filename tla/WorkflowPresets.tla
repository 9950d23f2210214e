--------------------------- MODULE WorkflowPresets ---------------------------
(***************************************************************************)
(* The ready-made workflows: the agents they need, and the steps and       *)
(* transitions in the order in which they are added.                       *)
(***************************************************************************)
EXTENDS Sequences

Step(key, owner) == [key |-> key, owner |-> owner, initial |-> FALSE, terminal |-> FALSE]

Start(key, owner) == [Step(key, owner) EXCEPT !.initial = TRUE]

End(key, owner) == [Step(key, owner) EXCEPT !.terminal = TRUE]

Edge(from, to, action) == [from |-> from, action |-> action, to |-> to]

StandardContract ==
    [name |-> "Standard Contract Lifecycle",
     agents |-> <<"Drafting", "Negotiation", "Signatory", "Records Management",
                  "Renewals", "Amendments", "Termination", "Archive", "Destruction">>,
     steps |-> <<Start("draft", "Drafting"), Step("negotiate", "Negotiation"),
                 Step("sign", "Signatory"), Step("store", "Records Management"),
                 Step("renew", "Renewals"), Step("amend", "Amendments"),
                 Step("terminate", "Termination"), Step("archive", "Archive"),
                 End("destruct", "Destruction")>>,
     transitions |-> <<Edge("draft", "negotiate", "send_for_negotiation"),
                       Edge("negotiate", "sign", "approve"),
                       Edge("negotiate", "draft", "request_changes"),
                       Edge("sign", "store", "complete_signature"),
                       Edge("store", "renew", "request_renewal"),
                       Edge("store", "amend", "request_amendment"),
                       Edge("store", "terminate", "initiate_termination"),
                       Edge("renew", "store", "approve_renewal"),
                       Edge("renew", "terminate", "reject_renewal"),
                       Edge("amend", "store", "approve_amendment"),
                       Edge("terminate", "archive", "finalize_termination"),
                       Edge("archive", "destruct", "schedule_destruction")>>]

SimpleApproval ==
    [name |-> "Simple Approval",
     agents |-> <<"Author", "Reviewer">>,
     steps |-> <<Start("draft", "Author"), Step("review", "Reviewer"),
                 End("approved", "Reviewer")>>,
     transitions |-> <<Edge("draft", "review", "submit"),
                       Edge("review", "approved", "approve"),
                       Edge("review", "draft", "request_changes")>>]

Procurement ==
    [name |-> "Procurement Request",
     agents |-> <<"Requester", "Approvals", "Purchasing", "Receiving">>,
     steps |-> <<Start("request", "Requester"), Step("approval", "Approvals"),
                 Step("purchasing", "Purchasing"), End("received", "Receiving")>>,
     transitions |-> <<Edge("request", "approval", "submit"),
                       Edge("approval", "purchasing", "approve"),
                       Edge("approval", "request", "reject"),
                       Edge("purchasing", "received", "confirm_delivery")>>]

WORKFLOW_PRESETS == {StandardContract, SimpleApproval, Procurement}
=============================================================================
