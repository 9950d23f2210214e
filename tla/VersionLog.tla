----------------------------- MODULE VersionLog -----------------------------
(***************************************************************************)
(* What the versions of the documents promise: each document has a log of  *)
(* them that only grows at its end, by one entry at a time.                *)
(***************************************************************************)
EXTENDS Sequences

CONSTANTS Documents,  \* the documents
          Entries     \* what a version may record

VARIABLE log  \* the versions of each document, oldest first

Init == log = [d \in Documents |-> <<>>]

AddVersion(d, e) == log' = [log EXCEPT ![d] = Append(@, e)]

Next == \E d \in Documents, e \in Entries : AddVersion(d, e)

Spec == Init /\ [][Next]_log
=============================================================================
