------------------------------ MODULE Accounts ------------------------------
(***************************************************************************)
(* Accounts, their login sessions, the tokens mailed to them and their     *)
(* consent to the terms, under concurrent requests: RegistrationService,   *)
(* UserService, SocialAuthService, ComplianceService and the login gate.   *)
(*                                                                         *)
(* A handler that signs somebody in runs two units of work: one finds (or  *)
(* makes) the user, the other inserts the session.  Accounts are never     *)
(* deleted, and are known by their e-mail address.                         *)
(***************************************************************************)
EXTENDS FiniteSets, Naturals

CONSTANTS Emails,       \* addresses, as normalized by strip and lower
          Passwords,    \* what people type
          Identities,   \* what Google asserts: [email, sub], address verified
          Tokens,       \* the values of mailed tokens
          Sessions,     \* the values of session cookies
          Workers,      \* the requests that may be in progress at once
          None          \* Python's None

ASSUME IdentitiesAssumption ==
    \A i \in Identities : i.email \in Emails /\ i.sub # None

ASSUME NoneAssumption == None \notin Passwords \cup Emails

ASSUME WorkersAssumption == IsFiniteSet(Workers) /\ Workers # {}

ASSUME TokensAssumption == IsFiniteSet(Tokens)

VARIABLES user,      \* the users row of each address
          accepted,  \* the addresses with a terms_acceptances row
          token,     \* the user_tokens row of each token value
          used,      \* history: how often each token was used
          session,   \* the user_sessions row of each cookie: its user
          request    \* what each worker has read, and for which call

vars == <<user, accepted, token, used, session, request>>

Subs == {i.sub : i \in Identities}

NoUser == [organization |-> "none"]

\* "own": the organization that was made with the account; "host": one whose
\* admin made the account.  verified is email_verified_at is not None.
UserOf == [organization : {"own", "host"}, password : Passwords \cup {None},
           google : Subs \cup {None}, active : BOOLEAN, verified : BOOLEAN]

Purposes == {"verification", "reset"}

Unissued == [state |-> "unissued"]

\* A row that was deleted or is past expires_at is "gone": no SELECT finds it
\* valid again.
TokenOf == [state : {"live", "gone"}, user : Emails, purpose : Purposes]

Idle == [op |-> "none"]

Requests ==
    [op : {"signup", "invite"}, email : Emails, password : Passwords,
     row : UserOf \cup {NoUser}]
    \cup [op : {"google"}, identity : Identities, row : UserOf \cup {NoUser}]
    \cup [op : {"verification"}, token : Tokens, email : Emails]
    \cup [op : {"reset"}, token : Tokens, email : Emails, password : Passwords]
    \cup [op : {"mail"}, email : Emails, purpose : Purposes, seen : SUBSET Tokens]
    \cup [op : {"change"}, email : Emails, password : Passwords]
    \cup [op : {"toggle"}, email : Emails, active : BOOLEAN]
    \cup [op : {"session", "gate", "page", "accept"}, email : Emails]

Users == {e \in Emails : user[e] # NoUser}

Live(t) == token[t].state = "live"

LiveTokens(e, purpose) ==
    {t \in Tokens : Live(t) /\ token[t].user = e /\ token[t].purpose = purpose}

\* Acceptances, tokens and sessions refer to accounts that exist.
TypeOK ==
    /\ user \in [Emails -> UserOf \cup {NoUser}]
    /\ accepted \subseteq Users
    /\ token \in [Tokens -> TokenOf \cup {Unissued}]
    /\ \A t \in Tokens : token[t] # Unissued => token[t].user \in Users
    /\ used \in [Tokens -> Nat]
    /\ session \in [Sessions -> Users \cup {None}]
    /\ request \in [Workers -> Requests \cup {Idle}]

Init ==
    /\ user = [e \in Emails |-> NoUser]
    /\ accepted = {}
    /\ token = [t \in Tokens |-> Unissued]
    /\ used = [t \in Tokens |-> 0]
    /\ session = [s \in Sessions |-> None]
    /\ request = [w \in Workers |-> Idle]

----------------------------------------------------------------------------
(***************************************************************************)
(* The reads a handler decides on.  A call whose test fails ends there,    *)
(* with an error or a page that tells nothing: it is not begun here.       *)
(***************************************************************************)
Begin(w, r) ==
    /\ request[w] = Idle
    /\ request' = [request EXCEPT ![w] = r]
    /\ UNCHANGED <<user, accepted, token, used, session>>

\* POST /signup with the terms ticked, and an admin's "New user" form.
LoadForSignup(w) ==
    \E e \in Emails \ Users, p \in Passwords :
        Begin(w, [op |-> "signup", email |-> e, password |-> p, row |-> user[e]])

LoadForInvite(w) ==
    \E e \in Emails \ Users, p \in Passwords :
        Begin(w, [op |-> "invite", email |-> e, password |-> p, row |-> user[e]])

\* GET /auth/google/callback: an existing account must be active.
LoadForGoogle(w) ==
    \E i \in Identities :
        /\ i.email \in Users => user[i.email].active
        /\ Begin(w, [op |-> "google", identity |-> i, row |-> user[i.email]])

\* Mutant: a password is enough, verified address or not.
PasswordMatches(e, p) == user[e].active /\ user[e].password = p

\* authenticate
Authenticates(e, p) ==
    user[e].active /\ user[e].password = p /\ user[e].verified

\* POST /login goes on to create_session with what authenticate returned.
LoadForLogin(w) ==
    \E e \in Users, p \in Passwords :
        /\ Authenticates(e, p)
        /\ Begin(w, [op |-> "session", email |-> e])

\* GET /verify-email and POST /reset-password: the token's row is valid.
LoadForVerification(w) ==
    \E t \in Tokens :
        /\ Live(t) /\ token[t].purpose = "verification"
        /\ Begin(w, [op |-> "verification", token |-> t, email |-> token[t].user])

LoadForReset(w) ==
    \E t \in Tokens, p \in Passwords :
        /\ Live(t) /\ token[t].purpose = "reset"
        /\ Begin(w, [op |-> "reset", token |-> t, email |-> token[t].user,
                     password |-> p])

\* The DELETE of the old tokens removes the rows that its snapshot shows; it
\* takes effect with the commit.  (The account is read just before: should it
\* change in between, the mail is sent as if it changed afterwards.)
LoadForMail(w, e, purpose) ==
    Begin(w, [op |-> "mail", email |-> e, purpose |-> purpose,
              seen |-> LiveTokens(e, purpose)])

\* POST /verify-email/resend
LoadForResend(w) ==
    \E e \in Users : ~user[e].verified /\ LoadForMail(w, e, "verification")

\* Mutant: a mail goes to whatever address was typed.
LoadForForgotAnyone(w) == \E e \in Emails : LoadForMail(w, e, "reset")

\* POST /forgot-password
LoadForForgot(w) == \E e \in Users : user[e].active /\ LoadForMail(w, e, "reset")

\* The session's row is there, not past its time, and its user is active.
Admits(s) == session[s] # None /\ user[session[s]].active

\* The login gate of every page of an organization.
LoadForGate(w) ==
    \E s \in Sessions :
        /\ Admits(s)
        /\ Begin(w, [op |-> "gate", email |-> session[s]])

\* POST /terms/accept
LoadForAccept(w) ==
    \E s \in Sessions :
        /\ Admits(s)
        /\ Begin(w, [op |-> "accept", email |-> session[s]])

----------------------------------------------------------------------------
Close(w) == request' = [request EXCEPT ![w] = Idle]

\* The handler goes on to create_session.
SignIn(w, e) == request' = [request EXCEPT ![w] = [op |-> "session", email |-> e]]

Issue(e, purpose) == [state |-> "live", user |-> e, purpose |-> purpose]

Unused == {t \in Tokens : token[t] = Unissued}

\* Mutant: the acceptance is left to a request of its own.
RegisterWithoutConsent(w) ==
    LET r == request[w]
    IN  /\ r.op = "signup" /\ r.email \notin Users
        /\ user' = [user EXCEPT ![r.email] =
               [organization |-> "own", password |-> r.password, google |-> None,
                active |-> TRUE, verified |-> FALSE]]
        /\ \E t \in Unused :
               token' = [token EXCEPT ![t] = Issue(r.email, "verification")]
        /\ Close(w)
        /\ UNCHANGED <<accepted, used, session>>

\* register: organization, role, user, acceptance and token in one commit;
\* uq_user_email refuses the second of two.
Register(w) ==
    LET r == request[w]
    IN  /\ r.op = "signup" /\ r.email \notin Users
        /\ user' = [user EXCEPT ![r.email] =
               [organization |-> "own", password |-> r.password, google |-> None,
                active |-> TRUE, verified |-> FALSE]]
        /\ accepted' = accepted \cup {r.email}
        /\ \E t \in Unused :
               token' = [token EXCEPT ![t] = Issue(r.email, "verification")]
        /\ Close(w)
        /\ UNCHANGED <<used, session>>

\* create_user: the account has accepted nothing, is not verified, and no mail
\* is sent.
CreateUser(w) ==
    LET r == request[w]
    IN  /\ r.op = "invite" /\ r.email \notin Users
        /\ user' = [user EXCEPT ![r.email] =
               [organization |-> "host", password |-> r.password, google |-> None,
                active |-> TRUE, verified |-> FALSE]]
        /\ Close(w)
        /\ UNCHANGED <<accepted, token, used, session>>

\* users.google_sub is unique.
SubTaken(i) == \E e \in Users \ {i.email} : user[e].google = i.sub

\* An existing account gains the identity, and counts as verified.
LinkGoogle(w) ==
    LET r == request[w]
        i == r.identity
    IN  /\ r.op = "google" /\ r.row # NoUser /\ ~SubTaken(i)
        /\ user' = [user EXCEPT ![i.email].google = IF r.row.google = i.sub THEN @ ELSE i.sub,
                                ![i.email].verified = TRUE]
        /\ SignIn(w, i.email)
        /\ UNCHANGED <<accepted, token, used, session>>

\* A new person: account, organization and acceptance in one commit.
ProvisionGoogle(w) ==
    LET r == request[w]
        i == r.identity
    IN  /\ r.op = "google" /\ r.row = NoUser
        /\ i.email \notin Users /\ ~SubTaken(i)
        /\ user' = [user EXCEPT ![i.email] =
               [organization |-> "own", password |-> None, google |-> i.sub,
                active |-> TRUE, verified |-> TRUE]]
        /\ accepted' = accepted \cup {i.email}
        /\ SignIn(w, i.email)
        /\ UNCHANGED <<token, used, session>>

\* Mutant: the token is left to expire.
SpendKeeping(t) ==
    /\ used' = [used EXCEPT ![t] = @ + 1]
    /\ UNCHANGED token

\* DELETE ... WHERE token = t: that no row was left to delete is not noticed.
Spend(t) ==
    /\ token' = [token EXCEPT ![t].state = "gone"]
    /\ used' = [used EXCEPT ![t] = @ + 1]

VerifyEmail(w) ==
    LET r == request[w]
    IN  /\ r.op = "verification"
        /\ user' = [user EXCEPT ![r.email].verified = TRUE]
        /\ Spend(r.token)
        /\ SignIn(w, r.email)
        /\ UNCHANGED <<accepted, session>>

\* Neither the address is marked as verified nor the old sessions deleted.
ResetPassword(w) ==
    LET r == request[w]
    IN  /\ r.op = "reset"
        /\ user' = [user EXCEPT ![r.email].password = r.password]
        /\ Spend(r.token)
        /\ SignIn(w, r.email)
        /\ UNCHANGED <<accepted, session>>

\* Mutant: the old tokens stay.
MailTokenKeeping(w) ==
    LET r == request[w]
    IN  /\ r.op = "mail"
        /\ \E t \in Unused :
               token' = [token EXCEPT ![t] = Issue(r.email, r.purpose)]
        /\ Close(w)
        /\ UNCHANGED <<user, accepted, used, session>>

MailToken(w) ==
    LET r == request[w]
    IN  /\ r.op = "mail"
        /\ \E t \in Unused :
               token' = [u \in Tokens |->
                   IF u = t THEN Issue(r.email, r.purpose)
                   ELSE IF u \in r.seen THEN [token[u] EXCEPT !.state = "gone"]
                   ELSE token[u]]
        /\ Close(w)
        /\ UNCHANGED <<user, accepted, used, session>>

\* create_session does not look at the account again.
CreateSession(w) ==
    LET r == request[w]
    IN  /\ r.op = "session"
        /\ \E s \in Sessions :
               /\ session[s] = None
               /\ session' = [session EXCEPT ![s] = r.email]
        /\ Close(w)
        /\ UNCHANGED <<user, accepted, token, used>>

\* The account page's form, behind the gate; the current password is tested
\* when the row is read.
LoadForChange(w) ==
    /\ request[w].op = "page"
    /\ \E old, new \in Passwords :
           /\ user[request[w].email].password = old
           /\ request' = [request EXCEPT ![w] =
                  [op |-> "change", email |-> request[w].email, password |-> new]]
    /\ UNCHANGED <<user, accepted, token, used, session>>

ChangePassword(w) ==
    LET r == request[w]
    IN  /\ r.op = "change"
        /\ user' = [user EXCEPT ![r.email].password = r.password]
        /\ Close(w)
        /\ UNCHANGED <<accepted, token, used, session>>

\* The users page's button, behind the gate, reads the state in one unit of
\* work and writes its negation in another.
LoadForToggle(w) ==
    /\ request[w].op = "page"
    /\ \E e \in Users :
           request' = [request EXCEPT ![w] =
               [op |-> "toggle", email |-> e, active |-> ~user[e].active]]
    /\ UNCHANGED <<user, accepted, token, used, session>>

SetActive(w) ==
    LET r == request[w]
    IN  /\ r.op = "toggle"
        /\ user' = [user EXCEPT ![r.email].active = r.active]
        /\ Close(w)
        /\ UNCHANGED <<accepted, token, used, session>>

\* The acceptance is looked up in a unit of work of its own.
PassGate(w) ==
    /\ request[w].op = "gate" /\ request[w].email \in accepted
    /\ request' = [request EXCEPT ![w].op = "page"]
    /\ UNCHANGED <<user, accepted, token, used, session>>

RecordAcceptance(w) ==
    /\ request[w].op = "accept"
    /\ accepted' = accepted \cup {request[w].email}
    /\ Close(w)
    /\ UNCHANGED <<user, token, used, session>>

----------------------------------------------------------------------------
\* POST /logout and POST /terms/decline delete the session's row; time makes it
\* invalid.
EndSession(s) ==
    /\ session[s] # None
    /\ session' = [session EXCEPT ![s] = None]
    /\ UNCHANGED <<user, accepted, token, used, request>>

ExpireToken(t) ==
    /\ Live(t)
    /\ token' = [token EXCEPT ![t].state = "gone"]
    /\ UNCHANGED <<user, accepted, used, session, request>>

\* A unique constraint refuses the insert or the link; the terms are not
\* accepted; the page does something else; or the process goes away.
End(w) ==
    /\ request[w] # Idle
    /\ Close(w)
    /\ UNCHANGED <<user, accepted, token, used, session>>

Next ==
    \/ \E w \in Workers :
           \/ LoadForSignup(w) \/ LoadForInvite(w) \/ LoadForGoogle(w)
           \/ LoadForLogin(w) \/ LoadForVerification(w) \/ LoadForReset(w)
           \/ LoadForResend(w) \/ LoadForForgot(w)
           \/ LoadForGate(w) \/ LoadForAccept(w)
           \/ Register(w) \/ CreateUser(w) \/ LinkGoogle(w) \/ ProvisionGoogle(w)
           \/ VerifyEmail(w) \/ ResetPassword(w) \/ MailToken(w)
           \/ CreateSession(w) \/ PassGate(w) \/ RecordAcceptance(w)
           \/ LoadForChange(w) \/ ChangePassword(w)
           \/ LoadForToggle(w) \/ SetActive(w)
           \/ End(w)
    \/ \E s \in Sessions : EndSession(s)
    \/ \E t \in Tokens : ExpireToken(t)

Spec == Init /\ [][Next]_vars

----------------------------------------------------------------------------
(***************************************************************************)
(* What holds however the requests interleave.                             *)
(***************************************************************************)
\* "always deleted after use": a token that a request can still find has not
\* been used, not even by a request that raced the one that found it.
LiveTokensUnused == \A t \in Tokens : Live(t) => used[t] = 0

\* "single-use" holds up to the requests in progress: with N of them at a time
\* a token is used at most N times.
FewUses == \A t \in Tokens : used[t] <= Cardinality(Workers)

\* A new mail withdraws the tokens of the mails before it, up to the requests
\* in progress: at most N tokens of one purpose open one account.
FewLiveTokens ==
    \A e \in Emails, p \in Purposes :
        Cardinality(LiveTokens(e, p)) <= Cardinality(Workers)

\* "an account never exists without its acceptance": true of each account that
\* signed up by itself, whichever of the ways that race for the address won.
OwnersHaveAccepted ==
    \A e \in Users : user[e].organization = "own" => e \in accepted

\* The account a request is about to sign in, or a session belongs to, has
\* proved its address: it is verified, or a reset token mailed to it was used.
SessionsProveEmail ==
    \A e \in Emails :
        \/ \E s \in Sessions : session[s] = e
        \/ \E w \in Workers : request[w].op = "session" /\ request[w].email = e
        => \/ user[e].verified
           \/ \E t \in Tokens : /\ used[t] > 0
                                /\ token[t].user = e /\ token[t].purpose = "reset"
=============================================================================
