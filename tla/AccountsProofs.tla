--------------------------- MODULE AccountsProofs ---------------------------
(***************************************************************************)
(* For any addresses, tokens, sessions and number of concurrent requests:  *)
(* the rows have their types, a token that can be found is unused, tokens  *)
(* are used and left alive at most once per request in progress, whoever   *)
(* made an organization has accepted the terms, and whoever is signed in   *)
(* has proved the address.                                                 *)
(*                                                                         *)
(* What a request has read stays true in part: accounts are not deleted, a *)
(* token keeps its owner and its purpose, an address stays verified and a  *)
(* use of a token stays counted.  The two counts are argued further down.  *)
(***************************************************************************)
EXTENDS Accounts, FiniteSetTheorems, TLAPS

RequestOf == Requests \cup {Idle}

\* The address is verified, or a reset token that was mailed to it was used.
Proved(e) ==
    \/ user[e].verified
    \/ \E t \in Tokens : used[t] > 0 /\ token[t].user = e /\ token[t].purpose = "reset"

\* What stays true of a request while others commit.
RequestOK(r) ==
    /\ r.op \in {"verification", "reset"} =>
           token[r.token] # Unissued /\ token[r.token].user = r.email
               /\ token[r.token].purpose = r.op
    /\ r.op \in {"verification", "reset", "mail", "change", "toggle", "session",
                 "gate", "page", "accept"} => r.email \in Users
    /\ r.op = "google" /\ r.row # NoUser => r.identity.email \in Users
    /\ r.op = "mail" => \A t \in r.seen : token[t] # Unissued
    /\ r.op = "session" => Proved(r.email)

RequestsOK == \A w \in Workers : RequestOK(request[w])

\* A token that was used can no longer be found.
UsedAreGone == \A t \in Tokens : used[t] > 0 => token[t] # Unissued /\ token[t].state = "gone"

SessionsProved == \A s \in Sessions : session[s] # None => Proved(session[s])

IInv ==
    /\ TypeOK
    /\ RequestsOK
    /\ UsedAreGone
    /\ SessionsProved
    /\ OwnersHaveAccepted

----------------------------------------------------------------------------
(***************************************************************************)
(* The kinds of request differ in op.                                      *)
(***************************************************************************)
LEMMA KindsDiffer ==
    ASSUME NEW r \in RequestOf
    PROVE  /\ r.op \in {"signup", "invite"} =>
                  r.email \in Emails /\ r.password \in Passwords
           /\ r.op = "google" => r.identity \in Identities /\ r.row \in UserOf \cup {NoUser}
           /\ r.op \in {"verification", "reset"} => r.token \in Tokens /\ r.email \in Emails
           /\ r.op \in {"reset", "change"} => r.password \in Passwords
           /\ r.op = "mail" => r.purpose \in Purposes /\ r.seen \in SUBSET Tokens
           /\ r.op = "toggle" => r.active \in BOOLEAN
           /\ r.op \in {"mail", "change", "toggle", "session", "gate", "page", "accept"}
                  => r.email \in Emails
           /\ r.op = "none" <=> r = Idle
BY DEF RequestOf, Requests, Idle

LEMMA RowsDiffer ==
    /\ NoUser \notin UserOf
    /\ Unissued \notin TokenOf
    /\ Unissued.state # "live" /\ Unissued.state # "gone"
    /\ \A t \in TokenOf : /\ t.user \in Emails /\ t.purpose \in Purposes
                          /\ [t EXCEPT !.state = "gone"] \in TokenOf
BY DEF NoUser, UserOf, Unissued, TokenOf

LEMMA RequestTyped ==
    ASSUME TypeOK
    PROVE  request \in [Workers -> RequestOf]
BY DEF TypeOK, RequestOf

LEMMA UserRows ==
    ASSUME TypeOK
    PROVE  /\ Users \subseteq Emails
           /\ \A e \in Users : user[e] \in UserOf
           /\ \A e \in Emails \ Users : user[e] = NoUser
BY DEF TypeOK, Users

LEMMA TokenRows ==
    ASSUME TypeOK
    PROVE  \A t \in Tokens :
               /\ token[t] # Unissued => token[t] \in TokenOf /\ token[t].user \in Users
               /\ Live(t) => token[t] # Unissued
BY RowsDiffer DEF TypeOK, Live

----------------------------------------------------------------------------
(***************************************************************************)
(* What commits write.                                                     *)
(***************************************************************************)
\* Nothing that a request relies on is undone.
Kept ==
    /\ Users \subseteq Users'
    /\ \A e \in Users : user[e].verified => user'[e].verified
    /\ \A t \in Tokens :
           /\ token[t] # Unissued =>
                  /\ token'[t] # Unissued
                  /\ token'[t].user = token[t].user
                  /\ token'[t].purpose = token[t].purpose
           /\ used[t] > 0 => used'[t] > 0

Tables == <<user, accepted, token, used, session>>

LEMMA TablesKept ==
    ASSUME IInv, UNCHANGED Tables, request' \in [Workers -> RequestOf]
    PROVE  /\ TypeOK' /\ Kept /\ UsedAreGone' /\ OwnersHaveAccepted'
BY DEF Tables, IInv, TypeOK, Kept, Users, UsedAreGone, OwnersHaveAccepted, RequestOf

LEMMA UserWritten ==
    ASSUME TypeOK, NEW e \in Emails, NEW row \in UserOf,
           user' = [user EXCEPT ![e] = row],
           e \in Users /\ user[e].verified => row.verified
    PROVE  /\ user' \in [Emails -> UserOf \cup {NoUser}]
           /\ Users' = Users \cup {e}
           /\ \A x \in Users : user[x].verified => user'[x].verified
           /\ user'[e] = row
           /\ \A x \in Emails \ {e} : user'[x] = user[x]
<1>1. user \in [Emails -> UserOf \cup {NoUser}]
    BY DEF TypeOK
<1>2. user'[e] = row /\ \A x \in Emails \ {e} : user'[x] = user[x]
    BY <1>1
<1> QED BY <1>1, <1>2, RowsDiffer DEF Users

\* A row keeps its type when one of its fields is set.
LEMMA UserFields ==
    ASSUME TypeOK, NEW e \in Users
    PROVE  /\ e \in Emails
           /\ \A p \in Passwords :
                  LET row == [user[e] EXCEPT !.password = p]
                  IN  /\ row \in UserOf /\ row.verified = user[e].verified
                      /\ row.organization = user[e].organization
                      /\ [user EXCEPT ![e].password = p] = [user EXCEPT ![e] = row]
           /\ \A b \in BOOLEAN :
                  LET row == [user[e] EXCEPT !.active = b]
                  IN  /\ row \in UserOf /\ row.verified = user[e].verified
                      /\ row.organization = user[e].organization
                      /\ [user EXCEPT ![e].active = b] = [user EXCEPT ![e] = row]
           /\ LET row == [user[e] EXCEPT !.verified = TRUE]
              IN  /\ row \in UserOf /\ row.verified
                  /\ row.organization = user[e].organization
                  /\ [user EXCEPT ![e].verified = TRUE] = [user EXCEPT ![e] = row]
           /\ \A s \in Subs \cup {None} :
                  LET row == [user[e] EXCEPT !.google = s, !.verified = TRUE]
                  IN  /\ row \in UserOf /\ row.verified
                      /\ row.organization = user[e].organization
                      /\ [user EXCEPT ![e].google = s, ![e].verified = TRUE] =
                             [user EXCEPT ![e] = row]
<1>1. e \in Emails /\ user[e] \in UserOf
    BY UserRows
<1>2. \A p \in Passwords :
          LET row == [user[e] EXCEPT !.password = p]
          IN  /\ row \in UserOf /\ row.verified = user[e].verified
              /\ row.organization = user[e].organization
    BY <1>1 DEF UserOf
<1>3. \A b \in BOOLEAN :
          LET row == [user[e] EXCEPT !.active = b]
          IN  /\ row \in UserOf /\ row.verified = user[e].verified
              /\ row.organization = user[e].organization
    BY <1>1 DEF UserOf
<1>4. LET row == [user[e] EXCEPT !.verified = TRUE]
      IN  row \in UserOf /\ row.verified /\ row.organization = user[e].organization
    BY <1>1 DEF UserOf
<1>5. \A s \in Subs \cup {None} :
          LET row == [user[e] EXCEPT !.google = s, !.verified = TRUE]
          IN  row \in UserOf /\ row.verified /\ row.organization = user[e].organization
    BY <1>1 DEF UserOf
<1>6. \A s \in Subs \cup {None} :
          [user EXCEPT ![e].google = s, ![e].verified = TRUE] =
              [user EXCEPT ![e] = [user[e] EXCEPT !.google = s, !.verified = TRUE]]
    BY <1>1 DEF TypeOK
<1> QED BY <1>1, <1>2, <1>3, <1>4, <1>5, <1>6

LEMMA Spent ==
    ASSUME TypeOK, NEW t \in Tokens, token[t] # Unissued, Spend(t), UsedAreGone
    PROVE  /\ token' \in [Tokens -> TokenOf \cup {Unissued}]
           /\ used' \in [Tokens -> Nat]
           /\ UsedAreGone'
           /\ \A u \in Tokens :
                  /\ (token'[u] # Unissued) = (token[u] # Unissued)
                  /\ token[u] # Unissued =>
                         /\ token'[u].user = token[u].user
                         /\ token'[u].purpose = token[u].purpose
                  /\ used[u] > 0 => used'[u] > 0
                  /\ Live(u)' => Live(u)
                  /\ u # t => used'[u] = used[u]
           /\ used'[t] = used[t] + 1 /\ used'[t] > 0
<1> DEFINE row == [token[t] EXCEPT !.state = "gone"]
<1>1. token[t] \in TokenOf /\ token \in [Tokens -> TokenOf \cup {Unissued}]
      /\ used \in [Tokens -> Nat]
    BY TokenRows DEF TypeOK
<1>2. /\ row \in TokenOf /\ row.user = token[t].user
      /\ row.purpose = token[t].purpose /\ row.state = "gone"
    BY <1>1 DEF TokenOf
<1>3. token' = [token EXCEPT ![t] = row] /\ used' = [used EXCEPT ![t] = used[t] + 1]
    BY DEF Spend
<1> HIDE DEF row
<1>4. /\ token'[t] = row /\ \A u \in Tokens \ {t} : token'[u] = token[u]
      /\ used'[t] = used[t] + 1 /\ \A u \in Tokens \ {t} : used'[u] = used[u]
    BY <1>1, <1>3
<1>5. row # Unissued
    BY <1>2, RowsDiffer
<1>6. token' \in [Tokens -> TokenOf \cup {Unissued}] /\ used' \in [Tokens -> Nat]
    BY <1>1, <1>2, <1>3
<1>7. used'[t] > 0
    BY <1>1, <1>4
<1>8. UsedAreGone'
    BY <1>2, <1>4, <1>5 DEF UsedAreGone
<1> QED BY <1>1, <1>2, <1>4, <1>5, <1>6, <1>7, <1>8 DEF Live
LEMMA CloseTyped ==
    ASSUME TypeOK, NEW w \in Workers, Close(w)
    PROVE  /\ request' \in [Workers -> RequestOf]
           /\ request'[w] = Idle
           /\ \A x \in Workers \ {w} : request'[x] = request[x]
BY RequestTyped DEF Close, RequestOf

LEMMA SignInTyped ==
    ASSUME TypeOK, NEW w \in Workers, NEW e \in Emails, SignIn(w, e)
    PROVE  /\ request' \in [Workers -> RequestOf]
           /\ request'[w] = [op |-> "session", email |-> e]
           /\ \A x \in Workers \ {w} : request'[x] = request[x]
<1>1. [op |-> "session", email |-> e] \in RequestOf
    BY DEF RequestOf, Requests
<1> QED BY <1>1, RequestTyped DEF SignIn

\* What a commit has to leave behind, beyond its own request.
Good == TypeOK' /\ Kept /\ UsedAreGone' /\ OwnersHaveAccepted'

----------------------------------------------------------------------------
(***************************************************************************)
(* The tables after each commit.                                           *)
(***************************************************************************)
\* A new account: the tokens and the sessions of others are left alone.
LEMMA AccountMade ==
    ASSUME IInv, NEW w \in Workers, NEW e \in Emails \ Users, NEW row \in UserOf,
           user' = [user EXCEPT ![e] = row],
           \/ UNCHANGED accepted /\ row.organization = "host"
           \/ accepted' = accepted \cup {e},
           \/ UNCHANGED token
           \/ \E t \in Unused : token' = [token EXCEPT ![t] = Issue(e, "verification")],
           UNCHANGED <<used, session>>, request' \in [Workers -> RequestOf]
    PROVE  Good
<1>0. TypeOK BY DEF IInv
<1>1. /\ user' \in [Emails -> UserOf \cup {NoUser}]
      /\ Users' = Users \cup {e}
      /\ \A x \in Users : user[x].verified => user'[x].verified
      /\ user'[e] = row
      /\ \A x \in Emails \ {e} : user'[x] = user[x]
    BY <1>0, UserWritten
<1>2. accepted' \subseteq Users' /\ session' \in [Sessions -> Users' \cup {None}]
    BY <1>1 DEF IInv, TypeOK
<1>3. /\ token' \in [Tokens -> TokenOf \cup {Unissued}]
      /\ \A t \in Tokens : token'[t] # Unissued => token'[t].user \in Users'
      /\ \A t \in Tokens : token[t] # Unissued => token'[t] = token[t]
    <2>1. CASE UNCHANGED token
        BY <1>0, <1>1, <2>1 DEF TypeOK
    <2>2. ASSUME NEW t \in Unused, token' = [token EXCEPT ![t] = Issue(e, "verification")]
          PROVE  <1>3
        <3>1. Issue(e, "verification") \in TokenOf /\ Issue(e, "verification").user = e
            BY DEF Issue, TokenOf, Purposes
        <3>2. t \in Tokens /\ token[t] = Unissued
            BY DEF Unused
        <3> QED BY <1>0, <1>1, <2>2, <3>1, <3>2 DEF TypeOK
    <2> QED BY <2>1, <2>2
<1>4. TypeOK'
    BY <1>0, <1>1, <1>2, <1>3 DEF TypeOK, RequestOf
<1>5. Kept
    BY <1>0, <1>1, <1>3 DEF Kept
<1>6. UsedAreGone'
    BY <1>3 DEF IInv, UsedAreGone
<1>7. OwnersHaveAccepted'
    BY <1>1 DEF IInv, OwnersHaveAccepted
<1> QED BY <1>4, <1>5, <1>6, <1>7 DEF Good

LEMMA RegisterGood ==
    ASSUME IInv, NEW w \in Workers, Register(w)
    PROVE  Good
<1> DEFINE row == [organization |-> "own", password |-> request[w].password,
                   google |-> None, active |-> TRUE, verified |-> FALSE]
<1>1. request[w].email \in Emails \ Users /\ request[w].password \in Passwords
    BY RequestTyped, KindsDiffer DEF Register, IInv
<1>2. row \in UserOf
    BY <1>1 DEF UserOf
<1>3. user' = [user EXCEPT ![request[w].email] = row]
    BY DEF Register
<1>4. request' \in [Workers -> RequestOf]
    BY CloseTyped DEF Register, IInv
<1> HIDE DEF row
<1> QED BY <1>1, <1>2, <1>3, <1>4, AccountMade DEF Register

LEMMA CreateUserGood ==
    ASSUME IInv, NEW w \in Workers, CreateUser(w)
    PROVE  Good
<1> DEFINE row == [organization |-> "host", password |-> request[w].password,
                   google |-> None, active |-> TRUE, verified |-> FALSE]
<1>1. request[w].email \in Emails \ Users /\ request[w].password \in Passwords
    BY RequestTyped, KindsDiffer DEF CreateUser, IInv
<1>2. row \in UserOf /\ row.organization = "host"
    BY <1>1 DEF UserOf
<1>3. user' = [user EXCEPT ![request[w].email] = row]
    BY DEF CreateUser
<1>4. request' \in [Workers -> RequestOf]
    BY CloseTyped DEF CreateUser, IInv
<1> HIDE DEF row
<1> QED BY <1>1, <1>2, <1>3, <1>4, AccountMade DEF CreateUser

LEMMA ProvisionGood ==
    ASSUME IInv, NEW w \in Workers, ProvisionGoogle(w)
    PROVE  /\ Good
           /\ request'[w] = [op |-> "session", email |-> request[w].identity.email]
           /\ \A x \in Workers \ {w} : request'[x] = request[x]
           /\ request[w].identity.email \in Users'
           /\ user'[request[w].identity.email].verified
<1> DEFINE i == request[w].identity
           row == [organization |-> "own", password |-> None, google |-> i.sub,
                   active |-> TRUE, verified |-> TRUE]
<1>1. i \in Identities /\ i.email \in Emails \ Users
    BY RequestTyped, KindsDiffer, IdentitiesAssumption DEF ProvisionGoogle, IInv
<1>2. row \in UserOf /\ row.verified
    BY <1>1 DEF UserOf, Subs
<1>3. user' = [user EXCEPT ![i.email] = row]
    BY DEF ProvisionGoogle
<1>4. /\ request' \in [Workers -> RequestOf]
      /\ request'[w] = [op |-> "session", email |-> i.email]
      /\ \A x \in Workers \ {w} : request'[x] = request[x]
    BY <1>1, SignInTyped DEF ProvisionGoogle, IInv
<1>5. /\ accepted' = accepted \cup {i.email} /\ UNCHANGED <<token, used, session>>
    BY DEF ProvisionGoogle
<1>6. Users' = Users \cup {i.email} /\ user'[i.email] = row
    BY <1>1, <1>2, <1>3, UserWritten DEF IInv
<1> HIDE DEF row, i
<1>7. Good
    BY <1>1, <1>2, <1>3, <1>4, <1>5, AccountMade
<1> QED BY <1>2, <1>4, <1>6, <1>7 DEF i

\* An account that is there is written, perhaps as a token is spent.
LEMMA AccountChanged ==
    ASSUME IInv, NEW e \in Users, NEW row \in UserOf,
           user' = [user EXCEPT ![e] = row],
           user[e].verified => row.verified,
           row.organization = user[e].organization,
           \/ UNCHANGED <<token, used>>
           \/ \E t \in Tokens : token[t] # Unissued /\ Spend(t),
           UNCHANGED <<accepted, session>>, request' \in [Workers -> RequestOf]
    PROVE  Good /\ Users' = Users /\ user'[e] = row
<1>0. TypeOK /\ e \in Emails BY UserRows DEF IInv
<1>1. /\ user' \in [Emails -> UserOf \cup {NoUser}]
      /\ Users' = Users \cup {e}
      /\ \A x \in Users : user[x].verified => user'[x].verified
      /\ user'[e] = row
      /\ \A x \in Emails \ {e} : user'[x] = user[x]
    BY <1>0, UserWritten
<1>2. /\ token' \in [Tokens -> TokenOf \cup {Unissued}]
      /\ used' \in [Tokens -> Nat] /\ UsedAreGone'
      /\ \A u \in Tokens :
             /\ (token'[u] # Unissued) = (token[u] # Unissued)
             /\ token[u] # Unissued =>
                    /\ token'[u].user = token[u].user
                    /\ token'[u].purpose = token[u].purpose
             /\ used[u] > 0 => used'[u] > 0
    <2>1. CASE UNCHANGED <<token, used>>
        BY <1>0, <2>1 DEF TypeOK, IInv, UsedAreGone
    <2>2. CASE \E t \in Tokens : token[t] # Unissued /\ Spend(t)
        BY <1>0, <2>2, Spent DEF IInv
    <2> QED BY <2>1, <2>2
<1>3. Users' = Users
    BY <1>1
<1>4. TypeOK'
    BY <1>0, <1>1, <1>2, <1>3 DEF TypeOK, RequestOf
<1>5. Kept
    BY <1>0, <1>1, <1>2 DEF Kept
<1>6. OwnersHaveAccepted'
    BY <1>1, <1>3 DEF IInv, OwnersHaveAccepted
<1> QED BY <1>1, <1>2, <1>3, <1>4, <1>5, <1>6 DEF Good
LEMMA LinkGood ==
    ASSUME IInv, NEW w \in Workers, LinkGoogle(w)
    PROVE  /\ Good
           /\ request'[w] = [op |-> "session", email |-> request[w].identity.email]
           /\ \A x \in Workers \ {w} : request'[x] = request[x]
           /\ request[w].identity.email \in Users'
           /\ user'[request[w].identity.email].verified
<1> DEFINE i == request[w].identity
           e == i.email
           s == IF request[w].row.google = i.sub THEN user[e].google ELSE i.sub
           row == [user[e] EXCEPT !.google = s, !.verified = TRUE]
<1>0. TypeOK BY DEF IInv
<1>1. i \in Identities /\ e \in Users
    BY <1>0, RequestTyped, KindsDiffer DEF LinkGoogle, IInv, RequestsOK, RequestOK
<1>2. user[e] \in UserOf /\ e \in Emails
    BY <1>0, <1>1, UserRows
<1>3. s \in Subs \cup {None}
    BY <1>1, <1>2 DEF UserOf, Subs
<1>4. /\ user' = [user EXCEPT ![e].google = s, ![e].verified = TRUE]
      /\ SignIn(w, e) /\ UNCHANGED <<accepted, token, used, session>>
    BY DEF LinkGoogle
<1> HIDE DEF s
<1>5. /\ row \in UserOf /\ row.verified /\ row.organization = user[e].organization
      /\ user' = [user EXCEPT ![e] = row]
    BY <1>0, <1>1, <1>3, <1>4, UserFields
<1>6. /\ request' \in [Workers -> RequestOf]
      /\ request'[w] = [op |-> "session", email |-> e]
      /\ \A x \in Workers \ {w} : request'[x] = request[x]
    BY <1>0, <1>2, <1>4, SignInTyped
<1> HIDE DEF row, e, i
<1>7. Good /\ Users' = Users /\ user'[e] = row
    BY <1>1, <1>4, <1>5, <1>6, AccountChanged
<1> QED BY <1>1, <1>5, <1>6, <1>7 DEF e, i

LEMMA VerifyGood ==
    ASSUME IInv, NEW w \in Workers, VerifyEmail(w)
    PROVE  /\ Good
           /\ request'[w] = [op |-> "session", email |-> request[w].email]
           /\ \A x \in Workers \ {w} : request'[x] = request[x]
           /\ request[w].email \in Users'
           /\ user'[request[w].email].verified
<1> DEFINE e == request[w].email
           row == [user[e] EXCEPT !.verified = TRUE]
<1>0. TypeOK BY DEF IInv
<1>1. /\ e \in Users /\ e \in Emails /\ request[w].token \in Tokens
      /\ token[request[w].token] # Unissued
    BY <1>0, RequestTyped, KindsDiffer DEF VerifyEmail, IInv, RequestsOK, RequestOK
<1>2. /\ row \in UserOf /\ row.verified /\ row.organization = user[e].organization
      /\ user' = [user EXCEPT ![e] = row]
    BY <1>0, <1>1, UserFields DEF VerifyEmail
<1>3. /\ Spend(request[w].token) /\ UNCHANGED <<accepted, session>> /\ SignIn(w, e)
    BY DEF VerifyEmail
<1>4. /\ request' \in [Workers -> RequestOf]
      /\ request'[w] = [op |-> "session", email |-> e]
      /\ \A x \in Workers \ {w} : request'[x] = request[x]
    BY <1>0, <1>1, <1>3, SignInTyped
<1> HIDE DEF row, e
<1>5. Good /\ Users' = Users /\ user'[e] = row
    BY <1>1, <1>2, <1>3, <1>4, AccountChanged
<1> QED BY <1>1, <1>2, <1>4, <1>5 DEF e

LEMMA ResetGood ==
    ASSUME IInv, NEW w \in Workers, ResetPassword(w)
    PROVE  /\ Good
           /\ request'[w] = [op |-> "session", email |-> request[w].email]
           /\ \A x \in Workers \ {w} : request'[x] = request[x]
           /\ request[w].email \in Users'
           /\ request[w].token \in Tokens /\ used'[request[w].token] > 0
           /\ token'[request[w].token].user = request[w].email
           /\ token'[request[w].token].purpose = "reset"
<1> DEFINE e == request[w].email
           row == [user[e] EXCEPT !.password = request[w].password]
<1>0. TypeOK BY DEF IInv
<1>1. /\ e \in Users /\ e \in Emails /\ request[w].token \in Tokens
      /\ token[request[w].token] # Unissued
      /\ token[request[w].token].user = e /\ token[request[w].token].purpose = "reset"
      /\ request[w].password \in Passwords
    BY <1>0, RequestTyped, KindsDiffer DEF ResetPassword, IInv, RequestsOK, RequestOK
<1>2. /\ row \in UserOf /\ row.verified = user[e].verified
      /\ row.organization = user[e].organization
      /\ user' = [user EXCEPT ![e] = row]
    BY <1>0, <1>1, UserFields DEF ResetPassword
<1>3. /\ Spend(request[w].token) /\ UNCHANGED <<accepted, session>> /\ SignIn(w, e)
    BY DEF ResetPassword
<1>4. /\ request' \in [Workers -> RequestOf]
      /\ request'[w] = [op |-> "session", email |-> e]
      /\ \A x \in Workers \ {w} : request'[x] = request[x]
    BY <1>0, <1>1, <1>3, SignInTyped
<1>5. /\ used'[request[w].token] > 0 /\ token'[request[w].token].user = e
      /\ token'[request[w].token].purpose = "reset"
    BY <1>0, <1>1, <1>3, Spent DEF IInv
<1>6. \E t \in Tokens : token[t] # Unissued /\ Spend(t)
    BY <1>1, <1>3
<1> HIDE DEF row, e
<1>7. Good /\ Users' = Users /\ user'[e] = row
    <2>1. e \in Users /\ UNCHANGED <<accepted, session>> /\ request' \in [Workers -> RequestOf]
        BY <1>1, <1>3, <1>4
    <2>2. user[e].verified => row.verified
        BY <1>2
    <2> QED BY ONLY IInv, <1>2, <1>6, <2>1, <2>2, AccountChanged
<1> QED BY <1>1, <1>4, <1>5, <1>7 DEF e

LEMMA ChangeGood ==
    ASSUME IInv, NEW w \in Workers, ChangePassword(w)
    PROVE  Good
<1> DEFINE e == request[w].email
           row == [user[e] EXCEPT !.password = request[w].password]
<1>0. TypeOK BY DEF IInv
<1>1. e \in Users /\ request[w].password \in Passwords
    BY <1>0, RequestTyped, KindsDiffer DEF ChangePassword, IInv, RequestsOK, RequestOK
<1>2. /\ row \in UserOf /\ row.verified = user[e].verified
      /\ row.organization = user[e].organization
      /\ user' = [user EXCEPT ![e] = row]
    BY <1>0, <1>1, UserFields DEF ChangePassword
<1>3. request' \in [Workers -> RequestOf] /\ UNCHANGED <<accepted, token, used, session>>
    BY <1>0, CloseTyped DEF ChangePassword
<1> HIDE DEF row, e
<1> QED BY <1>1, <1>2, <1>3, AccountChanged

LEMMA SetActiveGood ==
    ASSUME IInv, NEW w \in Workers, SetActive(w)
    PROVE  Good
<1> DEFINE e == request[w].email
           row == [user[e] EXCEPT !.active = request[w].active]
<1>0. TypeOK BY DEF IInv
<1>1. e \in Users /\ request[w].active \in BOOLEAN
    BY <1>0, RequestTyped, KindsDiffer DEF SetActive, IInv, RequestsOK, RequestOK
<1>2. /\ row \in UserOf /\ row.verified = user[e].verified
      /\ row.organization = user[e].organization
      /\ user' = [user EXCEPT ![e] = row]
    BY <1>0, <1>1, UserFields DEF SetActive
<1>3. request' \in [Workers -> RequestOf] /\ UNCHANGED <<accepted, token, used, session>>
    BY <1>0, CloseTyped DEF SetActive
<1> HIDE DEF row, e
<1> QED BY <1>1, <1>2, <1>3, AccountChanged

\* Tokens are issued and withdrawn while the accounts stay as they are.
LEMMA TokensChanged ==
    ASSUME IInv, UNCHANGED <<user, accepted, used, session>>,
           request' \in [Workers -> RequestOf],
           token' \in [Tokens -> TokenOf \cup {Unissued}],
           \A t \in Tokens :
               /\ token'[t] # Unissued => token'[t].user \in Users
               /\ token[t] # Unissued =>
                      /\ token'[t] # Unissued
                      /\ token'[t].user = token[t].user
                      /\ token'[t].purpose = token[t].purpose
                      /\ token[t].state = "gone" => token'[t].state = "gone"
    PROVE  Good
<1>1. Users' = Users
    BY DEF Users
<1>2. TypeOK'
    BY <1>1 DEF IInv, TypeOK, RequestOf
<1>3. Kept /\ UsedAreGone' /\ OwnersHaveAccepted'
    BY <1>1 DEF IInv, Kept, UsedAreGone, OwnersHaveAccepted
<1> QED BY <1>2, <1>3 DEF Good

LEMMA GoneRow ==
    ASSUME NEW row \in TokenOf
    PROVE  /\ [row EXCEPT !.state = "gone"] \in TokenOf
           /\ [row EXCEPT !.state = "gone"] # Unissued
           /\ [row EXCEPT !.state = "gone"].user = row.user
           /\ [row EXCEPT !.state = "gone"].purpose = row.purpose
           /\ [row EXCEPT !.state = "gone"].state = "gone"
BY RowsDiffer DEF TokenOf

\* In words of its own, what MailToken does to the tokens.
LEMMA Mailed ==
    ASSUME IInv, NEW w \in Workers, MailToken(w)
    PROVE  /\ request[w].email \in Users /\ request[w].purpose \in Purposes
           /\ request[w].seen \in SUBSET Tokens
           /\ \E t \in Unused :
                  /\ token' \in [Tokens -> TokenOf \cup {Unissued}]
                  /\ token'[t] = Issue(request[w].email, request[w].purpose)
                  /\ \A u \in request[w].seen \ {t} :
                         token'[u] = [token[u] EXCEPT !.state = "gone"]
                             /\ token[u] \in TokenOf
                  /\ \A u \in Tokens \ {t} :
                         u \notin request[w].seen => token'[u] = token[u]
<1> DEFINE r == request[w]
<1>0. TypeOK BY DEF IInv
<1>1. /\ r.op = "mail" /\ r.email \in Users /\ r.email \in Emails
      /\ r.purpose \in Purposes /\ r.seen \in SUBSET Tokens
      /\ \A u \in r.seen : token[u] \in TokenOf
    BY <1>0, RequestTyped, KindsDiffer, TokenRows
       DEF MailToken, IInv, RequestsOK, RequestOK
<1>2. PICK t \in Unused :
          token' = [u \in Tokens |->
              IF u = t THEN Issue(r.email, r.purpose)
              ELSE IF u \in r.seen THEN [token[u] EXCEPT !.state = "gone"]
              ELSE token[u]]
    BY DEF MailToken
<1>3. Issue(r.email, r.purpose) \in TokenOf
    BY <1>1 DEF Issue, TokenOf
<1>4. t \in Tokens /\ token \in [Tokens -> TokenOf \cup {Unissued}]
    BY <1>0 DEF Unused, TypeOK
<1> HIDE DEF r
<1>5. token' \in [Tokens -> TokenOf \cup {Unissued}]
    BY <1>1, <1>2, <1>3, <1>4, GoneRow
<1>6. /\ token'[t] = Issue(r.email, r.purpose)
      /\ \A u \in r.seen \ {t} : token'[u] = [token[u] EXCEPT !.state = "gone"]
      /\ \A u \in Tokens \ {t} : u \notin r.seen => token'[u] = token[u]
    BY <1>1, <1>2, <1>4
<1> QED BY <1>1, <1>5, <1>6 DEF r

LEMMA MailGood ==
    ASSUME IInv, NEW w \in Workers, MailToken(w)
    PROVE  Good
<1> DEFINE r == request[w]
<1>0. TypeOK BY DEF IInv
<1>1. PICK t \in Unused :
          /\ token' \in [Tokens -> TokenOf \cup {Unissued}]
          /\ token'[t] = Issue(r.email, r.purpose)
          /\ \A u \in r.seen \ {t} : token'[u] = [token[u] EXCEPT !.state = "gone"]
                                      /\ token[u] \in TokenOf
          /\ \A u \in Tokens \ {t} : u \notin r.seen => token'[u] = token[u]
    BY Mailed
<1>2. r.email \in Users
    BY Mailed
<1>3. ASSUME NEW u \in Tokens
      PROVE  /\ token'[u] # Unissued => token'[u].user \in Users
             /\ token[u] # Unissued =>
                    /\ token'[u] # Unissued
                    /\ token'[u].user = token[u].user
                    /\ token'[u].purpose = token[u].purpose
                    /\ token[u].state = "gone" => token'[u].state = "gone"
    <2>1. CASE u = t
        BY <1>1, <1>2, <2>1 DEF Unused, Issue
    <2>2. CASE u # t /\ u \in r.seen
        <3>1. token[u] \in TokenOf /\ token'[u] = [token[u] EXCEPT !.state = "gone"]
            BY <1>1, <2>2
        <3>2. token[u].user \in Users
            BY <1>0, <3>1, TokenRows, RowsDiffer
        <3> QED BY <3>1, <3>2, GoneRow
    <2>3. CASE u # t /\ u \notin r.seen
        <3>1. token'[u] = token[u]
            BY <1>1, <2>3
        <3> QED BY <1>0, <3>1, TokenRows
    <2> QED BY <2>1, <2>2, <2>3
<1>4. UNCHANGED <<user, accepted, used, session>> /\ request' \in [Workers -> RequestOf]
    BY <1>0, CloseTyped DEF MailToken
<1> QED BY <1>1, <1>3, <1>4, TokensChanged

LEMMA ExpireGood ==
    ASSUME IInv, NEW t \in Tokens, ExpireToken(t)
    PROVE  Good
<1> DEFINE row == [token[t] EXCEPT !.state = "gone"]
<1>0. TypeOK BY DEF IInv
<1>1. token[t] \in TokenOf /\ token' = [token EXCEPT ![t] = row]
    BY <1>0, TokenRows DEF ExpireToken
<1>2. /\ row \in TokenOf /\ row # Unissued /\ row.user = token[t].user
      /\ row.purpose = token[t].purpose /\ row.state = "gone"
    BY <1>1, GoneRow
<1> HIDE DEF row
<1>3. UNCHANGED <<user, accepted, used, session, request>>
    BY DEF ExpireToken
<1>4. token \in [Tokens -> TokenOf \cup {Unissued}] /\ request \in [Workers -> RequestOf]
    BY <1>0, RequestTyped DEF TypeOK
<1>5. /\ token' \in [Tokens -> TokenOf \cup {Unissued}]
      /\ token'[t] = row /\ \A u \in Tokens \ {t} : token'[u] = token[u]
    BY <1>1, <1>2, <1>4
<1>6. \A u \in Tokens : token[u] # Unissued => token[u].user \in Users
    BY <1>0, TokenRows
<1> QED BY <1>1, <1>2, <1>3, <1>4, <1>5, <1>6, RowsDiffer, TokensChanged

LEMMA SessionsGood ==
    ASSUME IInv, UNCHANGED <<user, token, used>>, request' \in [Workers -> RequestOf],
           \/ /\ UNCHANGED session
              /\ accepted' \subseteq Users /\ accepted \subseteq accepted'
           \/ /\ UNCHANGED accepted
              /\ session' \in [Sessions -> Users \cup {None}]
    PROVE  Good
<1>1. Users' = Users
    BY DEF Users
<1>2. TypeOK'
    BY <1>1 DEF IInv, TypeOK, RequestOf
<1>3. Kept /\ UsedAreGone' /\ OwnersHaveAccepted'
    BY <1>1 DEF IInv, Kept, UsedAreGone, OwnersHaveAccepted
<1> QED BY <1>2, <1>3 DEF Good
----------------------------------------------------------------------------
(***************************************************************************)
(* What requests have read.                                                *)
(***************************************************************************)
\* Only the request of w changes: to r.
Asks(w, r) == request' = [request EXCEPT ![w] = r] /\ UNCHANGED Tables

LEMMA MailAsks ==
    ASSUME IInv, NEW w \in Workers, NEW e \in Users, NEW p \in Purposes,
           LoadForMail(w, e, p)
    PROVE  \E r \in RequestOf : Asks(w, r) /\ RequestOK(r)
<1> DEFINE r == [op |-> "mail", email |-> e, purpose |-> p, seen |-> LiveTokens(e, p)]
<1>1. LiveTokens(e, p) \in SUBSET Tokens /\ e \in Emails
    BY UserRows DEF LiveTokens, IInv
<1>2. \A t \in LiveTokens(e, p) : token[t] # Unissued
    BY TokenRows DEF LiveTokens, IInv
<1>3. r \in RequestOf
    BY <1>1 DEF RequestOf, Requests
<1>4. RequestOK(r)
    BY <1>2 DEF RequestOK
<1>5. Asks(w, r)
    BY DEF LoadForMail, Begin, Asks, Tables
<1> QED BY <1>3, <1>4, <1>5

LEMMA LoadsAsk ==
    ASSUME IInv, NEW w \in Workers,
           \/ LoadForSignup(w) \/ LoadForInvite(w) \/ LoadForGoogle(w)
           \/ LoadForVerification(w) \/ LoadForReset(w)
           \/ LoadForResend(w) \/ LoadForForgot(w)
    PROVE  \E r \in RequestOf : Asks(w, r) /\ RequestOK(r)
<1>0. TypeOK BY DEF IInv
<1>1. CASE LoadForSignup(w) \/ LoadForInvite(w)
    <2>1. PICK e \in Emails \ Users, p \in Passwords, o \in {"signup", "invite"} :
              Begin(w, [op |-> o, email |-> e, password |-> p, row |-> user[e]])
        BY <1>1 DEF LoadForSignup, LoadForInvite
    <2> DEFINE r == [op |-> o, email |-> e, password |-> p, row |-> user[e]]
    <2>2. user[e] = NoUser
        BY <1>0, UserRows
    <2>3. r \in RequestOf /\ RequestOK(r)
        BY <2>2 DEF RequestOf, Requests, RequestOK
    <2>4. Asks(w, r)
        BY <2>1 DEF Begin, Asks, Tables
    <2> QED BY <2>3, <2>4
<1>2. CASE LoadForGoogle(w)
    <2>1. PICK i \in Identities :
              Begin(w, [op |-> "google", identity |-> i, row |-> user[i.email]])
        BY <1>2 DEF LoadForGoogle
    <2> DEFINE r == [op |-> "google", identity |-> i, row |-> user[i.email]]
    <2>2. /\ i.email \in Emails /\ user[i.email] \in UserOf \cup {NoUser}
          /\ user[i.email] # NoUser => i.email \in Users
        BY <1>0, IdentitiesAssumption DEF TypeOK, Users
    <2>3. r \in RequestOf
        BY <2>2 DEF RequestOf, Requests
    <2>4. RequestOK(r)
        BY <2>2 DEF RequestOK
    <2>5. Asks(w, r)
        BY <2>1 DEF Begin, Asks, Tables
    <2> QED BY <2>3, <2>4, <2>5
<1>3. CASE LoadForVerification(w)
    <2>1. PICK t \in Tokens :
              /\ Live(t) /\ token[t].purpose = "verification"
              /\ Begin(w, [op |-> "verification", token |-> t, email |-> token[t].user])
        BY <1>3 DEF LoadForVerification
    <2> DEFINE r == [op |-> "verification", token |-> t, email |-> token[t].user]
    <2>2. token[t] # Unissued /\ token[t].user \in Users /\ token[t].user \in Emails
        BY <1>0, <2>1, TokenRows, UserRows
    <2>3. r \in RequestOf /\ RequestOK(r)
        BY <2>1, <2>2 DEF RequestOf, Requests, RequestOK
    <2>4. Asks(w, r)
        BY <2>1 DEF Begin, Asks, Tables
    <2> QED BY <2>3, <2>4
<1>4. CASE LoadForReset(w)
    <2>1. PICK t \in Tokens, p \in Passwords :
              /\ Live(t) /\ token[t].purpose = "reset"
              /\ Begin(w, [op |-> "reset", token |-> t, email |-> token[t].user,
                           password |-> p])
        BY <1>4 DEF LoadForReset
    <2> DEFINE r == [op |-> "reset", token |-> t, email |-> token[t].user, password |-> p]
    <2>2. token[t] # Unissued /\ token[t].user \in Users /\ token[t].user \in Emails
        BY <1>0, <2>1, TokenRows, UserRows
    <2>3. r \in RequestOf /\ RequestOK(r)
        BY <2>1, <2>2 DEF RequestOf, Requests, RequestOK
    <2>4. Asks(w, r)
        BY <2>1 DEF Begin, Asks, Tables
    <2> QED BY <2>3, <2>4
<1>5. CASE LoadForResend(w) \/ LoadForForgot(w)
    BY <1>5, MailAsks DEF LoadForResend, LoadForForgot, Purposes
<1> QED BY <1>1, <1>2, <1>3, <1>4, <1>5

\* A request by somebody who is signed in, or signs in with a password.
LEMMA AsksOfUsers ==
    ASSUME IInv, NEW w \in Workers,
           \/ LoadForLogin(w) \/ LoadForGate(w) \/ LoadForAccept(w)
           \/ PassGate(w) \/ LoadForChange(w) \/ LoadForToggle(w)
    PROVE  \E r \in RequestOf : Asks(w, r) /\ RequestOK(r)
<1>0. TypeOK BY DEF IInv
<1>1. CASE LoadForLogin(w)
    <2>1. PICK e \in Users :
              user[e].verified /\ Begin(w, [op |-> "session", email |-> e])
        BY <1>1 DEF LoadForLogin, Authenticates
    <2>2. e \in Emails
        BY <1>0, UserRows
    <2>3. [op |-> "session", email |-> e] \in RequestOf
        BY <2>2 DEF RequestOf, Requests
    <2>4. RequestOK([op |-> "session", email |-> e])
        BY <2>1 DEF RequestOK, Proved
    <2>5. Asks(w, [op |-> "session", email |-> e])
        BY <2>1 DEF Begin, Asks, Tables
    <2> QED BY <2>3, <2>4, <2>5
<1>2. CASE LoadForGate(w) \/ LoadForAccept(w)
    <2>1. PICK s \in Sessions, o \in {"gate", "accept"} :
              session[s] # None /\ Begin(w, [op |-> o, email |-> session[s]])
        BY <1>2 DEF LoadForGate, LoadForAccept, Admits
    <2>2. session[s] \in Users /\ session[s] \in Emails
        BY <1>0, <2>1, UserRows DEF TypeOK
    <2>3. [op |-> o, email |-> session[s]] \in RequestOf
        BY <2>2 DEF RequestOf, Requests
    <2>4. RequestOK([op |-> o, email |-> session[s]])
        BY <2>2 DEF RequestOK
    <2>5. Asks(w, [op |-> o, email |-> session[s]])
        BY <2>1 DEF Begin, Asks, Tables
    <2> QED BY <2>3, <2>4, <2>5
<1>3. CASE PassGate(w)
    <2> DEFINE r == [request[w] EXCEPT !.op = "page"]
    <2>1. request[w].op = "gate" /\ request[w] \in RequestOf /\ request[w].email \in Users
        BY <1>0, <1>3, RequestTyped DEF PassGate, IInv, RequestsOK, RequestOK
    <2>2. request[w] \in [op : {"session", "gate", "page", "accept"}, email : Emails]
        BY <2>1 DEF RequestOf, Requests, Idle
    <2>3. r \in [op : {"session", "gate", "page", "accept"}, email : Emails]
          /\ r.op = "page" /\ r.email = request[w].email
        BY <2>2
    <2>4. Asks(w, r)
        BY <1>3 DEF PassGate, Asks, Tables
    <2> HIDE DEF r
    <2>5. r \in RequestOf
        BY <2>3 DEF RequestOf, Requests
    <2>6. RequestOK(r)
        BY <2>1, <2>3 DEF RequestOK
    <2> QED BY <2>4, <2>5, <2>6
<1>4. CASE LoadForChange(w)
    <2>1. PICK p \in Passwords :
              request' = [request EXCEPT ![w] =
                  [op |-> "change", email |-> request[w].email, password |-> p]]
        BY <1>4 DEF LoadForChange
    <2> DEFINE r == [op |-> "change", email |-> request[w].email, password |-> p]
    <2>2. request[w].email \in Users /\ request[w].email \in Emails
        BY <1>0, <1>4, UserRows DEF LoadForChange, IInv, RequestsOK, RequestOK
    <2>3. r \in RequestOf /\ RequestOK(r)
        BY <2>2 DEF RequestOf, Requests, RequestOK
    <2>4. Asks(w, r)
        BY <1>4, <2>1 DEF LoadForChange, Asks, Tables
    <2> QED BY <2>3, <2>4
<1>5. CASE LoadForToggle(w)
    <2>1. PICK e \in Users :
              request' = [request EXCEPT ![w] =
                  [op |-> "toggle", email |-> e, active |-> ~user[e].active]]
        BY <1>5 DEF LoadForToggle
    <2> DEFINE r == [op |-> "toggle", email |-> e, active |-> ~user[e].active]
    <2>2. e \in Emails
        BY <1>0, UserRows
    <2>3. PICK b \in BOOLEAN : b = ~user[e].active
        OBVIOUS
    <2>4. [op |-> "toggle", email |-> e, active |-> b] \in RequestOf
        BY <2>2 DEF RequestOf, Requests
    <2>5. r \in RequestOf /\ RequestOK(r)
        BY <2>2, <2>3, <2>4 DEF RequestOK
    <2>6. Asks(w, r)
        BY <1>5, <2>1 DEF LoadForToggle, Asks, Tables
    <2> QED BY <2>5, <2>6
<1> QED BY <1>1, <1>2, <1>3, <1>4, <1>5
----------------------------------------------------------------------------
(***************************************************************************)
(* The invariant.                                                          *)
(***************************************************************************)
LEMMA ProvedStays ==
    ASSUME UsedAreGone, Kept, NEW e \in Users, Proved(e)
    PROVE  Proved(e)'
<1>1. CASE user[e].verified
    BY <1>1 DEF Kept, Proved
<1>2. CASE \E t \in Tokens : used[t] > 0 /\ token[t].user = e /\ token[t].purpose = "reset"
    <2>1. PICK t \in Tokens : used[t] > 0 /\ token[t].user = e /\ token[t].purpose = "reset"
        BY <1>2
    <2>2. token[t] # Unissued
        BY <2>1 DEF UsedAreGone
    <2> QED BY <2>1, <2>2 DEF Kept, Proved
<1> QED BY <1>1, <1>2 DEF Proved
LEMMA OthersOK ==
    ASSUME IInv, Kept, NEW x \in Workers, request'[x] = request[x]
    PROVE  RequestOK(request[x])'
<1> DEFINE r == request[x]
<1>1. RequestOK(r) /\ r \in RequestOf /\ request'[x] = r
    BY RequestTyped DEF IInv, RequestsOK
<1>2. /\ r.op \in {"verification", "reset"} => r.token \in Tokens
      /\ r.op = "mail" => r.seen \in SUBSET Tokens
    BY <1>1, KindsDiffer
<1>3. r.op = "session" => Proved(request[x].email)'
    <2>1. PICK e : e = r.email
        OBVIOUS
    <2>2. r.op = "session" => e \in Users /\ Proved(e)
        BY <1>1, <2>1 DEF RequestOK
    <2>3. r.op = "session" => Proved(e)'
        BY <2>2, ProvedStays DEF IInv
    <2>4. request'[x].email = e
        BY <2>1
    <2> QED BY <2>3, <2>4
<1> HIDE DEF r
<1>4. /\ r.op \in {"verification", "reset"} =>
             token'[r.token] # Unissued /\ token'[r.token].user = r.email
                 /\ token'[r.token].purpose = r.op
      /\ r.op \in {"verification", "reset", "mail", "change", "toggle", "session",
                   "gate", "page", "accept"} => r.email \in Users'
      /\ r.op = "google" /\ r.row # NoUser => r.identity.email \in Users'
      /\ r.op = "mail" => \A t \in r.seen : token'[t] # Unissued
    BY <1>1, <1>2 DEF Kept, RequestOK
<1>5. r.op = "session" => Proved(request[x].email)'
    BY <1>3 DEF r
<1> QED BY <1>1, <1>4, <1>5 DEF RequestOK
\* A step of w, or of nobody: it is Good, its request is RequestOK after it, and
\* it leaves the other requests alone.
StepOf(w) ==
    /\ Good
    /\ RequestOK(request[w])'
    /\ \A x \in Workers \ {w} : request'[x] = request[x]

LEMMA EndsOK ==
    ASSUME IInv, NEW w \in Workers, Close(w), Good
    PROVE  StepOf(w)
<1>1. request'[w] = Idle /\ \A x \in Workers \ {w} : request'[x] = request[x]
    BY CloseTyped DEF IInv
<1> QED BY <1>1 DEF StepOf, RequestOK, Idle

LEMMA AsksOK ==
    ASSUME IInv, NEW w \in Workers, NEW r \in RequestOf, Asks(w, r), RequestOK(r)
    PROVE  StepOf(w)
<1>1. /\ request' \in [Workers -> RequestOf] /\ request'[w] = r
      /\ \A x \in Workers \ {w} : request'[x] = request[x]
    BY RequestTyped DEF Asks, IInv
<1>2. Good
    BY <1>1, TablesKept DEF Asks, Good
<1>3. UNCHANGED Tables
    BY DEF Asks
<1>4. RequestOK(request[w])'
    BY <1>1, <1>3 DEF RequestOK, Tables, Users, Proved
<1> QED BY <1>1, <1>2, <1>4 DEF StepOf

LEMMA SignsInOK ==
    ASSUME IInv, NEW w \in Workers,
           \/ LinkGoogle(w) \/ ProvisionGoogle(w) \/ VerifyEmail(w) \/ ResetPassword(w)
    PROVE  StepOf(w)
<1>1. CASE LinkGoogle(w)
    <2>1. PICK e : e = request[w].identity.email
        OBVIOUS
    <2>2. /\ Good /\ request'[w] = [op |-> "session", email |-> e]
          /\ \A x \in Workers \ {w} : request'[x] = request[x]
          /\ e \in Users' /\ user'[e].verified
        BY <1>1, <2>1, LinkGood
    <2> QED BY <2>2 DEF StepOf, RequestOK, Proved
<1>2. CASE ProvisionGoogle(w)
    <2>1. PICK e : e = request[w].identity.email
        OBVIOUS
    <2>2. /\ Good /\ request'[w] = [op |-> "session", email |-> e]
          /\ \A x \in Workers \ {w} : request'[x] = request[x]
          /\ e \in Users' /\ user'[e].verified
        BY <1>2, <2>1, ProvisionGood
    <2> QED BY <2>2 DEF StepOf, RequestOK, Proved
<1>3. CASE VerifyEmail(w)
    <2>1. PICK e : e = request[w].email
        OBVIOUS
    <2>2. /\ Good /\ request'[w] = [op |-> "session", email |-> e]
          /\ \A x \in Workers \ {w} : request'[x] = request[x]
          /\ e \in Users' /\ user'[e].verified
        BY <1>3, <2>1, VerifyGood
    <2> QED BY <2>2 DEF StepOf, RequestOK, Proved
<1>4. CASE ResetPassword(w)
    <2>1. PICK e, t : e = request[w].email /\ t = request[w].token
        OBVIOUS
    <2>2. /\ Good /\ request'[w] = [op |-> "session", email |-> e]
          /\ \A x \in Workers \ {w} : request'[x] = request[x]
          /\ e \in Users' /\ t \in Tokens /\ used'[t] > 0
          /\ token'[t].user = e /\ token'[t].purpose = "reset"
        BY <1>4, <2>1, ResetGood
    <2> QED BY <2>2 DEF StepOf, RequestOK, Proved
<1> QED BY <1>1, <1>2, <1>3, <1>4

LEMMA ClosesOK ==
    ASSUME IInv, NEW w \in Workers,
           \/ Register(w) \/ CreateUser(w) \/ MailToken(w) \/ CreateSession(w)
           \/ ChangePassword(w) \/ SetActive(w) \/ RecordAcceptance(w) \/ End(w)
    PROVE  StepOf(w)
<1>1. Close(w)
    BY DEF Register, CreateUser, MailToken, CreateSession, ChangePassword, SetActive,
           RecordAcceptance, End
<1>2. request' \in [Workers -> RequestOf] /\ TypeOK
    BY <1>1, CloseTyped DEF IInv
<1>3. Good
    <2>1. CASE Register(w) BY <2>1, RegisterGood
    <2>2. CASE CreateUser(w) BY <2>2, CreateUserGood
    <2>3. CASE MailToken(w) BY <2>3, MailGood
    <2>4. CASE ChangePassword(w) BY <2>4, ChangeGood
    <2>5. CASE SetActive(w) BY <2>5, SetActiveGood
    <2>6. CASE CreateSession(w)
        <3>1. request[w].email \in Users
            BY <2>6 DEF CreateSession, IInv, RequestsOK, RequestOK
        <3>2. session' \in [Sessions -> Users \cup {None}]
            BY <1>2, <2>6, <3>1 DEF CreateSession, TypeOK
        <3> QED BY <1>2, <2>6, <3>2, SessionsGood DEF CreateSession
    <2>7. CASE RecordAcceptance(w)
        <3>1. request[w].email \in Users
            BY <2>7 DEF RecordAcceptance, IInv, RequestsOK, RequestOK
        <3>2. accepted' \subseteq Users /\ accepted \subseteq accepted'
            BY <1>2, <2>7, <3>1 DEF RecordAcceptance, TypeOK
        <3> QED BY <1>2, <2>7, <3>2, SessionsGood DEF RecordAcceptance
    <2>8. CASE End(w)
        BY <1>2, <2>8, TablesKept DEF End, Tables, Good
    <2> QED BY <2>1, <2>2, <2>3, <2>4, <2>5, <2>6, <2>7, <2>8
<1> QED BY <1>1, <1>3, EndsOK

\* What is nobody's call.
LEMMA TimeGood ==
    ASSUME IInv, (\E s \in Sessions : EndSession(s)) \/ (\E t \in Tokens : ExpireToken(t))
    PROVE  Good /\ UNCHANGED request
<1>1. CASE \E t \in Tokens : ExpireToken(t)
    BY <1>1, ExpireGood DEF ExpireToken
<1>2. CASE \E s \in Sessions : EndSession(s)
    <2>1. PICK s \in Sessions : EndSession(s)
        BY <1>2
    <2>2. request' \in [Workers -> RequestOf] /\ session' \in [Sessions -> Users \cup {None}]
        BY <2>1, RequestTyped DEF EndSession, IInv, TypeOK
    <2> QED BY <2>1, <2>2, SessionsGood DEF EndSession
<1> QED BY <1>1, <1>2

\* Every step is one of these.
LEMMA Steps ==
    ASSUME IInv, Next
    PROVE  Good /\ \/ UNCHANGED request
                   \/ \E w \in Workers : StepOf(w)
<1>1. ASSUME NEW w \in Workers,
             \/ LoadForSignup(w) \/ LoadForInvite(w) \/ LoadForGoogle(w)
             \/ LoadForVerification(w) \/ LoadForReset(w)
             \/ LoadForResend(w) \/ LoadForForgot(w)
      PROVE  StepOf(w)
    BY <1>1, LoadsAsk, AsksOK
<1>2. ASSUME NEW w \in Workers,
             \/ LoadForLogin(w) \/ LoadForGate(w) \/ LoadForAccept(w)
             \/ PassGate(w) \/ LoadForChange(w) \/ LoadForToggle(w)
      PROVE  StepOf(w)
    BY <1>2, AsksOfUsers, AsksOK
<1>3. CASE \E w \in Workers : StepOf(w)
    BY <1>3 DEF StepOf
<1> QED BY <1>1, <1>2, <1>3, SignsInOK, ClosesOK, TimeGood DEF Next

LEMMA RequestsStep == IInv /\ Next => RequestsOK'
<1> SUFFICES ASSUME IInv, Next, NEW x \in Workers PROVE RequestOK(request[x])'
    BY DEF RequestsOK
<1>1. Good /\ \/ UNCHANGED request
              \/ \E w \in Workers : StepOf(w)
    BY Steps
<1>2. CASE request'[x] = request[x]
    BY <1>1, <1>2, OthersOK DEF Good
<1>3. CASE request'[x] # request[x]
    <2>1. PICK w \in Workers : StepOf(w)
        BY <1>1, <1>3
    <2>2. RequestOK(request[w])' /\ x = w
        BY <1>3, <2>1 DEF StepOf
    <2> QED BY <2>2
<1> QED BY <1>2, <1>3
\* Cookies are handed out by CreateSession only.
LEMMA SessionSteps ==
    ASSUME TypeOK, Next, NEW s \in Sessions
    PROVE  \/ session'[s] \in {session[s], None}
           \/ \E w \in Workers : request[w].op = "session" /\ session'[s] = request[w].email
<1>1. \/ UNCHANGED session
      \/ \E w \in Workers : CreateSession(w)
      \/ \E x \in Sessions : EndSession(x)
    BY DEF Next, LoadForSignup, LoadForInvite, LoadForGoogle, LoadForLogin,
           LoadForVerification, LoadForReset, LoadForResend, LoadForForgot, LoadForMail,
           LoadForGate, LoadForAccept, Begin, Register, CreateUser, LinkGoogle,
           ProvisionGoogle, VerifyEmail, ResetPassword, MailToken, PassGate,
           RecordAcceptance, LoadForChange, ChangePassword, LoadForToggle, SetActive,
           End, ExpireToken
<1> QED BY <1>1 DEF TypeOK, CreateSession, EndSession

LEMMA SessionsStep == IInv /\ Next => SessionsProved'
<1> SUFFICES ASSUME IInv, Next, NEW s \in Sessions, session'[s] # None
             PROVE  Proved(session[s])'
    BY DEF SessionsProved
<1>1. PICK e : e = session'[s]
    OBVIOUS
<1>2. TypeOK /\ Kept
    BY Steps DEF Good, IInv
<1>3. e \in Users /\ Proved(e)
    <2>1. CASE session'[s] = session[s]
        BY <1>1, <1>2, <2>1 DEF IInv, SessionsProved, TypeOK
    <2>2. CASE \E w \in Workers : request[w].op = "session" /\ session'[s] = request[w].email
        BY <1>1, <2>2 DEF IInv, RequestsOK, RequestOK
    <2> QED BY <1>2, <2>1, <2>2, SessionSteps
<1>4. Proved(e)'
    BY <1>2, <1>3, ProvedStays DEF IInv
<1> QED BY <1>1, <1>4

LEMMA InitInv == Init => IInv
<1> SUFFICES ASSUME Init PROVE IInv
    OBVIOUS
<1>1. Users = {}
    BY DEF Init, Users
<1>2. TypeOK
    BY <1>1 DEF Init, TypeOK
<1>3. RequestsOK
    BY DEF Init, RequestsOK, RequestOK, Idle
<1>4. UsedAreGone /\ SessionsProved /\ OwnersHaveAccepted
    BY <1>1 DEF Init, UsedAreGone, SessionsProved, OwnersHaveAccepted
<1> QED BY <1>2, <1>3, <1>4 DEF IInv

LEMMA StepInv == IInv /\ [Next]_vars => IInv'
<1> SUFFICES ASSUME IInv, [Next]_vars PROVE IInv'
    OBVIOUS
<1>1. CASE Next
    BY <1>1, Steps, RequestsStep, SessionsStep DEF Good, IInv
<1>2. CASE UNCHANGED vars
    BY <1>2 DEF vars, IInv, TypeOK, Users, RequestsOK, RequestOK, UsedAreGone,
               SessionsProved, Proved, OwnersHaveAccepted
<1> QED BY <1>1, <1>2

THEOREM Invariance == Spec => []IInv
BY InitInv, StepInv, PTL DEF Spec

\* The rows and the requests keep their types, and the acceptances, the tokens
\* and the sessions refer to accounts that exist.
THEOREM TypeCorrect == Spec => []TypeOK
BY Invariance, PTL DEF IInv

\* A token is deleted in the commit that uses it, and never comes back: none that
\* a request can find was used before.
THEOREM LiveAreUnused == Spec => []LiveTokensUnused
<1>1. IInv => LiveTokensUnused
    BY DEF IInv, UsedAreGone, LiveTokensUnused, Live, TypeOK
<1> QED BY <1>1, Invariance, PTL

\* Whichever of the sign-ups that race for an address wins, it accepts the terms in
\* the commit that makes the organization.
THEOREM OwnersAccept == Spec => []OwnersHaveAccepted
BY Invariance, PTL DEF IInv

\* Whoever is signed in has proved the address, although create_session does not
\* look at the account again.
THEOREM SessionsAreProved == Spec => []SessionsProveEmail
<1>1. IInv => SessionsProveEmail
    <2> SUFFICES ASSUME IInv, NEW e \in Emails,
                        \/ \E s \in Sessions : session[s] = e
                        \/ \E w \in Workers : request[w].op = "session"
                                            /\ request[w].email = e
                 PROVE  Proved(e)
        BY DEF SessionsProveEmail, Proved
    <2>1. e # None
        BY NoneAssumption
    <2> QED BY <2>1 DEF IInv, SessionsProved, RequestsOK, RequestOK
<1> QED BY <1>1, Invariance, PTL
----------------------------------------------------------------------------
(***************************************************************************)
(* The counts of tokens.  For the uses: a request that finds a token finds *)
(* it unused, and the uses and the requests that are about to use it never *)
(* exceed the requests that were about to at once (k).  For the live       *)
(* tokens: each was issued by a request that has since ended, and one      *)
(* about to mail another has seen all that its own worker issued before;   *)
(* so no worker has issued two of them.                                    *)
(***************************************************************************)
Spending(t) ==
    {w \in Workers : request[w].op \in {"verification", "reset"} /\ request[w].token = t}

SpendingAtOnce(k) == \A t \in Tokens : Cardinality(Spending(t)) <= k

UsedAtMost(k) == \A t \in Tokens : used[t] <= k

UseCount(k) == \A t \in Tokens : used[t] + Cardinality(Spending(t)) <= k

\* f: who issued each of the live tokens.
Issuers(f, e, p) ==
    /\ f \in [LiveTokens(e, p) -> Workers]
    /\ \A t, u \in LiveTokens(e, p) : f[t] = f[u] => t = u
    /\ \A w \in Workers :
           request[w].op = "mail" /\ request[w].email = e /\ request[w].purpose = p
               => \A t \in LiveTokens(e, p) : f[t] = w => t \in request[w].seen

IssuersDiffer == \A e \in Emails, p \in Purposes : \E f : Issuers(f, e, p)

\* The other requests stay, and that of w is not about a token.
Leaves(w) ==
    /\ request'[w].op \notin {"verification", "reset", "mail"}
    /\ \A x \in Workers \ {w} : request'[x] = request[x]

\* A request finds a token, or is about to mail one.
Finds(w, t) ==
    /\ UNCHANGED <<token, used>>
    /\ Live(t)
    /\ request'[w].op \in {"verification", "reset"} /\ request'[w].token = t
    /\ \A x \in Workers \ {w} : request'[x] = request[x]

AboutToMail(w, e, p) ==
    /\ UNCHANGED <<token, used>>
    /\ request'[w].op = "mail" /\ request'[w].email = e /\ request'[w].purpose = p
    /\ request'[w].seen = LiveTokens(e, p)
    /\ \A x \in Workers \ {w} : request'[x] = request[x]

Spends(w) == VerifyEmail(w) \/ ResetPassword(w)

LEMMA SpendsLeaves ==
    ASSUME IInv, NEW w \in Workers, Spends(w)
    PROVE  /\ Leaves(w) /\ w \in Spending(request[w].token)
           /\ request[w].token \in Tokens /\ token[request[w].token] # Unissued
           /\ Spend(request[w].token)
<1>1. Leaves(w)
    <2>1. PICK e : e = request[w].email
        OBVIOUS
    <2>2. /\ request'[w] = [op |-> "session", email |-> e]
          /\ \A x \in Workers \ {w} : request'[x] = request[x]
        BY <2>1, VerifyGood, ResetGood DEF Spends
    <2> QED BY <2>2 DEF Leaves
<1>2. request[w].op \in {"verification", "reset"} /\ Spend(request[w].token)
    BY DEF Spends, VerifyEmail, ResetPassword
<1>3. request[w].token \in Tokens
    BY <1>2, RequestTyped, KindsDiffer DEF IInv
<1>4. token[request[w].token] # Unissued
    BY <1>2 DEF IInv, RequestsOK, RequestOK
<1> QED BY <1>1, <1>2, <1>3, <1>4 DEF Spending

LEMMA TokenSteps ==
    ASSUME IInv, Next
    PROVE  \/ UNCHANGED <<token, used, request>>
           \/ \E w \in Workers : UNCHANGED <<token, used>> /\ Leaves(w)
           \/ \E w \in Workers, t \in Tokens : Finds(w, t)
           \/ \E w \in Workers, e \in Users, p \in Purposes : AboutToMail(w, e, p)
           \/ \E w \in Workers : Leaves(w) /\ (Register(w) \/ MailToken(w) \/ Spends(w))
           \/ \E t \in Tokens : ExpireToken(t)
<1>0. TypeOK BY DEF IInv
<1>1. ASSUME NEW w \in Workers,
             \/ LoadForSignup(w) \/ LoadForInvite(w) \/ LoadForGoogle(w)
             \/ LoadForLogin(w) \/ LoadForGate(w) \/ LoadForAccept(w)
      PROVE  UNCHANGED <<token, used>> /\ Leaves(w)
    BY <1>0, <1>1, RequestTyped DEF LoadForSignup, LoadForInvite, LoadForGoogle, LoadForLogin,
       LoadForGate, LoadForAccept, Begin, Leaves
<1>2. ASSUME NEW w \in Workers, PassGate(w) \/ LoadForChange(w) \/ LoadForToggle(w)
      PROVE  UNCHANGED <<token, used>> /\ Leaves(w)
    <2>1. CASE PassGate(w)
        <3>1. request[w].op = "gate" /\ request[w] \in RequestOf
            BY <1>0, <2>1, RequestTyped DEF PassGate
        <3>2. request[w] \in [op : {"session", "gate", "page", "accept"}, email : Emails]
            BY <3>1 DEF RequestOf, Requests, Idle
        <3>3. [request[w] EXCEPT !.op = "page"].op = "page"
            BY <3>2
        <3> QED BY <1>0, <2>1, <3>3, RequestTyped DEF PassGate, Leaves
    <2>2. CASE LoadForChange(w) \/ LoadForToggle(w)
        BY <1>0, <2>2, RequestTyped DEF LoadForChange, LoadForToggle, Leaves
    <2> QED BY <1>2, <2>1, <2>2
<1>3. ASSUME NEW w \in Workers, LoadForVerification(w) \/ LoadForReset(w)
      PROVE  \E t \in Tokens : Finds(w, t)
    BY <1>0, <1>3, RequestTyped DEF LoadForVerification, LoadForReset, Begin, Finds
<1>4. ASSUME NEW w \in Workers, LoadForResend(w) \/ LoadForForgot(w)
      PROVE  \E e \in Users, p \in Purposes : AboutToMail(w, e, p)
    BY <1>0, <1>4, RequestTyped DEF LoadForResend, LoadForForgot, LoadForMail, Begin,
       AboutToMail, Purposes
<1>5. ASSUME NEW w \in Workers, Close(w)
      PROVE  Leaves(w)
    BY <1>0, <1>5, CloseTyped DEF Leaves, Idle
<1>6. ASSUME NEW w \in Workers,
             \/ CreateUser(w) \/ CreateSession(w) \/ ChangePassword(w)
             \/ SetActive(w) \/ RecordAcceptance(w) \/ End(w)
      PROVE  UNCHANGED <<token, used>> /\ Leaves(w)
    BY <1>5, <1>6 DEF CreateUser, CreateSession, ChangePassword, SetActive,
       RecordAcceptance, End
<1>7. ASSUME NEW w \in Workers, LinkGoogle(w) \/ ProvisionGoogle(w)
      PROVE  UNCHANGED <<token, used>> /\ Leaves(w)
    <2>1. PICK e : e = request[w].identity.email
        OBVIOUS
    <2>2. /\ request'[w] = [op |-> "session", email |-> e]
          /\ \A x \in Workers \ {w} : request'[x] = request[x]
        BY <1>7, <2>1, LinkGood, ProvisionGood
    <2>3. UNCHANGED <<token, used>>
        BY <1>7 DEF LinkGoogle, ProvisionGoogle
    <2> QED BY <2>2, <2>3 DEF Leaves
<1>8. ASSUME NEW w \in Workers, Register(w) \/ MailToken(w)
      PROVE  Leaves(w)
    BY <1>5, <1>8 DEF Register, MailToken
<1>9. ASSUME NEW s \in Sessions, EndSession(s)
      PROVE  UNCHANGED <<token, used, request>>
    BY <1>9 DEF EndSession
<1>10. ASSUME NEW w \in Workers, Spends(w)
       PROVE  Leaves(w)
    BY <1>10, SpendsLeaves
<1>11. CASE \E s \in Sessions : EndSession(s)
    BY <1>9, <1>11
<1>12. CASE \E t \in Tokens : ExpireToken(t)
    BY <1>12
<1>13. ASSUME NEW w \in Workers,
              \/ LoadForSignup(w) \/ LoadForInvite(w) \/ LoadForGoogle(w)
              \/ LoadForLogin(w) \/ LoadForGate(w) \/ LoadForAccept(w)
              \/ PassGate(w) \/ LoadForChange(w) \/ LoadForToggle(w)
              \/ CreateUser(w) \/ CreateSession(w) \/ ChangePassword(w)
              \/ SetActive(w) \/ RecordAcceptance(w) \/ End(w)
              \/ LinkGoogle(w) \/ ProvisionGoogle(w)
       PROVE  UNCHANGED <<token, used>> /\ Leaves(w)
    BY <1>1, <1>2, <1>6, <1>7, <1>13
<1>14. \/ \E s \in Sessions : EndSession(s)
       \/ \E t \in Tokens : ExpireToken(t)
       \/ \E w \in Workers :
              \/ UNCHANGED <<token, used>> /\ Leaves(w)
              \/ LoadForVerification(w) \/ LoadForReset(w)
              \/ LoadForResend(w) \/ LoadForForgot(w)
              \/ Register(w) \/ MailToken(w) \/ Spends(w)
    BY ONLY Next, <1>13 DEF Next, Spends
<1> QED BY ONLY <1>3, <1>4, <1>8, <1>10, <1>11, <1>12, <1>14
----------------------------------------------------------------------------
(***************************************************************************)
(* Uses.                                                                   *)
(***************************************************************************)
LEMMA WorkerSets ==
    ASSUME NEW R \in SUBSET Workers
    PROVE  /\ Cardinality(R) \in Nat /\ Cardinality(Workers) \in Nat
           /\ Cardinality(R) <= Cardinality(Workers)
           /\ \A Q \in SUBSET R : Cardinality(Q) <= Cardinality(R)
           /\ \A w \in R : Cardinality(R \ {w}) = Cardinality(R) - 1
<1>1. IsFiniteSet(R)
    BY WorkersAssumption, FS_Subset
<1>2. \A Q \in SUBSET R : Cardinality(Q) <= Cardinality(R)
    BY <1>1, FS_Subset
<1>3. \A w \in R : Cardinality(R \ {w}) = Cardinality(R) - 1
    BY <1>1, FS_RemoveElement
<1> QED BY <1>1, <1>2, <1>3, WorkersAssumption, FS_Subset, FS_CardinalityType

\* From n uses and the requests S about to add to them, to m and R.
LEMMA UsesBound ==
    ASSUME NEW k \in Nat, NEW n \in Nat, NEW m \in Nat,
           NEW S \in SUBSET Workers, NEW R \in SUBSET Workers,
           n + Cardinality(S) <= k, Cardinality(R) <= k,
           \/ m = n /\ R \subseteq S
           \/ m = 0
           \/ m = n + 1 /\ \E w \in S : R \subseteq S \ {w}
    PROVE  m + Cardinality(R) <= k
<1>1. Cardinality(R) \in Nat /\ Cardinality(S) \in Nat
    BY WorkerSets
<1>2. CASE m = n /\ R \subseteq S
    <2>1. Cardinality(R) <= Cardinality(S)
        BY <1>2, WorkerSets
    <2> QED BY <1>1, <1>2, <2>1
<1>3. CASE m = 0
    BY <1>1, <1>3
<1>4. CASE m = n + 1 /\ \E w \in S : R \subseteq S \ {w}
    <2>1. PICK w \in S : R \in SUBSET (S \ {w})
        BY <1>4
    <2>2. Cardinality(S \ {w}) = Cardinality(S) - 1
        BY WorkerSets
    <2>3. S \ {w} \in SUBSET Workers
        OBVIOUS
    <2>4. Cardinality(R) <= Cardinality(S \ {w})
        BY <2>1, <2>3, WorkerSets
    <2> QED BY <1>1, <1>4, <2>2, <2>4
<1> QED BY <1>2, <1>3, <1>4

\* Who leaves is not about to use a token.
LEMMA LeavesSpending ==
    ASSUME NEW w \in Workers, Leaves(w), NEW t
    PROVE  Spending(t)' \subseteq Spending(t) \ {w}
BY DEF Leaves, Spending

LEMMA UseStep ==
    ASSUME NEW CONSTANT k \in Nat, IInv, UseCount(k), SpendingAtOnce(k)', [Next]_vars
    PROVE  UseCount(k)'
<1> SUFFICES ASSUME NEW t \in Tokens
             PROVE  used'[t] + Cardinality(Spending(t)') <= k
    BY DEF UseCount
<1>1. used[t] \in Nat /\ used'[t] \in Nat
    BY StepInv DEF IInv, TypeOK
<1>2. used[t] + Cardinality(Spending(t)) <= k /\ Cardinality(Spending(t)') <= k
    BY DEF UseCount, SpendingAtOnce
<1>3. Spending(t) \in SUBSET Workers /\ Spending(t)' \in SUBSET Workers
    BY DEF Spending
<1>4. \/ used'[t] = used[t] /\ Spending(t)' \subseteq Spending(t)
      \/ used'[t] = 0
      \/ used'[t] = used[t] + 1 /\ \E w \in Spending(t) : Spending(t)' \subseteq Spending(t) \ {w}
    <2>1. CASE UNCHANGED <<token, used, request>>
        BY <2>1 DEF Spending
    <2>2. CASE \E w \in Workers : UNCHANGED used /\ Leaves(w)
        BY <2>2, LeavesSpending
    <2>3. ASSUME NEW w \in Workers, NEW u \in Tokens, Finds(w, u)
          PROVE  <1>4
        <3>1. used'[t] = used[t]
            BY <2>3 DEF Finds
        <3>2. CASE u = t
            <4>1. used[t] = 0
                BY <1>1, <2>3, <3>2 DEF Finds, IInv, UsedAreGone, Live
            <4> QED BY <3>1, <4>1
        <3>3. CASE u # t
            BY <2>3, <3>1, <3>3 DEF Finds, Spending
        <3> QED BY <3>2, <3>3
    <2>4. ASSUME NEW w \in Workers, NEW e \in Users, NEW p \in Purposes, AboutToMail(w, e, p)
          PROVE  <1>4
        BY <2>4 DEF AboutToMail, Spending
    <2>5. ASSUME NEW w \in Workers, Leaves(w), Register(w) \/ MailToken(w)
          PROVE  <1>4
        BY <2>5, LeavesSpending DEF Register, MailToken
    <2>6. ASSUME NEW w \in Workers, Spends(w)
          PROVE  <1>4
        <3>1. PICK u : u = request[w].token
            OBVIOUS
        <3>2. /\ Leaves(w) /\ w \in Spending(u) /\ u \in Tokens /\ token[u] # Unissued
              /\ Spend(u)
            BY <2>6, <3>1, SpendsLeaves
        <3>3. Spending(t)' \subseteq Spending(t) \ {w}
            BY <3>2, LeavesSpending
        <3>4. used'[u] = used[u] + 1 /\ (t # u => used'[t] = used[t])
            BY <3>2, Spent DEF IInv
        <3> QED BY <3>2, <3>3, <3>4
    <2>7. CASE \E u \in Tokens : ExpireToken(u)
        BY <2>7 DEF ExpireToken, Spending
    <2>8. CASE UNCHANGED vars
        BY <2>1, <2>8 DEF vars
    <2> QED BY <2>1, <2>2, <2>3, <2>4, <2>5, <2>6, <2>7, <2>8, TokenSteps
<1> QED BY <1>1, <1>2, <1>3, <1>4, UsesBound
----------------------------------------------------------------------------
(***************************************************************************)
(* Live tokens.                                                            *)
(***************************************************************************)
\* They become fewer, and a request about to mail one is the one it was, or has
\* seen them all.
LEMMA IssuersShrink ==
    ASSUME NEW e, NEW p, NEW f, Issuers(f, e, p),
           LiveTokens(e, p)' \subseteq LiveTokens(e, p),
           \A x \in Workers :
               request'[x].op = "mail" /\ request'[x].email = e /\ request'[x].purpose = p
                   => request'[x] = request[x] \/ LiveTokens(e, p) \subseteq request'[x].seen
    PROVE  \E g : Issuers(g, e, p)'
<1> DEFINE g == [t \in LiveTokens(e, p)' |-> f[t]]
<1>1. g \in [LiveTokens(e, p)' -> Workers]
    BY DEF Issuers
<1>2. \A t, u \in LiveTokens(e, p)' : g[t] = g[u] => t = u
    BY DEF Issuers
<1>3. ASSUME NEW x \in Workers,
             request'[x].op = "mail", request'[x].email = e, request'[x].purpose = p,
             NEW t \in LiveTokens(e, p)', g[t] = x
      PROVE  t \in request'[x].seen
    <2>1. f[t] = x /\ t \in LiveTokens(e, p)
        BY <1>3
    <2>2. CASE request'[x] = request[x]
        BY <1>3, <2>1, <2>2 DEF Issuers
    <2>3. CASE LiveTokens(e, p) \subseteq request'[x].seen
        BY <2>1, <2>3
    <2> QED BY <1>3, <2>2, <2>3
<1> HIDE DEF g
<1>4. PICK h : h = g
    OBVIOUS
<1>5. /\ h \in [LiveTokens(e, p)' -> Workers]
      /\ \A t, u \in LiveTokens(e, p)' : h[t] = h[u] => t = u
      /\ \A x \in Workers :
             request'[x].op = "mail" /\ request'[x].email = e /\ request'[x].purpose = p
                 => \A t \in LiveTokens(e, p)' : h[t] = x => t \in request'[x].seen
    BY <1>1, <1>2, <1>3, <1>4
<1>6. Issuers(h, e, p)'
    BY <1>5 DEF Issuers
<1> QED BY <1>6

\* w issues t: it has seen what it issued before, and is about to mail no other.
LEMMA IssuersGrow ==
    ASSUME NEW e, NEW p, NEW f, Issuers(f, e, p), NEW w \in Workers, Leaves(w), NEW t,
           LiveTokens(e, p)' \subseteq LiveTokens(e, p) \cup {t},
           t \notin LiveTokens(e, p),
           \A u \in LiveTokens(e, p)' \ {t} : f[u] # w
    PROVE  \E g : Issuers(g, e, p)'
<1> DEFINE g == [u \in LiveTokens(e, p)' |-> IF u = t THEN w ELSE f[u]]
<1>1. g \in [LiveTokens(e, p)' -> Workers]
    BY DEF Issuers
<1>2. \A u, v \in LiveTokens(e, p)' : g[u] = g[v] => u = v
    BY DEF Issuers
<1>3. ASSUME NEW x \in Workers,
             request'[x].op = "mail", request'[x].email = e, request'[x].purpose = p,
             NEW u \in LiveTokens(e, p)', g[u] = x
      PROVE  u \in request'[x].seen
    <2>1. x # w /\ request'[x] = request[x]
        BY <1>3 DEF Leaves
    <2>2. u # t /\ f[u] = x /\ u \in LiveTokens(e, p)
        BY <1>3, <2>1
    <2> QED BY <1>3, <2>1, <2>2 DEF Issuers
<1> HIDE DEF g
<1>4. PICK h : h = g
    OBVIOUS
<1>5. /\ h \in [LiveTokens(e, p)' -> Workers]
      /\ \A u, v \in LiveTokens(e, p)' : h[u] = h[v] => u = v
      /\ \A x \in Workers :
             request'[x].op = "mail" /\ request'[x].email = e /\ request'[x].purpose = p
                 => \A u \in LiveTokens(e, p)' : h[u] = x => u \in request'[x].seen
    BY <1>1, <1>2, <1>3, <1>4
<1>6. Issuers(h, e, p)'
    BY <1>5 DEF Issuers
<1> QED BY <1>6

LEMMA IssueStep ==
    ASSUME IInv, Next, NEW e \in Emails, NEW p \in Purposes, NEW f, Issuers(f, e, p)
    PROVE  \E g : Issuers(g, e, p)'
<1>0. TypeOK BY DEF IInv
<1>1. ASSUME UNCHANGED token,
             \A x \in Workers : request'[x].op = "mail" => request'[x] = request[x]
      PROVE  \E g : Issuers(g, e, p)'
    <2>1. LiveTokens(e, p)' \subseteq LiveTokens(e, p)
        BY <1>1 DEF LiveTokens, Live
    <2> QED BY <1>1, <2>1, IssuersShrink
<1>2. ASSUME NEW w \in Workers, NEW d \in Users, NEW q \in Purposes, AboutToMail(w, d, q)
      PROVE  \E g : Issuers(g, e, p)'
    <2>1. LiveTokens(e, p)' \subseteq LiveTokens(e, p)
        BY <1>2 DEF AboutToMail, LiveTokens, Live
    <2>2. ASSUME NEW x \in Workers,
                 request'[x].op = "mail", request'[x].email = e, request'[x].purpose = p
          PROVE  request'[x] = request[x] \/ LiveTokens(e, p) \subseteq request'[x].seen
        BY <1>2, <2>2 DEF AboutToMail
    <2> QED BY <2>1, <2>2, IssuersShrink
<1>3. ASSUME NEW w \in Workers, Leaves(w),
             LiveTokens(e, p)' \subseteq LiveTokens(e, p)
      PROVE  \E g : Issuers(g, e, p)'
    BY <1>3, IssuersShrink DEF Leaves
<1>4. ASSUME NEW w \in Workers, Leaves(w), Register(w)
      PROVE  \E g : Issuers(g, e, p)'
    <2>1. PICK t \in Unused : token' = [token EXCEPT ![t] = Issue(request[w].email, "verification")]
        BY <1>4 DEF Register
    <2>2. t \in Tokens /\ token[t] = Unissued
        BY DEF Unused
    <2>3. token'[t] = Issue(request[w].email, "verification")
          /\ \A u \in Tokens \ {t} : token'[u] = token[u]
        BY <1>0, <2>1, <2>2 DEF TypeOK
    <2>4. t \notin LiveTokens(e, p)
        BY <2>2, RowsDiffer DEF LiveTokens, Live
    <2>5. CASE e = request[w].email
        <3>1. LiveTokens(e, p) = {}
            BY <1>0, <1>4, <2>5, TokenRows DEF Register, LiveTokens, Users
        <3>2. LiveTokens(e, p)' \subseteq {t}
            BY <2>3, <3>1 DEF LiveTokens, Live
        <3> QED BY <1>4, <2>4, <3>2, IssuersGrow
    <2>6. CASE e # request[w].email
        <3>1. LiveTokens(e, p)' \subseteq LiveTokens(e, p)
            BY <2>3, <2>6 DEF LiveTokens, Live, Issue
        <3> QED BY <1>3, <1>4, <3>1
    <2> QED BY <2>5, <2>6
<1>5. ASSUME NEW w \in Workers, Leaves(w), MailToken(w)
      PROVE  \E g : Issuers(g, e, p)'
    <2>1. PICK t \in Unused :
              /\ token'[t] = Issue(request[w].email, request[w].purpose)
              /\ \A u \in request[w].seen \ {t} :
                     token'[u] = [token[u] EXCEPT !.state = "gone"] /\ token[u] \in TokenOf
              /\ \A u \in Tokens \ {t} : u \notin request[w].seen => token'[u] = token[u]
        BY <1>5, Mailed
    <2>2. t \in Tokens /\ token[t] = Unissued
        BY DEF Unused
    <2>3. t \notin LiveTokens(e, p)
        BY <2>2, RowsDiffer DEF LiveTokens, Live
    <2>4. \A u \in LiveTokens(e, p)' \ {t} : u \in LiveTokens(e, p) /\ u \notin request[w].seen
        <3> SUFFICES ASSUME NEW u \in LiveTokens(e, p)', u # t
                     PROVE  u \in LiveTokens(e, p) /\ u \notin request[w].seen
            OBVIOUS
        <3>1. u \in Tokens /\ token'[u].state = "live" /\ token'[u].user = e /\ token'[u].purpose = p
            BY DEF LiveTokens, Live
        <3>2. u \notin request[w].seen
            <4>1. ASSUME u \in request[w].seen
                  PROVE  token'[u].state = "gone"
                <5>1. token[u] \in TokenOf /\ token'[u] = [token[u] EXCEPT !.state = "gone"]
                    BY <2>1, <4>1
                <5> QED BY <5>1, GoneRow
            <4> QED BY <3>1, <4>1
        <3> QED BY <2>1, <3>1, <3>2 DEF LiveTokens, Live
    <2>5. CASE request[w].email = e /\ request[w].purpose = p
        <3>1. \A u \in LiveTokens(e, p) : f[u] = w => u \in request[w].seen
            BY <1>5, <2>5 DEF MailToken, Issuers
        <3> QED BY <1>5, <2>3, <2>4, <3>1, IssuersGrow
    <2>6. CASE ~(request[w].email = e /\ request[w].purpose = p)
        <3>1. t \notin LiveTokens(e, p)'
            BY <2>1, <2>6 DEF LiveTokens, Live, Issue
        <3> QED BY <1>3, <1>5, <2>4, <3>1
    <2> QED BY <2>5, <2>6
<1>6. ASSUME NEW w \in Workers, Leaves(w), Spends(w)
      PROVE  \E g : Issuers(g, e, p)'
    <2>1. PICK u : u = request[w].token
        OBVIOUS
    <2>2. u \in Tokens /\ token[u] # Unissued /\ Spend(u)
        BY <1>6, <2>1, SpendsLeaves
    <2>3. \A t \in Tokens :
              Live(t)' => /\ Live(t) /\ token[t] # Unissued
                          /\ token'[t].user = token[t].user
                          /\ token'[t].purpose = token[t].purpose
        BY <1>0, <2>2, Spent, TokenRows DEF IInv
    <2>4. LiveTokens(e, p)' \subseteq LiveTokens(e, p)
        BY <2>3 DEF LiveTokens
    <2> QED BY <1>3, <1>6, <2>4
<1>7. ASSUME NEW u \in Tokens, ExpireToken(u)
      PROVE  \E g : Issuers(g, e, p)'
    <2>1. token[u] \in TokenOf /\ token' = [token EXCEPT ![u] = [token[u] EXCEPT !.state = "gone"]]
        BY <1>0, <1>7, TokenRows DEF ExpireToken
    <2>2. token'[u].state = "gone" /\ \A t \in Tokens \ {u} : token'[t] = token[t]
        BY <1>0, <2>1, GoneRow DEF TypeOK
    <2>3. LiveTokens(e, p)' \subseteq LiveTokens(e, p)
        BY <2>2 DEF LiveTokens, Live
    <2>4. UNCHANGED request
        BY <1>7 DEF ExpireToken
    <2> QED BY <2>3, <2>4, IssuersShrink
<1>8. ASSUME NEW w \in Workers, NEW t \in Tokens, Finds(w, t)
      PROVE  \E g : Issuers(g, e, p)'
    <2>1. \A x \in Workers : request'[x].op = "mail" => request'[x] = request[x]
        BY <1>8 DEF Finds
    <2> QED BY <1>1, <1>8, <2>1 DEF Finds
<1>9. ASSUME NEW w \in Workers, UNCHANGED token, Leaves(w)
      PROVE  \E g : Issuers(g, e, p)'
    <2>1. \A x \in Workers : request'[x].op = "mail" => request'[x] = request[x]
        BY <1>9 DEF Leaves
    <2> QED BY <1>1, <1>9, <2>1
<1>10. CASE UNCHANGED <<token, used, request>>
    BY <1>1, <1>10
<1> QED BY <1>2, <1>4, <1>5, <1>6, <1>7, <1>8, <1>9, <1>10, TokenSteps

LEMMA LiveStep == IInv /\ IssuersDiffer /\ [Next]_vars => IssuersDiffer'
<1> SUFFICES ASSUME IInv, IssuersDiffer, [Next]_vars, NEW e \in Emails, NEW p \in Purposes
             PROVE  \E g : Issuers(g, e, p)'
    BY DEF IssuersDiffer
<1>1. PICK f : Issuers(f, e, p)
    BY DEF IssuersDiffer
<1>2. CASE Next
    BY <1>1, <1>2, IssueStep
<1>3. CASE UNCHANGED vars
    <2>1. Issuers(f, e, p)'
        BY <1>1, <1>3 DEF vars, Issuers, LiveTokens, Live
    <2> QED BY <2>1
<1> QED BY <1>2, <1>3

----------------------------------------------------------------------------
LEMMA UseInit ==
    ASSUME NEW CONSTANT k \in Nat, Init, SpendingAtOnce(k)
    PROVE  UseCount(k)
<1> SUFFICES ASSUME NEW t \in Tokens
             PROVE  used[t] + Cardinality(Spending(t)) <= k
    BY DEF UseCount
<1>1. used[t] = 0 /\ Spending(t) \in SUBSET Workers
    BY DEF Init, Spending
<1>2. Cardinality(Spending(t)) <= k /\ Cardinality(Spending(t)) \in Nat
    BY <1>1, WorkerSets DEF SpendingAtOnce
<1> QED BY <1>1, <1>2

LEMMA LiveInit == Init => IssuersDiffer
<1> SUFFICES ASSUME Init, NEW e \in Emails, NEW p \in Purposes
             PROVE  \E f : Issuers(f, e, p)
    BY DEF IssuersDiffer
<1> DEFINE g == [t \in {} |-> t]
<1>1. LiveTokens(e, p) = {} /\ \A w \in Workers : request[w] = Idle
    BY DEF Init, LiveTokens, Live, Unissued
<1>2. g \in [{} -> Workers]
    OBVIOUS
<1> HIDE DEF g
<1>3. Issuers(g, e, p)
    BY <1>1, <1>2 DEF Issuers, Idle
<1> QED BY <1>3

LEMMA UsesCounted ==
    ASSUME NEW CONSTANT k \in Nat, IInv, UseCount(k)
    PROVE  UsedAtMost(k)
<1> SUFFICES ASSUME NEW t \in Tokens PROVE used[t] <= k
    BY DEF UsedAtMost
<1>1. used[t] \in Nat /\ used[t] + Cardinality(Spending(t)) <= k
    BY DEF UseCount, IInv, TypeOK
<1>2. Cardinality(Spending(t)) \in Nat
    <2>1. Spending(t) \in SUBSET Workers
        BY DEF Spending
    <2> QED BY <2>1, WorkerSets
<1> QED BY <1>1, <1>2

\* Two requests may find one token before either deletes it, but each of the
\* requests in progress uses it once at most.
THEOREM UsesAreFew == Spec => []FewUses
<1> DEFINE k == Cardinality(Workers)
<1>1. k \in Nat
    BY WorkersAssumption, FS_CardinalityType
<1>2. SpendingAtOnce(k)
    <2>1. \A t : Spending(t) \in SUBSET Workers
        BY DEF Spending
    <2> QED BY <2>1, WorkerSets DEF SpendingAtOnce
<1>3. SpendingAtOnce(k)'
    <2>1. \A t : Spending(t)' \in SUBSET Workers
        BY DEF Spending
    <2> QED BY <2>1, WorkerSets DEF SpendingAtOnce
<1> HIDE DEF k
<1>4. Init => UseCount(k)
    BY <1>1, <1>2, UseInit
<1>5. IInv /\ UseCount(k) /\ [Next]_vars => UseCount(k)'
    BY <1>1, <1>3, UseStep
<1>6. IInv /\ UseCount(k) => FewUses
    BY <1>1, UsesCounted DEF k, UsedAtMost, FewUses
<1> QED BY <1>4, <1>5, <1>6, Invariance, PTL DEF Spec

\* A token is used no more often than there are requests that have found it at
\* once: if no two hold the same token (k is 1), it is single-use.
THEOREM UsesAreAtMost ==
    ASSUME NEW CONSTANT k \in Nat
    PROVE  Spec /\ []SpendingAtOnce(k) => []UsedAtMost(k)
<1>1. Init /\ SpendingAtOnce(k) => UseCount(k)
    BY UseInit
<1>2. IInv /\ UseCount(k) /\ SpendingAtOnce(k)' /\ [Next]_vars => UseCount(k)'
    BY UseStep
<1>3. IInv /\ UseCount(k) => UsedAtMost(k)
    BY UsesCounted
<1> QED BY <1>1, <1>2, <1>3, Invariance, PTL DEF Spec

\* A mail withdraws the tokens that its request has seen; those it has not seen
\* were issued by other requests, one by each.
THEOREM LiveTokensAreFew == Spec => []FewLiveTokens
<1>1. IssuersDiffer => FewLiveTokens
    <2> SUFFICES ASSUME IssuersDiffer, NEW e \in Emails, NEW p \in Purposes
                 PROVE  Cardinality(LiveTokens(e, p)) <= Cardinality(Workers)
        BY DEF FewLiveTokens
    <2>1. PICK f : Issuers(f, e, p)
        BY DEF IssuersDiffer
    <2>2. f \in Injection(LiveTokens(e, p), Workers)
        BY <2>1 DEF Issuers, Injection, IsInjective
    <2> QED BY <2>2, WorkersAssumption, FS_Injection
<1> QED BY <1>1, LiveInit, LiveStep, Invariance, PTL DEF Spec

----------------------------------------------------------------------------
(***************************************************************************)
(* One mail at a time.                                                     *)
(***************************************************************************)
Mails(w, e, p) == request[w].op = "mail" /\ request[w].email = e /\ request[w].purpose = p

OneMailAtATime ==
    \A v, w \in Workers, e \in Emails, p \in Purposes :
        Mails(v, e, p) /\ Mails(w, e, p) => v = w

OneIsLive ==
    \A e \in Emails, p \in Purposes : \A t, u \in LiveTokens(e, p) : t = u

\* One is live, and a request about to mail another has seen it.
OneLive(e, p) ==
    /\ \A t, u \in LiveTokens(e, p) : t = u
    /\ \A w \in Workers : Mails(w, e, p) => LiveTokens(e, p) \subseteq request[w].seen

\* No token is added, and a request about to mail one is the one it was, or has
\* seen them all.
LEMMA OneLiveShrinks ==
    ASSUME NEW e, NEW p, OneLive(e, p), LiveTokens(e, p)' \subseteq LiveTokens(e, p),
           \A x \in Workers : Mails(x, e, p)' =>
               request'[x] = request[x] \/ LiveTokens(e, p) \subseteq request'[x].seen
    PROVE  OneLive(e, p)'
BY DEF OneLive, Mails

\* The only one that is added is alone, and no request is about to mail another.
LEMMA OneLiveStarts ==
    ASSUME NEW e, NEW p, NEW t, LiveTokens(e, p)' \subseteq {t},
           \A x \in Workers : ~Mails(x, e, p)'
    PROVE  OneLive(e, p)'
BY DEF OneLive

LEMMA OneLiveStep ==
    ASSUME IInv, OneMailAtATime, Next, NEW e \in Emails, NEW p \in Purposes, OneLive(e, p)
    PROVE  OneLive(e, p)'
<1>0. TypeOK BY DEF IInv
<1>1. ASSUME UNCHANGED token,
             \A x \in Workers : request'[x].op = "mail" => request'[x] = request[x]
      PROVE  OneLive(e, p)'
    <2>1. LiveTokens(e, p)' \subseteq LiveTokens(e, p)
        BY <1>1 DEF LiveTokens, Live
    <2> QED BY <1>1, <2>1, OneLiveShrinks DEF Mails
<1>2. ASSUME NEW w \in Workers, NEW d \in Users, NEW q \in Purposes, AboutToMail(w, d, q)
      PROVE  OneLive(e, p)'
    <2>1. LiveTokens(e, p)' \subseteq LiveTokens(e, p)
        BY <1>2 DEF AboutToMail, LiveTokens, Live
    <2>2. ASSUME NEW x \in Workers, Mails(x, e, p)'
          PROVE  request'[x] = request[x] \/ LiveTokens(e, p) \subseteq request'[x].seen
        BY <1>2, <2>2 DEF AboutToMail, Mails
    <2> QED BY <2>1, <2>2, OneLiveShrinks
<1>3. ASSUME NEW w \in Workers, Leaves(w),
             LiveTokens(e, p)' \subseteq LiveTokens(e, p)
      PROVE  OneLive(e, p)'
    BY <1>3, OneLiveShrinks DEF Leaves, Mails
<1>4. ASSUME NEW w \in Workers, Leaves(w), Register(w)
      PROVE  OneLive(e, p)'
    <2>1. PICK t \in Unused : token' = [token EXCEPT ![t] = Issue(request[w].email, "verification")]
        BY <1>4 DEF Register
    <2>2. /\ token'[t] = Issue(request[w].email, "verification")
          /\ \A u \in Tokens \ {t} : token'[u] = token[u]
        BY <1>0, <2>1 DEF TypeOK, Unused
    <2>3. CASE e = request[w].email
        <3>1. LiveTokens(e, p) = {} /\ e \notin Users
            BY <1>0, <1>4, <2>3, TokenRows DEF Register, LiveTokens, Users
        <3>2. LiveTokens(e, p)' \subseteq {t}
            BY <2>2, <3>1 DEF LiveTokens, Live
        <3>3. \A x \in Workers : ~Mails(x, e, p)'
            BY <1>4, <3>1 DEF Leaves, Mails, IInv, RequestsOK, RequestOK
        <3> QED BY <3>2, <3>3, OneLiveStarts
    <2>4. CASE e # request[w].email
        <3>1. LiveTokens(e, p)' \subseteq LiveTokens(e, p)
            BY <2>2, <2>4 DEF LiveTokens, Live, Issue
        <3> QED BY <1>3, <1>4, <3>1
    <2> QED BY <2>3, <2>4
<1>5. ASSUME NEW w \in Workers, Leaves(w), MailToken(w)
      PROVE  OneLive(e, p)'
    <2>1. PICK t \in Unused :
              /\ token'[t] = Issue(request[w].email, request[w].purpose)
              /\ \A u \in request[w].seen \ {t} :
                     token'[u] = [token[u] EXCEPT !.state = "gone"] /\ token[u] \in TokenOf
              /\ \A u \in Tokens \ {t} : u \notin request[w].seen => token'[u] = token[u]
        BY <1>5, Mailed
    <2>2. \A u \in LiveTokens(e, p)' \ {t} : u \in LiveTokens(e, p) /\ u \notin request[w].seen
        <3> SUFFICES ASSUME NEW u \in LiveTokens(e, p)', u # t
                     PROVE  u \in LiveTokens(e, p) /\ u \notin request[w].seen
            OBVIOUS
        <3>1. u \in Tokens /\ token'[u].state = "live" /\ token'[u].user = e /\ token'[u].purpose = p
            BY DEF LiveTokens, Live
        <3>2. u \notin request[w].seen
            <4>1. ASSUME u \in request[w].seen
                  PROVE  token'[u].state = "gone"
                <5>1. token[u] \in TokenOf /\ token'[u] = [token[u] EXCEPT !.state = "gone"]
                    BY <2>1, <4>1
                <5> QED BY <5>1, GoneRow
            <4> QED BY <3>1, <4>1
        <3> QED BY <2>1, <3>1, <3>2 DEF LiveTokens, Live
    <2>3. CASE Mails(w, e, p)
        <3>1. LiveTokens(e, p)' \subseteq {t}
            BY <2>2, <2>3 DEF OneLive
        <3>2. \A x \in Workers : ~Mails(x, e, p)'
            <4>1. \A x \in Workers \ {w} : ~Mails(x, e, p)
                BY <2>3 DEF OneMailAtATime
            <4> QED BY <1>5, <4>1 DEF Leaves, Mails
        <3> QED BY <3>1, <3>2, OneLiveStarts
    <2>4. CASE ~Mails(w, e, p)
        <3>1. t \notin LiveTokens(e, p)'
            BY <1>5, <2>1, <2>4 DEF MailToken, Mails, LiveTokens, Live, Issue
        <3> QED BY <1>3, <1>5, <2>2, <3>1
    <2> QED BY <2>3, <2>4
<1>6. ASSUME NEW w \in Workers, Leaves(w), Spends(w)
      PROVE  OneLive(e, p)'
    <2>1. PICK u : u = request[w].token
        OBVIOUS
    <2>2. u \in Tokens /\ token[u] # Unissued /\ Spend(u)
        BY <1>6, <2>1, SpendsLeaves
    <2>3. \A t \in Tokens :
              Live(t)' => /\ Live(t) /\ token[t] # Unissued
                          /\ token'[t].user = token[t].user
                          /\ token'[t].purpose = token[t].purpose
        BY <1>0, <2>2, Spent, TokenRows DEF IInv
    <2>4. LiveTokens(e, p)' \subseteq LiveTokens(e, p)
        BY <2>3 DEF LiveTokens
    <2> QED BY <1>3, <1>6, <2>4
<1>7. ASSUME NEW u \in Tokens, ExpireToken(u)
      PROVE  OneLive(e, p)'
    <2>1. token[u] \in TokenOf /\ token' = [token EXCEPT ![u] = [token[u] EXCEPT !.state = "gone"]]
        BY <1>0, <1>7, TokenRows DEF ExpireToken
    <2>2. token'[u].state = "gone" /\ \A t \in Tokens \ {u} : token'[t] = token[t]
        BY <1>0, <2>1, GoneRow DEF TypeOK
    <2>3. LiveTokens(e, p)' \subseteq LiveTokens(e, p)
        BY <2>2 DEF LiveTokens, Live
    <2>4. UNCHANGED request
        BY <1>7 DEF ExpireToken
    <2> QED BY <2>3, <2>4, OneLiveShrinks
<1>8. ASSUME NEW w \in Workers, NEW t \in Tokens, Finds(w, t)
      PROVE  OneLive(e, p)'
    <2>1. \A x \in Workers : request'[x].op = "mail" => request'[x] = request[x]
        BY <1>8 DEF Finds
    <2> QED BY <1>1, <1>8, <2>1 DEF Finds
<1>9. ASSUME NEW w \in Workers, UNCHANGED token, Leaves(w)
      PROVE  OneLive(e, p)'
    <2>1. \A x \in Workers : request'[x].op = "mail" => request'[x] = request[x]
        BY <1>9 DEF Leaves
    <2> QED BY <1>1, <1>9, <2>1
<1>10. CASE UNCHANGED <<token, used, request>>
    BY <1>1, <1>10
<1> QED BY <1>2, <1>4, <1>5, <1>6, <1>7, <1>8, <1>9, <1>10, TokenSteps

AllOneLive == \A e \in Emails, p \in Purposes : OneLive(e, p)

\* When the mails of one purpose to one address do not overlap, one token at
\* most opens the account: each new mail withdraws the one before it.  Mails to
\* other addresses, sign-ups and uses of tokens may overlap.
THEOREM SerialMailsLeaveOneLive == Spec /\ []OneMailAtATime => []OneIsLive
<1>1. Init => AllOneLive
    BY DEF Init, AllOneLive, OneLive, LiveTokens, Live, Unissued, Mails, Idle
<1>2. IInv /\ OneMailAtATime /\ AllOneLive /\ [Next]_vars => AllOneLive'
    <2> SUFFICES ASSUME IInv, OneMailAtATime, AllOneLive, [Next]_vars,
                        NEW e \in Emails, NEW p \in Purposes
                 PROVE  OneLive(e, p)'
        BY DEF AllOneLive
    <2>1. OneLive(e, p)
        BY DEF AllOneLive
    <2>2. CASE Next
        BY <2>1, <2>2, OneLiveStep
    <2>3. CASE UNCHANGED vars
        BY <2>1, <2>3 DEF vars, OneLive, LiveTokens, Live, Mails
    <2> QED BY <2>2, <2>3
<1>3. AllOneLive => OneIsLive
    BY DEF AllOneLive, OneLive, OneIsLive
<1> QED BY <1>1, <1>2, <1>3, Invariance, PTL DEF Spec
=============================================================================
