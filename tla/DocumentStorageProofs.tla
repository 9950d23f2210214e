----------------------- MODULE DocumentStorageProofs ------------------------
(***************************************************************************)
(* For any providers, documents, files and number of overlapping requests: *)
(* the rows have their types, every version's object is in its bucket, the *)
(* versions of a document are an append-only log, and there are never more *)
(* primaries than requests.                                                *)
(*                                                                         *)
(* The first argument rests on what never goes away: a connection's row, a *)
(* version and an object stay, and the current number of a document only   *)
(* grows.  So what a request has read may be outdated, but a number it     *)
(* computed from it is at most the next one, and the unique constraint     *)
(* leaves only that.                                                       *)
(***************************************************************************)
EXTENDS DocumentStorage, FiniteSetTheorems, SequenceTheorems, TLAPS

RequestOf ==
    {Idle} \cup ConnectOf \cup OAuthOf \cup PromoteOf \cup DisconnectOf \cup UploadOf

\* Where an upload puts its bytes.
PlaceOf(r) == <<r.primary, Key(r.document, r.number, r.file)>>

\* What stays true of a request while others commit.
RequestOK(r) ==
    /\ r.op \in {"promote", "disconnect"} => r.provider \in Connected
    /\ r.op = "oauth" /\ r.row # NoConnection => r.provider \in Connected
    /\ r.op \in {"connect", "promote"} /\ r.primary \in Buckets => r.primary \in Connected
    /\ r.op = "upload" => r.number <= document[r.document].current + 1
    /\ r.op = "upload" /\ r.stored => r.primary \in Buckets /\ object[PlaceOf(r)] # None

RequestsOK == \A w \in Workers : RequestOK(request[w])

\* The numbers of a document's versions are 1..current, each taken once.
Numbered ==
    \A d \in Documents :
        /\ \A v \in document[d].versions : v.no <= document[d].current
        /\ \A n \in 1..document[d].current : \E v \in document[d].versions : v.no = n
        /\ \A u, v \in document[d].versions : u.no = v.no => u = v

IInv ==
    /\ TypeOK
    /\ RequestsOK
    /\ Numbered
    /\ EveryVersionStored

----------------------------------------------------------------------------
(***************************************************************************)
(* The kinds of request differ in op.                                      *)
(***************************************************************************)
LEMMA KindsDiffer ==
    ASSUME NEW r \in RequestOf
    PROVE  /\ r.op = "connect" => r \in ConnectOf
           /\ r.op = "oauth" => r \in OAuthOf
           /\ r.op = "promote" => r \in PromoteOf
           /\ r.op = "disconnect" => r \in DisconnectOf
           /\ r.op = "upload" => r \in UploadOf
           /\ r.op = "none" <=> r = Idle
           /\ r.op \in {"none", "connect", "oauth", "promote", "disconnect", "upload"}
<1>1. CASE r = Idle BY <1>1 DEF Idle
<1>2. CASE r \in ConnectOf BY <1>2 DEF ConnectOf, Idle
<1>3. CASE r \in OAuthOf BY <1>3 DEF OAuthOf, Idle
<1>4. CASE r \in PromoteOf BY <1>4 DEF PromoteOf, Idle
<1>5. CASE r \in DisconnectOf BY <1>5 DEF DisconnectOf, Idle
<1>6. CASE r \in UploadOf BY <1>6 DEF UploadOf, Idle
<1> QED BY <1>1, <1>2, <1>3, <1>4, <1>5, <1>6 DEF RequestOf

\* A row and no row differ in their fields.
LEMMA RowsDiffer ==
    /\ NoConnection \notin ConnectionOf
    /\ \A c \in ConnectionOf :
           /\ c.primary \in BOOLEAN
           /\ [c EXCEPT !.primary = FALSE] \in ConnectionOf
           /\ [c EXCEPT !.primary = TRUE] \in ConnectionOf
           /\ [c EXCEPT !.status = "connected"] \in ConnectionOf
BY DEF NoConnection, ConnectionOf

LEMMA RequestTyped ==
    ASSUME TypeOK
    PROVE  request \in [Workers -> RequestOf]
BY DEF TypeOK, RequestOf

LEMMA ConnectedRows ==
    ASSUME TypeOK
    PROVE  /\ Connected \subseteq Providers
           /\ Primaries \subseteq Connected
           /\ Primaries \subseteq Buckets
           /\ \A p \in Connected : connection[p] \in ConnectionOf
           /\ \A p \in Providers \ Connected : connection[p] = NoConnection
BY RowsDiffer DEF TypeOK, Connected, Primaries, Providers

----------------------------------------------------------------------------
(***************************************************************************)
(* Types.                                                                  *)
(***************************************************************************)
LEMMA InitTyped ==
    ASSUME Init
    PROVE  TypeOK
<1>1. connection \in [Providers -> ConnectionOf \cup {NoConnection}]
    BY DEF Init
<1>2. document \in [Documents -> DocumentOf]
    BY BoundsAssumption DEF Init, DocumentOf
<1>3. object \in [Buckets \X KeyOf -> BytesOf \cup {None}]
    BY DEF Init
<1>4. request \in [Workers -> RequestOf]
    BY DEF Init, RequestOf
<1>5. \A p \in Drives : connection[p] = NoConnection
    BY DEF Init, Providers
<1> QED BY <1>1, <1>2, <1>3, <1>4, <1>5 DEF TypeOK, RequestOf

\* The tables keep their types when only the request of w changes.
LEMMA RequestChanges ==
    ASSUME TypeOK, NEW w \in Workers, NEW r \in RequestOf,
           request' = [request EXCEPT ![w] = r],
           UNCHANGED <<connection, document, object>>
    PROVE  TypeOK'
<1>1. request' \in [Workers -> RequestOf]
    BY RequestTyped
<1> QED BY <1>1 DEF TypeOK, RequestOf

LEMMA CloseTyped ==
    ASSUME TypeOK, NEW w \in Workers, Close(w)
    PROVE  request' \in [Workers -> RequestOf]
BY RequestTyped DEF Close, RequestOf

LEMMA LoadsTyped ==
    ASSUME TypeOK, NEW w \in Workers,
           \/ LoadForConnect(w) \/ LoadForOAuth(w) \/ LoadForPromote(w)
           \/ LoadForDisconnect(w) \/ LoadForUpload(w) \/ LoadForImport(w)
    PROVE  TypeOK'
<1>1. CASE LoadForConnect(w)
    <2>1. PICK p \in Providers :
              Begin(w, [op |-> "connect", provider |-> p, exists |-> p \in Connected,
                        primary |-> Unread])
        BY <1>1 DEF LoadForConnect
    <2>2. [op |-> "connect", provider |-> p, exists |-> p \in Connected,
           primary |-> Unread] \in RequestOf
        BY DEF RequestOf, ConnectOf, PrimaryRead
    <2> QED BY <2>1, <2>2, RequestChanges DEF Begin
<1>2. CASE LoadForOAuth(w)
    <2>1. PICK p \in Drives : Begin(w, [op |-> "oauth", provider |-> p, row |-> connection[p]])
        BY <1>2 DEF LoadForOAuth
    <2>2. [op |-> "oauth", provider |-> p, row |-> connection[p]] \in RequestOf
        BY DEF RequestOf, OAuthOf, TypeOK, Providers
    <2> QED BY <2>1, <2>2, RequestChanges DEF Begin
<1>3. CASE LoadForPromote(w)
    <2>1. PICK p \in Connected :
              Begin(w, [op |-> "promote", provider |-> p, row |-> connection[p],
                        primary |-> Unread])
        BY <1>3 DEF LoadForPromote
    <2>2. [op |-> "promote", provider |-> p, row |-> connection[p],
           primary |-> Unread] \in RequestOf
        BY ConnectedRows DEF RequestOf, PromoteOf, PrimaryRead
    <2> QED BY <2>1, <2>2, RequestChanges DEF Begin
<1>4. CASE LoadForDisconnect(w)
    <2>1. PICK p \in Connected :
              Begin(w, [op |-> "disconnect", provider |-> p, row |-> connection[p]])
        BY <1>4 DEF LoadForDisconnect
    <2>2. [op |-> "disconnect", provider |-> p, row |-> connection[p]] \in RequestOf
        BY ConnectedRows DEF RequestOf, DisconnectOf
    <2> QED BY <2>1, <2>2, RequestChanges DEF Begin
<1>5. CASE LoadForUpload(w)
    <2>1. PICK d \in Documents, f \in Files :
              /\ document[d].current < MaxVersions
              /\ Begin(w, [op |-> "upload", document |-> d, file |-> f,
                           number |-> document[d].current + 1,
                           primary |-> Unread, stored |-> FALSE])
        BY <1>5 DEF LoadForUpload
    <2>2. document[d].current + 1 \in 1..MaxVersions
        BY <2>1, BoundsAssumption DEF TypeOK, DocumentOf
    <2>3. [op |-> "upload", document |-> d, file |-> f,
           number |-> document[d].current + 1,
           primary |-> Unread, stored |-> FALSE] \in RequestOf
        BY <2>2 DEF RequestOf, UploadOf, PrimaryRead
    <2> QED BY <2>1, <2>3, RequestChanges DEF Begin
<1> QED BY <1>1, <1>2, <1>3, <1>4, <1>5 DEF LoadForImport

\* In words of its own, what ReadPrimary does to the request.
LEMMA ReadsPrimary ==
    ASSUME TypeOK, NEW w \in Workers, ReadPrimary(w)
    PROVE  \E p \in Buckets \cup {None} :
               /\ request' = [request EXCEPT ![w] = [request[w] EXCEPT !.primary = p]]
               /\ [request[w] EXCEPT !.primary = p] \in RequestOf
               /\ Primaries = {p} \ {None}
<1>1. PICK p \in Buckets \cup {None} :
          /\ request' = [request EXCEPT ![w].primary = p]
          /\ Primaries = {p} \ {None}
    <2>1. CASE Primaries = {} BY <2>1 DEF ReadPrimary
    <2>2. CASE \E p \in Providers :
                   Primaries = {p} /\ request' = [request EXCEPT ![w].primary = p]
        BY <2>2, ConnectedRows, ProvidersAssumption
    <2> QED BY <2>1, <2>2 DEF ReadPrimary
<1>2. request[w].op \in {"connect", "promote", "upload"} /\ request[w] \in RequestOf
    BY RequestTyped DEF ReadPrimary, WantsPrimary
<1>3. CASE request[w].op = "connect"
    <2>1. [request[w] EXCEPT !.primary = p] \in ConnectOf
        BY <1>2, <1>3, KindsDiffer DEF ConnectOf, PrimaryRead
    <2> QED BY <1>1, <2>1, RequestTyped DEF RequestOf
<1>4. CASE request[w].op = "promote"
    <2>1. [request[w] EXCEPT !.primary = p] \in PromoteOf
        BY <1>2, <1>4, KindsDiffer DEF PromoteOf, PrimaryRead
    <2> QED BY <1>1, <2>1, RequestTyped DEF RequestOf
<1>5. CASE request[w].op = "upload"
    <2>1. [request[w] EXCEPT !.primary = p] \in UploadOf
        BY <1>2, <1>5, KindsDiffer DEF UploadOf, PrimaryRead
    <2> QED BY <1>1, <2>1, RequestTyped DEF RequestOf
<1> QED BY <1>2, <1>3, <1>4, <1>5

LEMMA PutTyped ==
    ASSUME TypeOK, NEW w \in Workers, Put(w)
    PROVE  /\ TypeOK'
           /\ request[w] \in UploadOf
           /\ PlaceOf(request[w]) \in Buckets \X KeyOf
           /\ request[w].file \in Files
<1>1. request[w] \in UploadOf
    BY RequestTyped, KindsDiffer DEF Put
<1>2. PlaceOf(request[w]) \in Buckets \X KeyOf /\ request[w].file \in Files
    BY <1>1 DEF Put, UploadOf, PlaceOf, Key, KeyOf
<1>3. object' \in [Buckets \X KeyOf -> BytesOf \cup {None}]
    BY <1>2 DEF Put, TypeOK, BytesOf, PlaceOf
<1>4. [request[w] EXCEPT !.stored = TRUE] \in UploadOf
    BY <1>1 DEF UploadOf
<1>5. request' = [request EXCEPT ![w] = [request[w] EXCEPT !.stored = TRUE]]
    BY DEF Put
<1>6. request' \in [Workers -> RequestOf]
    BY <1>4, <1>5, RequestTyped DEF RequestOf
<1> QED BY <1>1, <1>2, <1>3, <1>6 DEF Put, TypeOK, RequestOf

LEMMA CommitUploadTyped ==
    ASSUME TypeOK, NEW w \in Workers, CommitUpload(w), request[w].primary \in Buckets
    PROVE  /\ TypeOK'
           /\ request[w] \in UploadOf
           /\ Version(request[w]) \in VersionOf
<1>1. request[w] \in UploadOf
    BY RequestTyped, KindsDiffer DEF CommitUpload
<1>2. Version(request[w]) \in VersionOf
    BY <1>1 DEF UploadOf, Version, VersionOf
<1>3. request[w].document \in Documents /\ request[w].number \in 0..MaxVersions
    BY <1>1, BoundsAssumption DEF UploadOf
<1>4. document' \in [Documents -> DocumentOf]
    BY <1>2, <1>3 DEF CommitUpload, TypeOK, DocumentOf
<1>5. request' \in [Workers -> RequestOf]
    BY CloseTyped DEF CommitUpload
<1> QED BY <1>1, <1>2, <1>4, <1>5 DEF CommitUpload, TypeOK, RequestOf

\* What _promote leaves of the rows.
LEMMA PromotedRows ==
    ASSUME TypeOK, NEW r, r.provider \in Buckets, NEW row \in ConnectionOf
    PROVE  /\ Promoted(r, row) \in [Providers -> ConnectionOf \cup {NoConnection}]
           /\ Promoted(r, row)[r.provider] = row
           /\ \A p \in Drives : Promoted(r, row)[p] # NoConnection
                                  => ~Promoted(r, row)[p].primary
           /\ \A p \in Connected : Promoted(r, row)[p] # NoConnection
           /\ \A p \in Providers \ {r.provider} :
                  /\ Promoted(r, row)[p] # NoConnection => connection[p] # NoConnection
                  /\ p = r.primary /\ p \in Connected => ~Promoted(r, row)[p].primary
                  /\ p # r.primary => Promoted(r, row)[p] = connection[p]
<1>0. ASSUME NEW c \in {NoConnection}
      PROVE  [c EXCEPT !.primary = FALSE] = NoConnection
    BY DEF NoConnection
<1>1. ASSUME NEW p \in Providers
      PROVE  /\ Promoted(r, row)[p] \in ConnectionOf \cup {NoConnection}
             /\ p \in Connected => Promoted(r, row)[p] # NoConnection
             /\ p # r.provider /\ p = r.primary /\ p \in Connected
                    => ~Promoted(r, row)[p].primary
             /\ p # r.provider /\ p # r.primary => Promoted(r, row)[p] = connection[p]
             /\ p # r.provider /\ Promoted(r, row)[p] # NoConnection
                    => connection[p] # NoConnection
    <2>1. CASE p = r.provider
        BY <2>1, RowsDiffer DEF Promoted
    <2>2. CASE p # r.provider /\ p # r.primary
        BY <2>2, ConnectedRows, RowsDiffer DEF Promoted
    <2>3. CASE p # r.provider /\ p = r.primary /\ p \in Connected
        <3>1. Promoted(r, row)[p] = [connection[p] EXCEPT !.primary = FALSE]
            BY <2>3 DEF Promoted
        <3>2. connection[p] \in ConnectionOf
            BY <2>3, ConnectedRows
        <3>3. PICK c : c = [connection[p] EXCEPT !.primary = FALSE]
            OBVIOUS
        <3>4. c \in ConnectionOf /\ ~c.primary /\ c # NoConnection
            <4>1. c \in ConnectionOf /\ c # NoConnection
                BY <3>2, <3>3, RowsDiffer
            <4>2. ~c.primary
                BY <3>2, <3>3 DEF ConnectionOf
            <4> QED BY <4>1, <4>2
        <3>5. connection[p] # NoConnection
            BY <3>2, RowsDiffer
        <3> QED BY <2>3, <3>1, <3>3, <3>4, <3>5
    <2>4. CASE p # r.provider /\ p = r.primary /\ p \notin Connected
        <3>1. Promoted(r, row)[p] = [connection[p] EXCEPT !.primary = FALSE]
            BY <2>4 DEF Promoted
        <3>2. connection[p] = NoConnection
            BY <2>4, ConnectedRows
        <3> QED BY <2>4, <3>1, <3>2, <1>0
    <2> QED BY <2>1, <2>2, <2>3, <2>4
<1>2. Promoted(r, row) \in [Providers -> ConnectionOf \cup {NoConnection}]
    BY <1>1 DEF Promoted
<1>3. Promoted(r, row)[r.provider] = row
    BY DEF Promoted, Providers
<1>4. ASSUME NEW p \in Drives, Promoted(r, row)[p] # NoConnection
      PROVE  ~Promoted(r, row)[p].primary
    <2>1. p \in Providers /\ p # r.provider
        BY ProvidersAssumption DEF Providers
    <2>2. connection[p] # NoConnection /\ ~connection[p].primary /\ p \in Connected
        BY <2>1, <1>1, <1>4 DEF TypeOK, Connected
    <2> QED BY <2>1, <2>2, <1>1
<1> QED BY <1>1, <1>2, <1>3, <1>4, ConnectedRows

\* The row that a promotion leaves.
PromotedRow(r) ==
    IF r.op = "connect" THEN [status |-> "connected", primary |-> TRUE]
    ELSE IF r.row.primary THEN connection[r.provider]
    ELSE [connection[r.provider] EXCEPT !.primary = TRUE]

\* CommitConnect and CommitPromote have one effect.
Promotes(w) == CommitConnect(w) \/ CommitPromote(w)

LEMMA PromotesRow ==
    ASSUME TypeOK, RequestsOK, NEW w \in Workers, Promotes(w)
    PROVE  /\ request[w].op \in {"connect", "promote"}
           /\ request[w].provider \in Buckets
           /\ request[w].primary \in Buckets \cup {None}
           /\ PromotedRow(request[w]) \in ConnectionOf
           /\ connection' = Promoted(request[w], PromotedRow(request[w]))
           /\ Close(w) /\ UNCHANGED <<document, object>>
<1>1. CASE CommitConnect(w)
    <2>1. request[w].op = "connect" /\ CanBePrimary(request[w])
        BY <1>1 DEF CommitConnect, MayConnect
    <2>2. request[w] \in ConnectOf
        BY <2>1, RequestTyped, KindsDiffer
    <2>3. [status |-> "connected", primary |-> TRUE] \in ConnectionOf
        BY DEF ConnectionOf
    <2> QED BY <1>1, <2>1, <2>2, <2>3
            DEF CommitConnect, CanBePrimary, ConnectOf, PrimaryRead, PromotedRow
<1>2. CASE CommitPromote(w)
    <2>1. request[w].op = "promote" /\ CanBePrimary(request[w])
        BY <1>2 DEF CommitPromote
    <2>2. request[w] \in PromoteOf
        BY <2>1, RequestTyped, KindsDiffer
    <2>3. connection[request[w].provider] \in ConnectionOf
        BY <2>1, ConnectedRows DEF RequestsOK, RequestOK
    <2>4. PromotedRow(request[w]) \in ConnectionOf
        BY <2>1, <2>3, RowsDiffer DEF PromotedRow
    <2>5. connection' = Promoted(request[w], PromotedRow(request[w]))
        BY <1>2, <2>1 DEF CommitPromote, PromotedRow
    <2> QED BY <1>2, <2>1, <2>2, <2>4, <2>5
            DEF CommitPromote, CanBePrimary, PromoteOf, PrimaryRead
<1> QED BY <1>1, <1>2 DEF Promotes

LEMMA PromotesTyped ==
    ASSUME TypeOK, RequestsOK, NEW w \in Workers, Promotes(w)
    PROVE  TypeOK' /\ Connected \subseteq Connected'
<1> DEFINE r == request[w]
           new == Promoted(r, PromotedRow(r))
<1>1. /\ r.provider \in Buckets /\ PromotedRow(r) \in ConnectionOf
      /\ connection' = new /\ Close(w) /\ UNCHANGED <<document, object>>
    BY PromotesRow
<1>2. /\ new \in [Providers -> ConnectionOf \cup {NoConnection}]
      /\ \A p \in Drives : new[p] # NoConnection => ~new[p].primary
      /\ \A p \in Connected : new[p] # NoConnection
    BY <1>1, PromotedRows
<1>3. request' \in [Workers -> RequestOf]
    BY <1>1, CloseTyped
<1>4. Connected \subseteq Connected'
    BY <1>1, <1>2, ConnectedRows DEF Connected
<1> HIDE DEF new, r
<1> QED BY <1>1, <1>2, <1>3, <1>4 DEF TypeOK, RequestOf

\* Their primary flags included, for FewPrimaries below.
LEMMA OAuthTyped ==
    ASSUME TypeOK, RequestsOK, NEW w \in Workers, CommitOAuth(w)
    PROVE  TypeOK' /\ Connected \subseteq Connected' /\ Primaries' = Primaries
<1> DEFINE r == request[w]
           q == r.provider
<1>1. r.op = "oauth" /\ r \in OAuthOf
    BY RequestTyped, KindsDiffer DEF CommitOAuth
<1>2. q \in Drives /\ q \in Providers
    BY <1>1 DEF OAuthOf, Providers
<1>3. PICK c \in ConnectionOf :
          /\ connection' = [connection EXCEPT ![q] = c]
          /\ ~c.primary
    <2>1. CASE r.row = NoConnection /\ q \notin Connected
        <3>1. [status |-> "connected", primary |-> FALSE] \in ConnectionOf
            BY DEF ConnectionOf
        <3> QED BY <2>1, <3>1 DEF CommitOAuth
    <2>2. CASE r.row # NoConnection
        <3>1. connection[q] \in ConnectionOf /\ ~connection[q].primary
            BY <1>1, <1>2, <2>2, ConnectedRows, RowsDiffer DEF RequestsOK, RequestOK, TypeOK
        <3>2. [connection[q] EXCEPT !.status = "connected"] \in ConnectionOf
            BY <3>1 DEF ConnectionOf
        <3>3. ~[connection[q] EXCEPT !.status = "connected"].primary
            BY <3>1 DEF ConnectionOf
        <3>4. connection' = [connection EXCEPT ![q] =
                  IF r.row.status = "connected" THEN connection[q]
                  ELSE [connection[q] EXCEPT !.status = "connected"]]
            <4>1. CASE r.row.status = "connected"
                <5>1. connection[q] = [connection[q] EXCEPT !.status = connection[q].status]
                    BY <3>1 DEF ConnectionOf
                <5> QED BY <2>2, <4>1, <5>1 DEF CommitOAuth
            <4>2. CASE r.row.status # "connected"
                BY <2>2, <4>2 DEF CommitOAuth
            <4> QED BY <4>1, <4>2
        <3> QED BY <3>1, <3>2, <3>3, <3>4
    <2> QED BY <2>1, <2>2 DEF CommitOAuth
<1>4. connection' \in [Providers -> ConnectionOf \cup {NoConnection}]
    BY <1>3 DEF TypeOK
<1>5. Connected \subseteq Connected' /\ Primaries' = Primaries
    BY <1>2, <1>3, RowsDiffer DEF Connected, Primaries, TypeOK
<1>6. request' \in [Workers -> RequestOf] /\ UNCHANGED <<document, object>>
    BY CloseTyped DEF CommitOAuth
<1>7. \A p \in Drives : connection'[p] # NoConnection => ~connection'[p].primary
    BY <1>2, <1>3 DEF TypeOK, Providers
<1> QED BY <1>4, <1>5, <1>6, <1>7 DEF TypeOK, RequestOf

LEMMA DisconnectTyped ==
    ASSUME TypeOK, RequestsOK, NEW w \in Workers, CommitDisconnect(w)
    PROVE  /\ TypeOK' /\ Connected \subseteq Connected'
           /\ request[w].provider \in Providers
           /\ Primaries' \subseteq Primaries
           /\ Primaries \ {request[w].provider} \subseteq Primaries'
<1> DEFINE r == request[w]
           q == r.provider
           c == [status |-> IF r.row.status = "disconnected"
                               THEN connection[q].status ELSE "disconnected",
                 primary |-> IF r.row.primary THEN FALSE ELSE connection[q].primary]
<1>1. r.op = "disconnect" /\ r \in DisconnectOf
    BY RequestTyped, KindsDiffer DEF CommitDisconnect
<1>2. q \in Connected /\ q \in Providers /\ connection[q] \in ConnectionOf
    BY <1>1, ConnectedRows DEF RequestsOK, RequestOK
<1>3. c \in ConnectionOf /\ (c.primary => connection[q].primary)
    BY <1>2 DEF ConnectionOf
<1>4. connection' = [connection EXCEPT ![q] = c]
    BY DEF CommitDisconnect
<1> HIDE DEF c
<1>5. connection' \in [Providers -> ConnectionOf \cup {NoConnection}]
    BY <1>3, <1>4 DEF TypeOK
<1>6. Connected' = Connected
    BY <1>2, <1>3, <1>4, RowsDiffer DEF Connected, TypeOK
<1>7. Primaries' \subseteq Primaries /\ Primaries \ {q} \subseteq Primaries'
    BY <1>2, <1>3, <1>4, <1>6 DEF Primaries, TypeOK, Connected
<1>8. request' \in [Workers -> RequestOf] /\ UNCHANGED <<document, object>>
    BY CloseTyped DEF CommitDisconnect
<1>9. \A p \in Drives : connection'[p] # NoConnection => ~connection'[p].primary
    BY <1>2, <1>3, <1>4, RowsDiffer, ConnectedRows DEF TypeOK, Providers
<1> QED BY <1>2, <1>5, <1>6, <1>7, <1>8, <1>9 DEF TypeOK, RequestOf

----------------------------------------------------------------------------
(***************************************************************************)
(* What no step takes away.                                                *)
(***************************************************************************)
Kept ==
    /\ Connected \subseteq Connected'
    /\ \A d \in Documents :
           /\ document[d].versions \subseteq document'[d].versions
           /\ document[d].current <= document'[d].current
           /\ document'[d].current \in Nat
    /\ \A k \in Buckets \X KeyOf : object[k] # None => object'[k] # None

LEMMA DocumentTyped ==
    ASSUME TypeOK, NEW d \in Documents
    PROVE  /\ document[d].current \in Nat /\ document[d].current <= MaxVersions
           /\ document[d].versions \subseteq VersionOf
BY BoundsAssumption DEF TypeOK, DocumentOf

LEMMA TablesKept ==
    ASSUME TypeOK, Connected \subseteq Connected', UNCHANGED <<document, object>>
    PROVE  Kept
BY DocumentTyped DEF Kept

\* The number that a version is committed under is the next one.
LEMMA NextNumber ==
    ASSUME IInv, NEW w \in Workers, CommitUpload(w)
    PROVE  /\ request[w] \in UploadOf /\ request[w].document \in Documents
           /\ request[w].primary \in Buckets /\ object[PlaceOf(request[w])] # None
           /\ request[w].number = document[request[w].document].current + 1
<1> DEFINE r == request[w]
           d == r.document
<1>1. r \in UploadOf /\ r.op = "upload" /\ r.stored
    BY RequestTyped, KindsDiffer DEF CommitUpload, IInv
<1>2. d \in Documents /\ r.number \in Nat /\ r.number >= 1
    BY <1>1, BoundsAssumption DEF UploadOf
<1>3. /\ r.number <= document[d].current + 1
      /\ r.primary \in Buckets /\ object[PlaceOf(r)] # None
    BY <1>1 DEF IInv, RequestsOK, RequestOK
<1>4. \A v \in document[d].versions : v.no # r.number
    BY DEF CommitUpload, NumberTaken
<1>5. document[d].current \in Nat
    BY <1>2, DocumentTyped DEF IInv
<1>6. ~(r.number <= document[d].current)
    <2>1. SUFFICES ASSUME r.number <= document[d].current PROVE FALSE
        OBVIOUS
    <2>2. r.number \in 1..document[d].current
        BY <2>1, <1>2, <1>5
    <2> QED BY <2>2, <1>2, <1>4 DEF IInv, Numbered
<1> QED BY <1>1, <1>2, <1>3, <1>5, <1>6

\* An idle request, or one that was just closed, has nothing to keep.
LEMMA IdleOK == RequestOK(Idle)
BY DEF RequestOK, Idle

LEMMA IdleOKNext == RequestOK(Idle)'
BY DEF RequestOK, Idle

LEMMA OthersOK ==
    ASSUME IInv, Kept, NEW w \in Workers, request'[w] = request[w]
    PROVE  RequestOK(request[w])'
<1> DEFINE r == request[w]
<1>1. RequestOK(r) /\ r \in RequestOf
    BY RequestTyped DEF IInv, RequestsOK
<1>2. r.op = "upload" => /\ r.number <= document'[r.document].current + 1
                         /\ r.stored => object'[PlaceOf(r)] # None
    <2>1. SUFFICES ASSUME r.op = "upload"
                   PROVE  /\ r.number <= document'[r.document].current + 1
                          /\ r.stored => object'[PlaceOf(r)] # None
        OBVIOUS
    <2>2. r \in UploadOf
        BY <2>1, <1>1, KindsDiffer
    <2>3. r.document \in Documents /\ r.number \in Nat
        BY <2>2, BoundsAssumption DEF UploadOf
    <2>4. document[r.document].current \in Nat
        BY <2>3, DocumentTyped DEF IInv
    <2>5. r.primary \in Buckets => PlaceOf(r) \in Buckets \X KeyOf
        BY <2>2 DEF UploadOf, PlaceOf, Key, KeyOf
    <2>6. r.number <= document[r.document].current + 1
        BY <2>1, <1>1 DEF RequestOK
    <2>7. /\ document[r.document].current <= document'[r.document].current
          /\ document'[r.document].current \in Nat
        BY <2>3 DEF Kept
    <2>8. r.number <= document'[r.document].current + 1
        BY <2>3, <2>4, <2>6, <2>7
    <2> QED BY <2>1, <2>5, <2>7, <2>8, <1>1 DEF RequestOK, Kept
<1> QED BY <1>1, <1>2 DEF RequestOK, Kept, PlaceOf, Key

LEMMA StepKept ==
    ASSUME IInv, Next
    PROVE  TypeOK' /\ Kept
<1>0. TypeOK /\ RequestsOK
    BY DEF IInv
<1>1. PICK w \in Workers :
          \/ \/ LoadForConnect(w) \/ LoadForOAuth(w) \/ LoadForPromote(w)
             \/ LoadForDisconnect(w) \/ LoadForUpload(w) \/ LoadForImport(w)
          \/ ReadPrimary(w)
          \/ Promotes(w) \/ CommitOAuth(w)
          \/ CommitDisconnect(w) \/ Put(w) \/ CommitUpload(w)
          \/ Refuse(w) \/ Abandon(w)
    BY DEF Next, Promotes
<1>2. UNCHANGED <<connection, document, object>> => Kept
    BY <1>0, TablesKept DEF Connected
<1>3. CASE \/ LoadForConnect(w) \/ LoadForOAuth(w) \/ LoadForPromote(w)
           \/ LoadForDisconnect(w) \/ LoadForUpload(w) \/ LoadForImport(w)
    <2>1. UNCHANGED <<connection, document, object>>
        BY <1>3 DEF LoadForConnect, LoadForOAuth, LoadForPromote, LoadForDisconnect,
                    LoadForUpload, LoadForImport, Begin
    <2> QED BY <1>0, <1>2, <1>3, <2>1, LoadsTyped
<1>4. CASE ReadPrimary(w)
    <2>1. UNCHANGED <<connection, document, object>>
        BY <1>4 DEF ReadPrimary
    <2> QED BY <1>0, <1>2, <1>4, <2>1, ReadsPrimary, RequestChanges
<1>5. CASE Promotes(w)
    <2>1. UNCHANGED <<document, object>>
        BY <1>0, <1>5, PromotesRow
    <2> QED BY <1>0, <1>5, <2>1, PromotesTyped, TablesKept
<1>6. CASE CommitOAuth(w)
    <2>1. UNCHANGED <<document, object>>
        BY <1>6 DEF CommitOAuth
    <2> QED BY <1>0, <1>6, <2>1, OAuthTyped, TablesKept
<1>7. CASE CommitDisconnect(w)
    <2>1. UNCHANGED <<document, object>>
        BY <1>7 DEF CommitDisconnect
    <2> QED BY <1>0, <1>7, <2>1, DisconnectTyped, TablesKept
<1>8. CASE Put(w)
    <2>1. TypeOK' /\ PlaceOf(request[w]) \in Buckets \X KeyOf /\ request[w].file \in Files
        BY <1>0, <1>8, PutTyped
    <2>2. object' = [object EXCEPT ![PlaceOf(request[w])] = request[w].file.bytes]
        BY <1>8 DEF Put, PlaceOf
    <2>3. \A k \in Buckets \X KeyOf : object[k] # None => object'[k] # None
        BY <1>0, <2>1, <2>2, NoneAssumption DEF TypeOK
    <2>4. UNCHANGED <<connection, document>>
        BY <1>8 DEF Put
    <2> QED BY <1>0, <2>1, <2>3, <2>4, DocumentTyped DEF Kept, Connected
<1>9. CASE CommitUpload(w)
    <2> DEFINE r == request[w]
    <2>1. /\ r \in UploadOf /\ r.document \in Documents /\ r.primary \in Buckets
          /\ r.number = document[r.document].current + 1
        BY <1>9, NextNumber
    <2>2. TypeOK'
        BY <1>0, <1>9, <2>1, CommitUploadTyped
    <2>3. document' = [document EXCEPT ![r.document] =
              [current |-> r.number,
               versions |-> document[r.document].versions \cup {Version(r)}]]
        BY <1>9 DEF CommitUpload
    <2>4. ASSUME NEW d \in Documents
          PROVE  /\ document[d].versions \subseteq document'[d].versions
                 /\ document[d].current <= document'[d].current
                 /\ document'[d].current \in Nat
        <3>1. document[d].current \in Nat
            BY <1>0, DocumentTyped
        <3>2. CASE d = r.document
            BY <1>0, <2>1, <2>3, <3>1, <3>2 DEF TypeOK
        <3>3. CASE d # r.document
            BY <1>0, <2>3, <3>1, <3>3 DEF TypeOK
        <3> QED BY <3>2, <3>3
    <2>5. UNCHANGED <<connection, object>>
        BY <1>9 DEF CommitUpload
    <2> QED BY <2>2, <2>4, <2>5 DEF Kept, Connected
<1>10. CASE Refuse(w) \/ Abandon(w)
    <2>1. Close(w) /\ UNCHANGED <<connection, document, object>>
        BY <1>10 DEF Refuse, Abandon
    <2>2. request' = [request EXCEPT ![w] = Idle] /\ Idle \in RequestOf
        BY <2>1 DEF Close, RequestOf
    <2> QED BY <1>0, <1>2, <2>1, <2>2, RequestChanges
<1> QED BY <1>1, <1>3, <1>4, <1>5, <1>6, <1>7, <1>8, <1>9, <1>10

\* What a request is right after the step that changed it.
LEMMA ChangedOK ==
    ASSUME IInv, Kept, NEW w \in Workers,
           \/ LoadForConnect(w) \/ LoadForOAuth(w) \/ LoadForPromote(w)
           \/ LoadForDisconnect(w) \/ LoadForUpload(w) \/ LoadForImport(w)
           \/ ReadPrimary(w) \/ Put(w) \/ Close(w)
    PROVE  RequestOK(request[w])'
<1>0. TypeOK /\ RequestsOK /\ request \in [Workers -> RequestOf]
    BY RequestTyped DEF IInv
<1>1. CASE LoadForConnect(w)
    BY <1>0, <1>1, ProvidersAssumption DEF LoadForConnect, Begin, RequestOK
<1>2. CASE LoadForOAuth(w)
    BY <1>0, <1>2, ProvidersAssumption DEF LoadForOAuth, Begin, RequestOK, Connected, Providers
<1>3. CASE LoadForPromote(w)
    BY <1>0, <1>3, ProvidersAssumption DEF LoadForPromote, Begin, RequestOK, Kept
<1>4. CASE LoadForDisconnect(w)
    BY <1>0, <1>4 DEF LoadForDisconnect, Begin, RequestOK, Kept
<1>5. CASE LoadForUpload(w) \/ LoadForImport(w)
    <2>1. PICK d \in Documents, f \in Files :
              Begin(w, [op |-> "upload", document |-> d, file |-> f,
                        number |-> document[d].current + 1,
                        primary |-> Unread, stored |-> FALSE])
        BY <1>5 DEF LoadForUpload, LoadForImport
    <2>2. request'[w] = [op |-> "upload", document |-> d, file |-> f,
                         number |-> document[d].current + 1,
                         primary |-> Unread, stored |-> FALSE]
        BY <1>0, <2>1 DEF Begin
    <2>3. document'[d] = document[d] /\ document[d].current \in Nat
        BY <1>0, <2>1, DocumentTyped DEF Begin
    <2> QED BY <2>2, <2>3 DEF RequestOK
<1>6. CASE ReadPrimary(w)
    <2>1. PICK p \in Buckets \cup {None} :
              /\ request' = [request EXCEPT ![w] = [request[w] EXCEPT !.primary = p]]
              /\ Primaries = {p} \ {None}
        BY <1>0, <1>6, ReadsPrimary
    <2>2. p \in Buckets => p \in Connected'
        BY <1>0, <2>1, ProvidersAssumption, ConnectedRows DEF Kept
    <2>3. UNCHANGED <<connection, document, object>>
        BY <1>6 DEF ReadPrimary
    <2>4. request[w].op \in {"connect", "promote", "upload"} /\ request[w].primary = Unread
        BY <1>6 DEF ReadPrimary, WantsPrimary
    <2>5. request'[w] = [request[w] EXCEPT !.primary = p]
        BY <1>0, <2>1
    <2>6. CASE request[w].op = "connect"
        <3>1. request[w] \in ConnectOf
            BY <1>0, <2>6, KindsDiffer
        <3>2. request'[w].op = "connect" /\ request'[w].primary = p
            BY <2>5, <2>6, <3>1 DEF ConnectOf
        <3> QED BY <2>2, <3>2 DEF RequestOK
    <2>7. CASE request[w].op = "promote"
        <3>1. request[w] \in PromoteOf
            BY <1>0, <2>7, KindsDiffer
        <3>2. /\ request'[w].op = "promote" /\ request'[w].primary = p
              /\ request'[w].provider = request[w].provider
            BY <2>5, <2>7, <3>1 DEF PromoteOf
        <3>3. request[w].provider \in Connected'
            BY <1>0, <2>7 DEF RequestsOK, RequestOK, Kept
        <3> QED BY <2>2, <3>2, <3>3 DEF RequestOK
    <2>8. CASE request[w].op = "upload"
        <3>1. request[w] \in UploadOf
            BY <1>0, <2>8, KindsDiffer
        <3>2. /\ request'[w].op = "upload" /\ request'[w].primary = p
              /\ request'[w].number = request[w].number
              /\ request'[w].document = request[w].document
              /\ request'[w].stored = request[w].stored
            BY <2>5, <2>8, <3>1 DEF UploadOf
        <3>3. /\ request[w].number <= document[request[w].document].current + 1
              /\ request[w].stored => request[w].primary \in Buckets
            BY <1>0, <2>8 DEF RequestsOK, RequestOK
        <3>4. ~request[w].stored
            BY <2>4, <3>3, ProvidersAssumption
        <3> QED BY <2>3, <3>2, <3>3, <3>4 DEF RequestOK
    <2> QED BY <2>4, <2>6, <2>7, <2>8
<1>7. CASE Put(w)
    <2> DEFINE r == request[w]
    <2>1. /\ r \in UploadOf /\ PlaceOf(r) \in Buckets \X KeyOf /\ r.file \in Files
        BY <1>0, <1>7, PutTyped
    <2>2. object' = [object EXCEPT ![PlaceOf(r)] = r.file.bytes]
        BY <1>7 DEF Put, PlaceOf
    <2>3. object'[PlaceOf(r)] # None
        BY <1>0, <2>1, <2>2, NoneAssumption DEF TypeOK
    <2>4. request'[w] = [r EXCEPT !.stored = TRUE]
        BY <1>0, <1>7 DEF Put
    <2>5. /\ request'[w].op = "upload" /\ request'[w].primary = r.primary
          /\ request'[w].number = r.number /\ request'[w].document = r.document
          /\ request'[w].file = r.file
        BY <2>1, <2>4 DEF UploadOf
    <2>6. /\ r.number <= document[r.document].current + 1
          /\ r.primary \in Buckets /\ document' = document
        BY <1>0, <1>7 DEF Put, RequestsOK, RequestOK
    <2>7. PlaceOf(request'[w]) = PlaceOf(r)
        BY <2>5 DEF PlaceOf, Key
    <2> HIDE DEF r
    <2> QED BY <2>3, <2>5, <2>6, <2>7 DEF RequestOK, PlaceOf, Key
<1>8. CASE Close(w)
    <2>1. request'[w] = Idle
        BY <1>0, <1>8 DEF Close
    <2> QED BY <2>1 DEF RequestOK, Idle
<1> QED BY <1>1, <1>2, <1>3, <1>4, <1>5, <1>6, <1>7, <1>8

----------------------------------------------------------------------------
(***************************************************************************)
(* The invariant.                                                          *)
(***************************************************************************)
LEMMA InitInv == Init => IInv
<1> SUFFICES ASSUME Init PROVE IInv
    OBVIOUS
<1>1. TypeOK
    BY InitTyped
<1>2. RequestsOK
    BY IdleOK DEF Init, RequestsOK
<1>3. Numbered /\ EveryVersionStored
    BY DEF Init, Numbered, EveryVersionStored
<1> QED BY <1>1, <1>2, <1>3 DEF IInv

LEMMA RequestsStep == IInv /\ Next => RequestsOK'
<1> SUFFICES ASSUME IInv, Next, NEW x \in Workers PROVE RequestOK(request[x])'
    BY DEF RequestsOK
<1>1. Kept
    BY StepKept
<1>2. PICK w \in Workers :
          \/ LoadForConnect(w) \/ LoadForOAuth(w) \/ LoadForPromote(w)
          \/ LoadForDisconnect(w) \/ LoadForUpload(w) \/ LoadForImport(w)
          \/ ReadPrimary(w) \/ Put(w) \/ Close(w)
    BY DEF Next, CommitConnect, CommitOAuth, CommitPromote, CommitDisconnect,
           CommitUpload, Refuse, Abandon
<1>3. CASE x = w
    BY <1>1, <1>2, <1>3, ChangedOK
<1>4. CASE x # w
    <2>1. request'[x] = request[x]
        BY <1>2, <1>4 DEF IInv, TypeOK, LoadForConnect, LoadForOAuth, LoadForPromote,
               LoadForDisconnect, LoadForUpload, LoadForImport, Begin, ReadPrimary,
               Put, Close
    <2> QED BY <1>1, <2>1, OthersOK
<1> QED BY <1>3, <1>4

\* Only CommitUpload touches the documents.
LEMMA DocumentSteps ==
    ASSUME Next
    PROVE  UNCHANGED document \/ \E w \in Workers : CommitUpload(w)
BY DEF Next, LoadForConnect, LoadForOAuth, LoadForPromote, LoadForDisconnect,
       LoadForUpload, LoadForImport, Begin, ReadPrimary, CommitConnect, CommitOAuth,
       CommitPromote, CommitDisconnect, Put, Refuse, Abandon

\* What CommitUpload makes of its document.
LEMMA UploadEffect ==
    ASSUME IInv, NEW w \in Workers, CommitUpload(w)
    PROVE  LET r == request[w]
               d == r.document
           IN  /\ d \in Documents
               /\ Version(r) \in VersionOf
               /\ Version(r).no = document[d].current + 1
               /\ document'[d].current = document[d].current + 1
               /\ document'[d].versions = document[d].versions \cup {Version(r)}
               /\ object'[Place(d, Version(r))] # None
               /\ \A x \in Documents \ {d} : document'[x] = document[x]
<1> DEFINE r == request[w]
           d == r.document
<1>1. /\ r \in UploadOf /\ d \in Documents /\ r.primary \in Buckets
      /\ object[PlaceOf(r)] # None /\ r.number = document[d].current + 1
    BY NextNumber
<1>2. Version(r) \in VersionOf
    BY <1>1, CommitUploadTyped DEF IInv
<1>3. Version(r).no = r.number /\ Place(d, Version(r)) = PlaceOf(r)
    BY DEF Version, Place, PlaceOf
<1>4. document' = [document EXCEPT ![d] =
          [current |-> r.number, versions |-> document[d].versions \cup {Version(r)}]]
    BY DEF CommitUpload
<1>5. document \in [Documents -> DocumentOf] /\ object' = object
    BY DEF CommitUpload, IInv, TypeOK
<1> QED BY <1>1, <1>2, <1>3, <1>4, <1>5

LEMMA NumberedStep == IInv /\ Next => Numbered'
<1> SUFFICES ASSUME IInv, Next PROVE Numbered'
    OBVIOUS
<1>1. CASE UNCHANGED document
    BY <1>1 DEF IInv, Numbered
<1>2. ASSUME NEW w \in Workers, CommitUpload(w)
      PROVE  Numbered'
    <2> DEFINE v == Version(request[w])
               e == request[w].document
    <2>1. /\ e \in Documents /\ v.no = document[e].current + 1
          /\ document'[e].current = document[e].current + 1
          /\ document'[e].versions = document[e].versions \cup {v}
          /\ \A x \in Documents \ {e} : document'[x] = document[x]
        BY <1>2, UploadEffect
    <2> HIDE DEF v, e
    <2> SUFFICES ASSUME NEW d \in Documents
                 PROVE  /\ \A x \in document'[d].versions : x.no <= document'[d].current
                        /\ \A n \in 1..document'[d].current :
                               \E x \in document'[d].versions : x.no = n
                        /\ \A x, y \in document'[d].versions : x.no = y.no => x = y
        BY DEF Numbered
    <2>2. CASE d # e
        BY <2>1, <2>2 DEF IInv, Numbered
    <2>3. CASE d = e
        <3>1. document[d].current \in Nat /\ document[d].versions \subseteq VersionOf
            BY DocumentTyped DEF IInv
        <3>2. \A x \in document[d].versions : x.no \in Nat /\ x.no <= document[d].current
            BY <3>1, BoundsAssumption DEF VersionOf, IInv, Numbered
        <3>3. \A x, y \in document[d].versions : x.no = y.no => x = y
            BY DEF IInv, Numbered
        <3>4. \A n \in 1..document[d].current : \E x \in document[d].versions : x.no = n
            BY DEF IInv, Numbered
        <3> QED BY <2>1, <2>3, <3>1, <3>2, <3>3, <3>4
    <2> QED BY <2>2, <2>3
<1> QED BY <1>1, <1>2, DocumentSteps

LEMMA StoredStep == IInv /\ Next => EveryVersionStored'
<1> SUFFICES ASSUME IInv, Next, NEW d \in Documents, NEW v \in document'[d].versions
             PROVE  object'[Place(d, v)] # None
    BY DEF EveryVersionStored, Place, Key
<1>1. TypeOK' /\ Kept
    BY StepKept
<1>2. CASE v \in document[d].versions
    <2>1. object[Place(d, v)] # None
        BY <1>2 DEF IInv, EveryVersionStored
    <2>2. v \in VersionOf
        BY <1>2, DocumentTyped DEF IInv
    <2>3. Place(d, v) \in Buckets \X KeyOf
        BY <2>2 DEF VersionOf, Place, Key, KeyOf
    <2> QED BY <1>1, <2>1, <2>3 DEF Kept
<1>3. CASE v \notin document[d].versions
    <2>1. PICK w \in Workers : CommitUpload(w)
        BY <1>3, DocumentSteps
    <2> QED BY <1>3, <2>1, UploadEffect
<1> QED BY <1>2, <1>3

LEMMA StepInv == IInv /\ [Next]_vars => IInv'
<1> SUFFICES ASSUME IInv, [Next]_vars PROVE IInv'
    OBVIOUS
<1>1. CASE Next
    BY <1>1, StepKept, RequestsStep, NumberedStep, StoredStep DEF IInv
<1>2. CASE UNCHANGED vars
    BY <1>2 DEF vars, IInv, TypeOK, RequestsOK, RequestOK, PlaceOf, Key, Connected,
               Numbered, EveryVersionStored, Place
<1> QED BY <1>1, <1>2

THEOREM Invariance == Spec => []IInv
BY InitInv, StepInv, PTL DEF Spec

\* The rows and the requests keep their types: no drive ever becomes a primary,
\* and what an upload is about to commit is a version in a bucket.
THEOREM TypeCorrect == Spec => []TypeOK
BY Invariance, PTL DEF IInv

\* However uploads overlap and wherever they are abandoned, a version that is in
\* the database has its object in its bucket.
THEOREM VersionsAreStored == Spec => []EveryVersionStored
BY Invariance, PTL DEF IInv

----------------------------------------------------------------------------
(***************************************************************************)
(* The documents implement VersionLog.                                     *)
(***************************************************************************)
EntryOf == [bucket : Buckets, file : Files]

Entry(v) == [bucket |-> v.bucket, file |-> v.file]

\* Numbered and LogOf, of one row.
RowNumbered(row) ==
    /\ \A v \in row.versions : v.no <= row.current
    /\ \A n \in 1..row.current : \E v \in row.versions : v.no = n
    /\ \A u, v \in row.versions : u.no = v.no => u = v

LogFrom(row) ==
    [i \in 1..row.current |-> Entry(CHOOSE v \in row.versions : v.no = i)]

\* Since a number is taken once, the version of a number is the one there is.
LEMMA VersionOfNumber ==
    ASSUME NEW V, \A u, v \in V : u.no = v.no => u = v, NEW v \in V
    PROVE  (CHOOSE u \in V : u.no = v.no) = v
OBVIOUS

LEMMA LogTyped ==
    ASSUME NEW row \in DocumentOf, RowNumbered(row)
    PROVE  /\ LogFrom(row) \in Seq(EntryOf)
           /\ Len(LogFrom(row)) = row.current
           /\ \A v \in row.versions : LogFrom(row)[v.no] = Entry(v)
<1> DEFINE n == row.current
           chosen(i) == CHOOSE v \in row.versions : v.no = i
<1>1. n \in Nat /\ row.versions \subseteq VersionOf
    BY BoundsAssumption DEF DocumentOf
<1>2. ASSUME NEW i \in 1..n
      PROVE  chosen(i) \in row.versions
    BY <1>2 DEF RowNumbered
<1>3. LogFrom(row) = [i \in 1..n |-> Entry(chosen(i))]
    BY DEF LogFrom
<1>4. \A i \in 1..n : Entry(chosen(i)) \in EntryOf
    BY <1>1, <1>2 DEF VersionOf, Entry, EntryOf
<1>5. ASSUME NEW v \in row.versions
      PROVE  v.no \in 1..n /\ chosen(v.no) = v
    <2>1. v.no \in 1..n
        BY <1>1, BoundsAssumption DEF VersionOf, RowNumbered
    <2>2. chosen(v.no) = v
        BY VersionOfNumber DEF RowNumbered
    <2> QED BY <2>1, <2>2
<1> HIDE DEF chosen
<1>6. LogFrom(row) \in [1..n -> EntryOf]
    BY <1>3, <1>4
<1>7. LogFrom(row) \in Seq(EntryOf)
    BY <1>1, <1>6, SeqDef
<1>8. Len(LogFrom(row)) = n
    BY <1>1, <1>6, <1>7, LenProperties
<1>9. \A v \in row.versions : LogFrom(row)[v.no] = Entry(v)
    BY <1>3, <1>5
<1> QED BY <1>7, <1>8, <1>9

LEMMA EmptyLog ==
    ASSUME NEW row, row.current = 0
    PROVE  LogFrom(row) = <<>>
BY DEF LogFrom

LEMMA AppendFacts ==
    ASSUME NEW S, NEW s \in Seq(S), NEW e \in S
    PROVE  /\ Append(s, e) \in Seq(S)
           /\ Len(Append(s, e)) = Len(s) + 1
           /\ Append(s, e)[Len(s) + 1] = e
           /\ \A i \in 1..Len(s) : Append(s, e)[i] = s[i]
OBVIOUS

\* A version with the next number appends its entry to the log.
LEMMA LogExtended ==
    ASSUME NEW old \in DocumentOf, NEW new \in DocumentOf, RowNumbered(old), RowNumbered(new),
           NEW v \in VersionOf, v.no = old.current + 1, new.current = v.no,
           new.versions = old.versions \cup {v}
    PROVE  LogFrom(new) = Append(LogFrom(old), Entry(v))
<1> DEFINE s == LogFrom(old)
           t == LogFrom(new)
<1>1. /\ s \in Seq(EntryOf) /\ Len(s) = old.current
      /\ \A x \in old.versions : s[x.no] = Entry(x)
      /\ t \in Seq(EntryOf) /\ Len(t) = new.current
      /\ \A x \in new.versions : t[x.no] = Entry(x)
    BY LogTyped
<1>2. Entry(v) \in EntryOf /\ old.current \in Nat
    BY BoundsAssumption DEF Entry, EntryOf, VersionOf, DocumentOf
<1> HIDE DEF s, t
<1>3. /\ Append(s, Entry(v)) \in Seq(EntryOf)
      /\ Len(Append(s, Entry(v))) = old.current + 1
      /\ Append(s, Entry(v))[old.current + 1] = Entry(v)
      /\ \A i \in 1..old.current : Append(s, Entry(v))[i] = s[i]
    BY <1>1, <1>2, AppendFacts
<1>4. ASSUME NEW i \in 1..Len(t)
      PROVE  t[i] = Append(s, Entry(v))[i]
    <2>1. CASE i = old.current + 1
        BY <1>1, <1>3, <2>1
    <2>2. CASE i # old.current + 1
        <3>1. i \in 1..old.current
            BY <1>1, <1>2, <2>2
        <3>2. PICK x \in old.versions : x.no = i
            BY <3>1 DEF RowNumbered
        <3>3. t[i] = Entry(x) /\ s[i] = Entry(x)
            BY <1>1, <3>2
        <3> QED BY <1>3, <3>1, <3>3
    <2> QED BY <2>1, <2>2
<1>5. t = Append(s, Entry(v))
    BY <1>1, <1>3, <1>4, SeqEqual
<1> QED BY <1>5 DEF s, t

LEMMA LogsFromRows ==
    /\ \A d \in Documents : LogOf(d) = LogFrom(document[d])
    /\ \A d \in Documents : LogOf(d)' = LogFrom(document'[d])
BY DEF LogOf, LogFrom, Entry

LEMMA LogInit == Init => Log!Init
BY LogsFromRows, EmptyLog DEF Init, Log!Init

LEMMA LogStep ==
    ASSUME IInv, IInv', [Next]_vars
    PROVE  Log!Next \/ UNCHANGED [d \in Documents |-> LogOf(d)]
<1>1. CASE UNCHANGED document
    BY <1>1, LogsFromRows
<1>2. ASSUME NEW w \in Workers, CommitUpload(w)
      PROVE  Log!Next
    <2> DEFINE e == request[w].document
               v == Version(request[w])
               log == [d \in Documents |-> LogOf(d)]
    <2>1. /\ e \in Documents /\ v \in VersionOf /\ v.no = document[e].current + 1
          /\ document'[e].current = v.no
          /\ document'[e].versions = document[e].versions \cup {v}
          /\ \A x \in Documents \ {e} : document'[x] = document[x]
        BY <1>2, UploadEffect
    <2>2. /\ document[e] \in DocumentOf /\ document'[e] \in DocumentOf
          /\ RowNumbered(document[e]) /\ RowNumbered(document'[e])
        BY <2>1 DEF IInv, TypeOK, Numbered, RowNumbered
    <2>3. Entry(v) \in EntryOf
        BY <2>1 DEF Entry, EntryOf, VersionOf
    <2> HIDE DEF e, v
    <2>4. LogFrom(document'[e]) = Append(LogFrom(document[e]), Entry(v))
        BY <2>1, <2>2, LogExtended
    <2>5. [d \in Documents |-> LogOf(d)'] =
              [log EXCEPT ![e] = Append(log[e], Entry(v))]
        BY <2>1, <2>4, LogsFromRows
    <2>6. Log!AddVersion(e, Entry(v))
        BY <2>5 DEF Log!AddVersion
    <2> QED BY <2>1, <2>3, <2>6 DEF Log!Next, EntryOf
<1> QED BY <1>1, <1>2, DocumentSteps DEF vars

\* For any number of overlapping uploads, the version rows of every document are
\* an append-only log without gaps.
THEOREM DocumentsImplementLog == Spec => ImplementsLog
<1>1. IInv /\ IInv' /\ [Next]_vars
          => [Log!Next]_([d \in Documents |-> LogOf(d)])
    BY LogStep
<1> QED BY <1>1, LogInit, Invariance, PTL DEF Spec, ImplementsLog, Log!Spec

----------------------------------------------------------------------------
(***************************************************************************)
(* At most as many primaries as requests that promote at once (k).         *)
(*                                                                         *)
(* A request that has read the primary will demote what it read and        *)
(* promote its own; it adds a primary only if what it read no longer is    *)
(* one.  None reads while there are two.  So the primaries and the         *)
(* requests that would add to them never exceed k, and the primaries and   *)
(* all that are about to promote do so by one at most.                     *)
(***************************************************************************)
Armed == {w \in Workers : /\ request[w].op \in {"connect", "promote"}
                          /\ request[w].primary # Unread}

Outdated == {w \in Armed : request[w].primary \notin Primaries}

ArmedAtOnce(k) == Cardinality(Armed) <= k

PrimariesAtMost(k) == Cardinality(Primaries) <= k

\* P: the primaries, A: the requests about to promote, O: the outdated of them.
Counts(k, P, A, O) ==
    /\ IsFiniteSet(P)
    /\ Cardinality(P) + Cardinality(A) <= k + 1
    /\ Cardinality(P) + Cardinality(O) <= k

CountInv(k) == Counts(k, Primaries, Armed, Outdated)

LEMMA OneMore ==
    ASSUME NEW P, IsFiniteSet(P), NEW q
    PROVE  /\ IsFiniteSet(P \cup {q}) /\ Cardinality(P \cup {q}) \in Nat
           /\ Cardinality(P) \in Nat /\ Cardinality(P \cup {q}) <= Cardinality(P) + 1
<1>1. IsFiniteSet(P \cup {q}) /\ Cardinality(P \cup {q}) \in Nat /\ Cardinality(P) \in Nat
    BY FS_AddElement, FS_CardinalityType
<1>2. Cardinality(P \cup {q}) = IF q \in P THEN Cardinality(P) ELSE Cardinality(P) + 1
    BY FS_AddElement
<1> QED BY <1>1, <1>2

LEMMA WorkerSets ==
    ASSUME NEW R \in SUBSET Workers
    PROVE  /\ IsFiniteSet(R) /\ Cardinality(R) \in Nat
           /\ Cardinality(Workers) \in Nat /\ Cardinality(R) <= Cardinality(Workers)
           /\ \A w \in R : Cardinality(R \ {w}) = Cardinality(R) - 1
           /\ \A Q \in SUBSET R : Cardinality(Q) <= Cardinality(R) /\ Cardinality(Q) \in Nat
<1>1. IsFiniteSet(R) /\ Cardinality(R) \in Nat /\ Cardinality(Workers) \in Nat
    BY WorkersAssumption, FS_Subset, FS_CardinalityType
<1>2. \A w \in R : Cardinality(R \ {w}) = Cardinality(R) - 1
    BY <1>1, FS_RemoveElement
<1>3. \A Q \in SUBSET R : Cardinality(Q) <= Cardinality(R) /\ Cardinality(Q) \in Nat
    BY <1>1, FS_Subset, FS_CardinalityType
<1> QED BY <1>1, <1>2, <1>3, WorkersAssumption, FS_Subset

\* Requests end, or do what changes no primary.
LEMMA CountsShrink ==
    ASSUME NEW k \in Nat, NEW P, NEW A \in SUBSET Workers, NEW O \in SUBSET A,
           Counts(k, P, A, O),
           NEW B \in SUBSET A, NEW Q \in SUBSET O
    PROVE  Counts(k, P, B, Q)
<1>1. Cardinality(P) \in Nat
    BY FS_CardinalityType DEF Counts
<1>2. /\ Cardinality(B) <= Cardinality(A) /\ Cardinality(Q) <= Cardinality(O)
      /\ Cardinality(B) \in Nat /\ Cardinality(Q) \in Nat
      /\ Cardinality(A) \in Nat /\ Cardinality(O) \in Nat
      /\ Cardinality(Workers) \in Nat
    BY WorkerSets
<1> QED BY <1>1, <1>2 DEF Counts

\* A request reads the primary; it is not outdated if there is one.
LEMMA CountsRead ==
    ASSUME NEW k \in Nat, NEW A \in SUBSET Workers, NEW O \in SUBSET A, Cardinality(A) <= k,
           NEW P, P = {} \/ (\E w \in A : w \notin O /\ \E p : P = {p})
    PROVE  Counts(k, P, A, O)
<1>1. /\ Cardinality(A) \in Nat /\ Cardinality(O) \in Nat
      /\ Cardinality(O) <= Cardinality(A)
    BY WorkerSets
<1>2. CASE P = {}
    BY <1>1, <1>2, FS_EmptySet DEF Counts
<1>3. ASSUME NEW w \in A, w \notin O, \E p : P = {p}
      PROVE  Counts(k, P, A, O)
    <2>1. IsFiniteSet(P) /\ Cardinality(P) = 1
        BY <1>3, FS_Singleton
    <2>2. O \in SUBSET (A \ {w}) /\ A \ {w} \in SUBSET Workers
        BY <1>3
    <2>3. Cardinality(A \ {w}) = Cardinality(A) - 1
        BY WorkerSets
    <2>4. Cardinality(O) <= Cardinality(A \ {w})
        BY <2>2, WorkerSets
    <2> QED BY <1>1, <2>1, <2>3, <2>4 DEF Counts
<1> QED BY <1>2, <1>3

\* One primary goes, one at most comes.
LEMMA OneForOne ==
    ASSUME NEW P, IsFiniteSet(P), NEW p \in P, NEW q, NEW R \in SUBSET ((P \ {p}) \cup {q})
    PROVE  IsFiniteSet(R) /\ Cardinality(R) <= Cardinality(P)
<1> DEFINE X == P \ {p}
<1>1. /\ IsFiniteSet(X) /\ Cardinality(X) = Cardinality(P) - 1
      /\ Cardinality(P) \in Nat
    BY FS_RemoveElement, FS_CardinalityType
<1>2. R \in SUBSET (X \cup {q})
    OBVIOUS
<1> HIDE DEF X
<1>3. /\ IsFiniteSet(X \cup {q}) /\ Cardinality(X \cup {q}) <= Cardinality(X) + 1
      /\ Cardinality(X) \in Nat /\ Cardinality(X \cup {q}) \in Nat
    BY <1>1, OneMore
<1>4. IsFiniteSet(R) /\ Cardinality(R) <= Cardinality(X \cup {q})
    BY <1>2, <1>3, FS_Subset
<1>5. Cardinality(R) \in Nat
    BY <1>4, FS_CardinalityType
<1> QED BY <1>1, <1>3, <1>4, <1>5

\* A request that is not outdated replaces a primary.
LEMMA CountsReplace ==
    ASSUME NEW k \in Nat, NEW P, NEW A \in SUBSET Workers, NEW O \in SUBSET A,
           Counts(k, P, A, O),
           NEW w \in A, NEW B \in SUBSET (A \ {w}), NEW Q \in SUBSET B,
           NEW R, IsFiniteSet(R), Cardinality(R) <= Cardinality(P)
    PROVE  Counts(k, R, B, Q)
<1>1. /\ Cardinality(A \ {w}) = Cardinality(A) - 1
      /\ Cardinality(B) <= Cardinality(A \ {w}) /\ Cardinality(Q) <= Cardinality(B)
      /\ Cardinality(A) \in Nat /\ Cardinality(B) \in Nat /\ Cardinality(Q) \in Nat
      /\ Cardinality(Workers) \in Nat
    <2>1. B \in SUBSET Workers /\ A \ {w} \in SUBSET Workers
        OBVIOUS
    <2> QED BY <2>1, WorkerSets
<1>2. Cardinality(P) \in Nat /\ Cardinality(R) \in Nat
    BY FS_CardinalityType DEF Counts
<1> QED BY <1>1, <1>2 DEF Counts

\* An outdated request adds one.
LEMMA CountsAdd ==
    ASSUME NEW k \in Nat, NEW P, NEW A \in SUBSET Workers, NEW O \in SUBSET A,
           Counts(k, P, A, O),
           NEW w \in O, NEW B \in SUBSET (A \ {w}), NEW Q \in SUBSET (O \ {w}),
           NEW q, NEW R \in SUBSET (P \cup {q})
    PROVE  Counts(k, R, B, Q)
<1>1. /\ Cardinality(A \ {w}) = Cardinality(A) - 1
      /\ Cardinality(O \ {w}) = Cardinality(O) - 1
      /\ Cardinality(B) <= Cardinality(A \ {w}) /\ Cardinality(Q) <= Cardinality(O \ {w})
      /\ Cardinality(A) \in Nat /\ Cardinality(B) \in Nat /\ Cardinality(Q) \in Nat
      /\ Cardinality(O) \in Nat /\ Cardinality(Workers) \in Nat
    <2>1. /\ O \in SUBSET Workers /\ O \ {w} \in SUBSET Workers
          /\ A \ {w} \in SUBSET Workers /\ w \in A
        OBVIOUS
    <2>2. /\ Cardinality(A \ {w}) = Cardinality(A) - 1 /\ Cardinality(A) \in Nat
          /\ Cardinality(O \ {w}) = Cardinality(O) - 1 /\ Cardinality(O) \in Nat
          /\ Cardinality(Workers) \in Nat
        BY <2>1, WorkerSets
    <2>3. Cardinality(B) <= Cardinality(A \ {w}) /\ Cardinality(B) \in Nat
        BY <2>1, WorkerSets
    <2>4. Cardinality(Q) <= Cardinality(O \ {w}) /\ Cardinality(Q) \in Nat
        BY <2>1, WorkerSets
    <2> QED BY <2>2, <2>3, <2>4
<1>2. /\ IsFiniteSet(R) /\ Cardinality(R) <= Cardinality(P) + 1
      /\ Cardinality(P) \in Nat /\ Cardinality(R) \in Nat
    <2>1. IsFiniteSet(P) /\ Cardinality(P) \in Nat
        BY FS_CardinalityType DEF Counts
    <2>2. IsFiniteSet(P \cup {q}) /\ Cardinality(P \cup {q}) <= Cardinality(P) + 1
        BY <2>1, OneMore
    <2>3. IsFiniteSet(R) /\ Cardinality(R) <= Cardinality(P \cup {q})
        BY <2>2, FS_Subset
    <2>4. Cardinality(R) \in Nat /\ Cardinality(P \cup {q}) \in Nat
        BY <2>2, <2>3, FS_CardinalityType
    <2> QED BY <2>1, <2>2, <2>3, <2>4
<1> QED BY <1>1, <1>2 DEF Counts

\* A primary is demoted: requests may become outdated.
LEMMA CountsDemote ==
    ASSUME NEW k \in Nat, NEW P, NEW A \in SUBSET Workers, NEW O \in SUBSET A,
           Counts(k, P, A, O),
           NEW p \in P, NEW B \in SUBSET A, NEW Q \in SUBSET B
    PROVE  Counts(k, P \ {p}, B, Q)
<1>1. /\ Cardinality(B) <= Cardinality(A) /\ Cardinality(Q) <= Cardinality(B)
      /\ Cardinality(A) \in Nat /\ Cardinality(B) \in Nat /\ Cardinality(Q) \in Nat
      /\ Cardinality(Workers) \in Nat
    <2>1. B \in SUBSET Workers
        OBVIOUS
    <2>2. /\ Cardinality(B) <= Cardinality(A)
          /\ Cardinality(A) \in Nat /\ Cardinality(B) \in Nat
          /\ Cardinality(Workers) \in Nat
        BY WorkerSets
    <2>3. Cardinality(Q) <= Cardinality(B) /\ Cardinality(Q) \in Nat
        BY <2>1, WorkerSets
    <2> QED BY <2>2, <2>3
<1>2. /\ IsFiniteSet(P \ {p}) /\ Cardinality(P \ {p}) = Cardinality(P) - 1
      /\ Cardinality(P) \in Nat
    BY FS_RemoveElement, FS_CardinalityType DEF Counts
<1> QED BY <1>1, <1>2 DEF Counts

LEMMA ArmedAreWorkers ==
    /\ Armed \in SUBSET Workers /\ Outdated \in SUBSET Armed
    /\ Armed' \in SUBSET Workers /\ Outdated' \in SUBSET Armed'
BY DEF Armed, Outdated

\* Who ends, or does not promote, adds nothing while the primaries stay.
LEMMA QuietStep ==
    ASSUME NEW CONSTANT k \in Nat, CountInv(k), NEW w \in Workers,
           \A x \in Workers \ {w} : request'[x] = request[x],
           w \notin Armed', Primaries' = Primaries
    PROVE  CountInv(k)'
<1>1. Armed' \in SUBSET Armed /\ Outdated' \in SUBSET Outdated
    BY DEF Armed, Outdated
<1> QED BY <1>1, ArmedAreWorkers, CountsShrink DEF CountInv

LEMMA ReadStep ==
    ASSUME NEW CONSTANT k \in Nat, IInv, CountInv(k), ArmedAtOnce(k)',
           NEW w \in Workers, ReadPrimary(w)
    PROVE  CountInv(k)'
<1>1. PICK p \in Buckets \cup {None} :
          /\ request' = [request EXCEPT ![w] = [request[w] EXCEPT !.primary = p]]
          /\ [request[w] EXCEPT !.primary = p] \in RequestOf
          /\ Primaries = {p} \ {None}
    BY ReadsPrimary DEF IInv
<1>2. Primaries' = Primaries
    BY DEF ReadPrimary, Primaries, Connected
<1>3. /\ request'[w].primary = p /\ request'[w].op = request[w].op
      /\ \A x \in Workers \ {w} : request'[x] = request[x]
    <2>1. request \in [Workers -> RequestOf] /\ request[w] \in RequestOf
        BY RequestTyped DEF IInv
    <2>2. request'[w] = [request[w] EXCEPT !.primary = p]
        BY <1>1, <2>1
    <2>3. request[w].op \in {"connect", "promote", "upload"}
        BY DEF ReadPrimary, WantsPrimary
    <2>4. request[w] \in ConnectOf \cup PromoteOf \cup UploadOf
        BY <2>1, <2>3, KindsDiffer
    <2>5. PICK q : q = request[w]
        OBVIOUS
    <2>6. [q EXCEPT !.primary = p].primary = p /\ [q EXCEPT !.primary = p].op = q.op
        BY <2>4, <2>5 DEF ConnectOf, PromoteOf, UploadOf
    <2>7. \A x \in Workers \ {w} : request'[x] = request[x]
        BY <1>1, <2>1
    <2> QED BY <2>2, <2>5, <2>6, <2>7
<1>4. Cardinality(Armed') <= k
    BY DEF ArmedAtOnce
<1>5. CASE p = None
    <2>1. Primaries' = {}
        BY <1>1, <1>2, <1>5
    <2> QED BY <1>4, <2>1, ArmedAreWorkers, CountsRead DEF CountInv
<1>6. CASE p # None /\ request[w].op \in {"connect", "promote"}
    <2>1. Primaries' = {p}
        BY <1>1, <1>2, <1>6
    <2>2. w \in Armed' /\ w \notin Outdated'
        BY <1>1, <1>3, <1>6, <2>1, ProvidersAssumption DEF Armed, Outdated
    <2> QED BY <1>4, <2>1, <2>2, ArmedAreWorkers, CountsRead DEF CountInv
<1>7. CASE request[w].op \notin {"connect", "promote"}
    <2>1. w \notin Armed'
        BY <1>3, <1>7 DEF Armed
    <2> QED BY <1>2, <1>3, <2>1, QuietStep
<1> QED BY <1>5, <1>6, <1>7

\* The primaries a promotion leaves.
LEMMA PromotedPrimaries ==
    ASSUME IInv, NEW w \in Workers, Promotes(w)
    PROVE  LET r == request[w]
           IN  /\ r.primary \in Primaries
                      => Primaries' \subseteq (Primaries \ {r.primary}) \cup {r.provider}
               /\ Primaries' \subseteq Primaries \cup {r.provider}
               /\ r.primary \notin Primaries => Primaries \subseteq Primaries'
<1> DEFINE r == request[w]
           row == PromotedRow(r)
<1>1. /\ r.op \in {"connect", "promote"} /\ r.provider \in Buckets /\ row \in ConnectionOf
      /\ connection' = Promoted(r, row)
    BY PromotesRow DEF IInv
<1>2. /\ connection'[r.provider] = row
      /\ \A p \in Connected : connection'[p] # NoConnection
      /\ \A p \in Providers \ {r.provider} :
             /\ connection'[p] # NoConnection => connection[p] # NoConnection
             /\ p = r.primary /\ p \in Connected => ~connection'[p].primary
             /\ p # r.primary => connection'[p] = connection[p]
    BY <1>1, PromotedRows DEF IInv
<1>3. ASSUME NEW p \in Primaries'
      PROVE  /\ p \in Primaries \cup {r.provider}
             /\ p = r.primary => p = r.provider
    <2>1. p \in Providers /\ connection'[p] # NoConnection /\ connection'[p].primary
        BY DEF Primaries, Connected
    <2>2. CASE p # r.provider
        BY <1>2, <2>1, <2>2 DEF Primaries, Connected
    <2> QED BY <2>2
<1>4. ASSUME r.primary \notin Primaries, NEW p \in Primaries
      PROVE  p \in Primaries'
    <2>1. /\ p \in Providers /\ p \in Connected /\ connection[p].primary
          /\ connection'[p] # NoConnection
        BY <1>2 DEF Primaries, Connected
    <2>2. CASE p # r.provider
        BY <1>2, <1>4, <2>1, <2>2 DEF Primaries, Connected
    <2>3. CASE p = r.provider
        <3>1. connection[r.provider] \in ConnectionOf
            BY <2>1, <2>3, ConnectedRows DEF IInv
        <3>2. row.primary
            BY <2>1, <2>3, <3>1 DEF PromotedRow, ConnectionOf
        <3> QED BY <1>2, <2>1, <2>3, <3>2 DEF Primaries, Connected
    <2> QED BY <2>2, <2>3
<1> HIDE DEF r, row
<1>5. r.primary \in Primaries => Primaries' \subseteq (Primaries \ {r.primary}) \cup {r.provider}
    BY <1>3
<1>6. Primaries' \subseteq Primaries \cup {r.provider}
    BY <1>3
<1> QED BY <1>4, <1>5, <1>6 DEF r

LEMMA PromoteStep ==
    ASSUME NEW CONSTANT k \in Nat, IInv, CountInv(k), NEW w \in Workers, Promotes(w)
    PROVE  CountInv(k)'
<1> DEFINE r == request[w]
<1>1. /\ r.op \in {"connect", "promote"} /\ r.primary \in Buckets \cup {None}
      /\ request' = [request EXCEPT ![w] = Idle]
    BY PromotesRow DEF IInv, Close
<1>2. w \in Armed
    BY <1>1, ProvidersAssumption DEF Armed
<1>3. Armed' \in SUBSET (Armed \ {w})
    BY <1>1, RequestTyped DEF Armed, Idle, IInv
<1>4. /\ Armed \in SUBSET Workers /\ Outdated \in SUBSET Armed
      /\ Outdated' \in SUBSET Armed' /\ Counts(k, Primaries, Armed, Outdated)
    BY ArmedAreWorkers DEF CountInv
<1>5. CASE r.primary \in Primaries
    <2>1. PICK p \in Primaries, q \in Buckets :
              Primaries' \in SUBSET ((Primaries \ {p}) \cup {q})
        BY <1>5, PromotedPrimaries, PromotesRow DEF IInv
    <2>2. IsFiniteSet(Primaries') /\ Cardinality(Primaries') <= Cardinality(Primaries)
        BY <1>4, <2>1, OneForOne DEF Counts
    <2>3. Counts(k, Primaries', Armed', Outdated')
        BY ONLY <1>2, <1>3, <1>4, <2>2, CountsReplace
    <2> QED BY <2>3 DEF CountInv
<1>6. CASE r.primary \notin Primaries
    <2>1. w \in Outdated
        BY <1>2, <1>6 DEF Outdated
    <2>2. /\ Primaries \subseteq Primaries'
          /\ \E q \in Buckets : Primaries' \in SUBSET (Primaries \cup {q})
        BY <1>6, PromotedPrimaries, PromotesRow DEF IInv
    <2>3. Outdated' \in SUBSET (Outdated \ {w})
        <3> SUFFICES ASSUME NEW x \in Outdated' PROVE x \in Outdated \ {w}
            OBVIOUS
        <3>1. x \in Armed \ {w} /\ request'[x].primary \notin Primaries'
            BY <1>3, ArmedAreWorkers DEF Outdated
        <3>2. request'[x] = request[x]
            BY <1>1, <3>1, RequestTyped DEF IInv, Armed
        <3> QED BY <2>2, <3>1, <3>2 DEF Outdated
    <2>4. PICK q \in Buckets : Primaries' \in SUBSET (Primaries \cup {q})
        BY <2>2
    <2>5. Counts(k, Primaries', Armed', Outdated')
        BY ONLY <1>3, <1>4, <2>1, <2>3, <2>4, CountsAdd
    <2> QED BY <2>5 DEF CountInv
<1> QED BY <1>5, <1>6

LEMMA DisconnectStep ==
    ASSUME NEW CONSTANT k \in Nat, IInv, CountInv(k),
           NEW w \in Workers, CommitDisconnect(w)
    PROVE  CountInv(k)'
<1> DEFINE q == request[w].provider
<1>1. Primaries' \subseteq Primaries /\ Primaries \ {q} \subseteq Primaries'
    BY DisconnectTyped DEF IInv
<1>2. /\ request' = [request EXCEPT ![w] = Idle]
      /\ request \in [Workers -> RequestOf]
    BY RequestTyped DEF IInv, CommitDisconnect, Close
<1>3. w \notin Armed' /\ \A x \in Workers \ {w} : request'[x] = request[x]
    BY <1>2 DEF Armed, Idle
<1>4. CASE Primaries' = Primaries
    BY <1>3, <1>4, QuietStep
<1>5. CASE Primaries' # Primaries
    <2>1. q \in Primaries /\ Primaries' = Primaries \ {q}
        BY <1>1, <1>5
    <2>2. Armed' \in SUBSET Armed
        BY <1>3 DEF Armed
    <2> QED BY <2>1, <2>2, ArmedAreWorkers, CountsDemote DEF CountInv
<1> QED BY <1>4, <1>5

LEMMA CountInit ==
    ASSUME NEW CONSTANT k \in Nat, Init
    PROVE  CountInv(k)
<1>1. Primaries = {} /\ Armed = {} /\ Outdated = {}
    BY DEF Init, Primaries, Connected, Armed, Outdated, Idle
<1> QED BY <1>1, FS_EmptySet DEF CountInv, Counts

LEMMA CountStep ==
    ASSUME NEW CONSTANT k \in Nat, IInv, CountInv(k), ArmedAtOnce(k)', [Next]_vars
    PROVE  CountInv(k)'
<1>1. CASE UNCHANGED vars
    BY <1>1 DEF vars, CountInv, Primaries, Connected, Armed, Outdated
<1>2. ASSUME NEW w \in Workers,
             LoadForConnect(w) \/ LoadForOAuth(w) \/ LoadForPromote(w)
                 \/ LoadForDisconnect(w) \/ LoadForUpload(w) \/ LoadForImport(w)
      PROVE  CountInv(k)'
    <2>1. PICK r : /\ Begin(w, r)
                   /\ r.op \in {"connect", "promote"} => r.primary = Unread
        <3>1. CASE LoadForConnect(w) BY <3>1 DEF LoadForConnect
        <3>2. CASE LoadForOAuth(w) BY <3>2 DEF LoadForOAuth
        <3>3. CASE LoadForPromote(w) BY <3>3 DEF LoadForPromote
        <3>4. CASE LoadForDisconnect(w) BY <3>4 DEF LoadForDisconnect
        <3>5. CASE LoadForUpload(w) \/ LoadForImport(w)
            <4>1. PICK d \in Documents, f \in Files :
                      Begin(w, [op |-> "upload", document |-> d, file |-> f,
                                number |-> document[d].current + 1,
                                primary |-> Unread, stored |-> FALSE])
                BY <3>5 DEF LoadForUpload, LoadForImport
            <4> QED BY <4>1
        <3> QED BY <1>2, <3>1, <3>2, <3>3, <3>4, <3>5
    <2>2. Primaries' = Primaries
        BY <2>1 DEF Begin, Primaries, Connected
    <2>3. request' = [request EXCEPT ![w] = r] /\ request \in [Workers -> RequestOf]
        BY <2>1, RequestTyped DEF Begin, IInv
    <2>4. w \notin Armed' /\ \A x \in Workers \ {w} : request'[x] = request[x]
        BY <2>1, <2>3 DEF Armed
    <2> QED BY <2>2, <2>4, QuietStep
<1>3. ASSUME NEW w \in Workers,
             \/ CommitOAuth(w) \/ CommitUpload(w) \/ Refuse(w) \/ Abandon(w)
      PROVE  CountInv(k)'
    <2>1. Close(w)
        BY <1>3 DEF CommitOAuth, CommitUpload, Refuse, Abandon
    <2>3. Primaries' = Primaries
        <3>1. CASE CommitOAuth(w)
            BY <3>1, OAuthTyped DEF IInv
        <3>2. CASE CommitUpload(w) \/ Refuse(w) \/ Abandon(w)
            BY <3>2 DEF CommitUpload, Refuse, Abandon, Primaries, Connected
        <3> QED BY <1>3, <3>1, <3>2
    <2>4. w \notin Armed' /\ \A x \in Workers \ {w} : request'[x] = request[x]
        BY <2>1, RequestTyped DEF IInv, Close, Armed, Idle
    <2> QED BY <2>3, <2>4, QuietStep
<1>4. ASSUME NEW w \in Workers, Put(w)
      PROVE  CountInv(k)'
    <2>1. Primaries' = Primaries
        BY <1>4 DEF Put, Primaries, Connected
    <2>2. request'[w] = [request[w] EXCEPT !.stored = TRUE] /\ request[w] \in UploadOf
        BY <1>4, RequestTyped, PutTyped DEF IInv, Put
    <2>3. request'[w].op = "upload"
        BY <2>2 DEF UploadOf
    <2>4. w \notin Armed' /\ \A x \in Workers \ {w} : request'[x] = request[x]
        BY <1>4, <2>3, RequestTyped DEF IInv, Put, Armed
    <2> QED BY <2>1, <2>4, QuietStep
<1> QED BY <1>1, <1>2, <1>3, <1>4, ReadStep, PromoteStep, DisconnectStep DEF Next, Promotes

LEMMA CountBounds ==
    ASSUME NEW CONSTANT k \in Nat, CountInv(k)
    PROVE  PrimariesAtMost(k)
<1>1. Outdated \in SUBSET Workers
    BY ArmedAreWorkers
<1>2. Cardinality(Outdated) \in Nat
    BY <1>1, WorkerSets
<1>3. Cardinality(Primaries) \in Nat
    BY FS_CardinalityType DEF CountInv, Counts
<1> QED BY <1>2, <1>3 DEF CountInv, Counts, PrimariesAtMost

\* As many as there are requests.
LEMMA PrimariesCounted == Spec => []CountInv(Cardinality(Workers))
<1> DEFINE k == Cardinality(Workers)
<1>1. k \in Nat /\ ArmedAtOnce(k)'
    BY WorkersAssumption, FS_CardinalityType, ArmedAreWorkers, WorkerSets DEF ArmedAtOnce
<1> HIDE DEF k
<1>2. Init => CountInv(k)
    BY <1>1, CountInit
<1>3. IInv /\ CountInv(k) /\ [Next]_vars => CountInv(k)'
    BY <1>1, CountStep
<1>4. Spec => []CountInv(k)
    BY <1>2, <1>3, Invariance, PTL DEF Spec
<1> QED BY <1>4 DEF k

\* With any number of requests at a time, an organization never has more primary
\* connections than that.
THEOREM PrimariesAreFew == Spec => []FewPrimaries
<1>1. CountInv(Cardinality(Workers)) => FewPrimaries
    BY CountBounds, WorkersAssumption, FS_CardinalityType DEF PrimariesAtMost, FewPrimaries
<1> QED BY <1>1, PrimariesCounted, PTL

\* There are no more of them than requests that connect or promote and have read
\* the primary at once: with one such request at a time (k is 1) the promise of a
\* single primary holds, whatever else overlaps.
THEOREM PrimariesAreAtMost ==
    ASSUME NEW CONSTANT k \in Nat
    PROVE  Spec /\ []ArmedAtOnce(k) => []PrimariesAtMost(k)
<1>1. Init => CountInv(k)
    BY CountInit
<1>2. IInv /\ CountInv(k) /\ ArmedAtOnce(k)' /\ [Next]_vars => CountInv(k)'
    BY CountStep
<1>3. CountInv(k) => PrimariesAtMost(k)
    BY CountBounds
<1> QED BY <1>1, <1>2, <1>3, Invariance, PTL DEF Spec

----------------------------------------------------------------------------
(***************************************************************************)
(* Requests whose reads are current.                                       *)
(***************************************************************************)
LEMMA FreshPutStep ==
    ASSUME IInv, [Next]_vars,
           \A w \in Workers : Put(w) =>
               document[request[w].document].current = request[w].number - 1,
           NEW d \in Documents, NEW v \in document[d].versions
    PROVE  object'[Place(d, v)] = object[Place(d, v)]
<1>1. CASE UNCHANGED object
    BY <1>1 DEF Place, Key
<1>2. ASSUME NEW w \in Workers, Put(w)
      PROVE  object'[Place(d, v)] = object[Place(d, v)]
    <2> DEFINE r == request[w]
    <2>1. r \in UploadOf /\ r.op = "upload" /\ ~r.stored
        BY <1>2, PutTyped DEF IInv, Put
    <2>3. document[r.document].current = r.number - 1
        BY <1>2
    <2>4. v \in VersionOf /\ v.no <= document[d].current
        BY DocumentTyped DEF IInv, Numbered
    <2>5. Place(d, v) # PlaceOf(r)
        <3> SUFFICES ASSUME Place(d, v) = PlaceOf(r) PROVE FALSE
            OBVIOUS
        <3>1. d = r.document /\ v.no = r.number
            BY DEF Place, PlaceOf, Key
        <3>2. v.no \in Nat /\ document[d].current \in Nat
            BY <2>4, BoundsAssumption, DocumentTyped DEF VersionOf, IInv
        <3> QED BY <2>3, <2>4, <3>1, <3>2
    <2>6. Place(d, v) \in Buckets \X KeyOf
        BY <2>4 DEF VersionOf, Place, Key, KeyOf
    <2>7. object' = [object EXCEPT ![PlaceOf(r)] = r.file.bytes]
        BY <1>2 DEF Put, PlaceOf
    <2> QED BY <2>5, <2>6, <2>7 DEF IInv, TypeOK
<1>3. UNCHANGED object \/ \E w \in Workers : Put(w)
    BY DEF Next, vars, LoadForConnect, LoadForOAuth, LoadForPromote, LoadForDisconnect,
           LoadForUpload, LoadForImport, Begin, ReadPrimary, CommitConnect, CommitOAuth,
           CommitPromote, CommitDisconnect, CommitUpload, Refuse, Abandon
<1> QED BY <1>1, <1>2, <1>3

LEMMA FreshPutsAction ==
    IInv /\ [Next]_vars =>
        [ (\A w \in Workers : request'[w] # request[w] => Fresh(request[w]))
          => \A d \in Documents : \A v \in document[d].versions :
                 object'[Place(d, v)] = object[Place(d, v)] ]_vars
<1> SUFFICES ASSUME IInv, [Next]_vars,
                    \A w \in Workers : request'[w] # request[w] => Fresh(request[w])
             PROVE  \A d \in Documents : \A v \in document[d].versions :
                        object'[Place(d, v)] = object[Place(d, v)]
    OBVIOUS
<1>1. ASSUME NEW w \in Workers, Put(w)
      PROVE  document[request[w].document].current = request[w].number - 1
    <2>1. request[w] \in UploadOf /\ request[w].op = "upload" /\ ~request[w].stored
        BY <1>1, PutTyped DEF IInv, Put
    <2>2. request'[w] = [request[w] EXCEPT !.stored = TRUE]
        BY <1>1, RequestTyped DEF IInv, Put
    <2>3. request'[w].stored
        BY <2>1, <2>2 DEF UploadOf
    <2> QED BY <2>1, <2>3 DEF Fresh
<1> QED BY <1>1, FreshPutStep

\* The bytes of a version are only ever replaced by an upload that read the
\* document before that version was committed.
THEOREM FreshPutsKeep == Spec => FreshPutsKeepVersions
BY FreshPutsAction, Invariance, PTL DEF Spec, FreshPutsKeepVersions

\* What a promotion on current reads leaves.
LEMMA FreshPromotion ==
    ASSUME IInv, NEW w \in Workers, Promotes(w), Fresh(request[w])
    PROVE  Primaries' = {request[w].provider}
<1> DEFINE r == request[w]
           row == PromotedRow(r)
<1>1. /\ r.op \in {"connect", "promote"} /\ r.provider \in Buckets
      /\ r.primary \in Buckets \cup {None} /\ row \in ConnectionOf
      /\ connection' = Promoted(r, row)
    BY PromotesRow DEF IInv
<1>2. Primaries = {r.primary} \ {None}
    BY <1>1, ProvidersAssumption DEF Fresh
<1>3. Primaries' \subseteq {r.provider}
    <2>1. CASE r.primary \in Primaries
        BY <1>2, <2>1, PromotedPrimaries
    <2>2. CASE r.primary \notin Primaries
        BY <1>2, <2>2, PromotedPrimaries
    <2> QED BY <2>1, <2>2
<1>4. row.primary
    <2>1. CASE r.op = "connect"
        BY <2>1 DEF PromotedRow
    <2>2. CASE r.op = "promote"
        <3>1. connection[r.provider] = r.row /\ r.row \in ConnectionOf
            BY <2>2, RequestTyped, KindsDiffer DEF IInv, Fresh, PromoteOf
        <3> QED BY <2>2, <3>1 DEF PromotedRow, ConnectionOf
    <2> QED BY <1>1, <2>1, <2>2
<1>5. connection'[r.provider] = row
    BY <1>1, PromotedRows DEF IInv
<1>6. r.provider \in Primaries'
    BY <1>1, <1>4, <1>5, RowsDiffer DEF Primaries, Connected, Providers
<1> QED BY <1>3, <1>6

LEMMA FreshCallStep ==
    ASSUME IInv, IsFiniteSet(Primaries), [Next]_vars,
           \A w \in Workers :
               request[w] # Idle /\ request'[w] = Idle => Fresh(request[w]),
           Cardinality(Primaries) <= 1
    PROVE  /\ Cardinality(Primaries') <= 1
           /\ \A w \in Workers :
                  /\ request[w].op \in {"connect", "promote"}
                  /\ connection' # connection /\ request'[w] # request[w]
                  => Primaries' = {request[w].provider}
<1>1. ASSUME NEW w \in Workers, Promotes(w)
      PROVE  /\ Cardinality(Primaries') <= 1
             /\ \A x \in Workers : request'[x] # request[x]
                                   => Primaries' = {request[x].provider}
    <2>1. /\ request' = [request EXCEPT ![w] = Idle] /\ request \in [Workers -> RequestOf]
          /\ request[w].op \in {"connect", "promote"}
        BY <1>1, PromotesRow, RequestTyped DEF IInv, Close
    <2>2. Fresh(request[w])
        BY <2>1 DEF Idle
    <2>3. Primaries' = {request[w].provider}
        BY <1>1, <2>2, FreshPromotion
    <2>4. Cardinality(Primaries') = 1
        BY <2>3, FS_Singleton
    <2> QED BY <2>1, <2>3, <2>4
<1>2. ASSUME Primaries' \subseteq Primaries
      PROVE  Cardinality(Primaries') <= 1
    <2>1. IsFiniteSet(Primaries) /\ Cardinality(Primaries) \in Nat
        BY FS_CardinalityType
    <2>2. Cardinality(Primaries') <= Cardinality(Primaries) /\ IsFiniteSet(Primaries')
        BY <1>2, <2>1, FS_Subset
    <2>3. Cardinality(Primaries') \in Nat
        BY <2>2, FS_CardinalityType
    <2> QED BY <2>1, <2>2, <2>3
<1>3. ASSUME NEW w \in Workers, CommitOAuth(w) \/ CommitDisconnect(w)
      PROVE  /\ Primaries' \subseteq Primaries
             /\ \A x \in Workers : request'[x] # request[x]
                                   => request[x].op \notin {"connect", "promote"}
    <2>1. Primaries' \subseteq Primaries
        BY <1>3, OAuthTyped, DisconnectTyped DEF IInv
    <2>2. /\ request' = [request EXCEPT ![w] = Idle] /\ request \in [Workers -> RequestOf]
          /\ request[w].op \in {"oauth", "disconnect"}
        BY <1>3, RequestTyped DEF IInv, CommitOAuth, CommitDisconnect, Close
    <2> QED BY <2>1, <2>2
<1>4. \/ \E w \in Workers : Promotes(w) \/ CommitOAuth(w) \/ CommitDisconnect(w)
      \/ UNCHANGED connection
    BY DEF Next, vars, LoadForConnect, LoadForOAuth, LoadForPromote, LoadForDisconnect,
           LoadForUpload, LoadForImport, Begin, ReadPrimary, Promotes, Put, CommitUpload,
           Refuse, Abandon
<1>5. CASE UNCHANGED connection
    BY <1>2, <1>5 DEF Primaries, Connected
<1> QED BY <1>1, <1>2, <1>3, <1>4, <1>5

LEMMA FreshCallsAction ==
    IInv /\ IsFiniteSet(Primaries) /\ [Next]_vars =>
        [ /\ \A w \in Workers :
                 request[w] # Idle /\ request'[w] = Idle => Fresh(request[w])
          /\ Cardinality(Primaries) <= 1
          => /\ Cardinality(Primaries') <= 1
             /\ \A w \in Workers :
                    /\ request[w].op \in {"connect", "promote"}
                    /\ connection' # connection /\ request'[w] # request[w]
                    => Primaries' = {request[w].provider} ]_vars
BY FreshCallStep

\* Calls whose reads are current keep the promise of one primary connection.
THEOREM FreshCallsKeep == Spec => FreshCallsKeepOnePrimary
<1>1. CountInv(Cardinality(Workers)) => IsFiniteSet(Primaries)
    BY DEF CountInv, Counts
<1> QED BY <1>1, FreshCallsAction, PrimariesCounted, Invariance, PTL
        DEF Spec, FreshCallsKeepOnePrimary

----------------------------------------------------------------------------
(***************************************************************************)
(* One upload at a time for each document.  A version's object then holds  *)
(* what was sent for it, whatever was abandoned before and whatever else   *)
(* overlaps: VersionOverwritten's counterexample needs two of them.        *)
(***************************************************************************)
OneUploadPerDocument ==
    \A v, w \in Workers :
        /\ request[v].op = "upload" /\ request[w].op = "upload"
        /\ request[v].document = request[w].document
        => v = w

\* The number an upload computed is still the next one, and what it has put
\* is still there.
UploadCurrent(r) ==
    r.op = "upload" =>
        /\ document[r.document].current = r.number - 1
        /\ r.stored => object[PlaceOf(r)] = r.file.bytes

UploadsCurrent == \A w \in Workers : UploadCurrent(request[w])

\* The tables of the documents stay.
LEMMA UploadGoesOn ==
    ASSUME UploadsCurrent, NEW w \in Workers, UNCHANGED <<document, object>>,
           \A x \in Workers \ {w} : request'[x] = request[x],
           UploadCurrent(request'[w])
    PROVE  UploadsCurrent'
<1> SUFFICES ASSUME NEW x \in Workers PROVE UploadCurrent(request[x])'
    BY DEF UploadsCurrent
<1>1. PICK r : r = request'[x]
    OBVIOUS
<1>2. UploadCurrent(r)
    BY <1>1 DEF UploadsCurrent
<1>3. /\ r.op = "upload" => document'[r.document].current = r.number - 1
      /\ r.op = "upload" /\ r.stored => object'[PlaceOf(r)] = r.file.bytes
    BY <1>2 DEF UploadCurrent
<1> QED BY <1>1, <1>3 DEF UploadCurrent, PlaceOf, Key

LEMMA LoadsAreCurrent ==
    ASSUME IInv, UploadsCurrent, NEW w \in Workers,
           \/ LoadForConnect(w) \/ LoadForOAuth(w) \/ LoadForPromote(w)
           \/ LoadForDisconnect(w) \/ LoadForUpload(w) \/ LoadForImport(w)
    PROVE  UploadsCurrent'
<1>1. ASSUME NEW r, Begin(w, r), UploadCurrent(r)
      PROVE  UploadsCurrent'
    <2>1. request'[w] = r /\ \A x \in Workers \ {w} : request'[x] = request[x]
        BY <1>1, RequestTyped DEF Begin, IInv
    <2> QED BY <1>1, <2>1, UploadGoesOn DEF Begin
<1>2. CASE \/ LoadForConnect(w) \/ LoadForOAuth(w) \/ LoadForPromote(w)
           \/ LoadForDisconnect(w)
    <2>1. PICK r : Begin(w, r) /\ r.op # "upload"
        <3>1. CASE LoadForConnect(w) BY <3>1 DEF LoadForConnect
        <3>2. CASE LoadForOAuth(w) BY <3>2 DEF LoadForOAuth
        <3>3. CASE LoadForPromote(w) BY <3>3 DEF LoadForPromote
        <3>4. CASE LoadForDisconnect(w) BY <3>4 DEF LoadForDisconnect
        <3> QED BY <1>2, <3>1, <3>2, <3>3, <3>4
    <2> QED BY <1>1, <2>1 DEF UploadCurrent
<1>3. CASE LoadForUpload(w) \/ LoadForImport(w)
    <2>1. PICK d \in Documents, f \in Files :
              Begin(w, [op |-> "upload", document |-> d, file |-> f,
                        number |-> document[d].current + 1,
                        primary |-> Unread, stored |-> FALSE])
        BY <1>3 DEF LoadForUpload, LoadForImport
    <2>2. PICK r : /\ Begin(w, r) /\ ~r.stored
                   /\ r.document = d /\ r.number = document[d].current + 1
        BY <2>1
    <2>3. document[d].current \in Nat
        BY DocumentTyped DEF IInv
    <2> QED BY <1>1, <2>2, <2>3 DEF UploadCurrent
<1> QED BY <1>2, <1>3

LEMMA ReadIsCurrent ==
    ASSUME IInv, UploadsCurrent, NEW w \in Workers, ReadPrimary(w)
    PROVE  UploadsCurrent'
<1>1. PICK q : q = request[w]
    OBVIOUS
<1>2. PICK p : request' = [request EXCEPT ![w] = [q EXCEPT !.primary = p]]
    BY <1>1, ReadsPrimary DEF IInv
<1>3. q \in ConnectOf \cup PromoteOf \cup UploadOf
    BY <1>1, RequestTyped, KindsDiffer DEF IInv, ReadPrimary, WantsPrimary
<1>4. PICK r : r = [q EXCEPT !.primary = p]
    OBVIOUS
<1>5. request'[w] = r /\ \A x \in Workers \ {w} : request'[x] = request[x]
    BY <1>2, <1>4, RequestTyped DEF IInv
<1>6. UploadCurrent(r)
    <2>1. CASE q \in ConnectOf \cup PromoteOf
        <3>1. r.op # "upload"
            BY <1>4, <2>1 DEF ConnectOf, PromoteOf
        <3> QED BY <3>1 DEF UploadCurrent
    <2>2. CASE q \in UploadOf
        <3>1. /\ q.op = "upload" /\ r.document = q.document /\ r.number = q.number
              /\ r.stored = q.stored
            BY <1>4, <2>2 DEF UploadOf
        <3>2. ~q.stored
            <4>1. q.primary = Unread
                BY <1>1 DEF ReadPrimary, WantsPrimary
            <4>2. q.stored => q.primary \in Buckets
                BY <1>1, <3>1 DEF IInv, RequestsOK, RequestOK
            <4> QED BY <4>1, <4>2, ProvidersAssumption
        <3>3. document[q.document].current = q.number - 1
            BY <1>1, <3>1 DEF UploadsCurrent, UploadCurrent
        <3> QED BY <3>1, <3>2, <3>3 DEF UploadCurrent
    <2> QED BY <1>3, <2>1, <2>2
<1>7. UNCHANGED <<document, object>>
    BY DEF ReadPrimary
<1> QED BY <1>5, <1>6, <1>7, UploadGoesOn

LEMMA PutIsCurrent ==
    ASSUME IInv, OneUploadPerDocument, UploadsCurrent, NEW w \in Workers, Put(w)
    PROVE  UploadsCurrent'
<1>1. PICK q : q = request[w]
    OBVIOUS
<1>2. /\ q \in UploadOf /\ q.op = "upload"
      /\ PlaceOf(q) \in Buckets \X KeyOf
    BY <1>1, PutTyped DEF IInv, Put
<1>3. PICK r : r = [q EXCEPT !.stored = TRUE]
    OBVIOUS
<1>4. /\ r.op = "upload" /\ r.document = q.document /\ r.number = q.number
      /\ r.file = q.file /\ r.primary = q.primary
    BY <1>2, <1>3 DEF UploadOf
<1>5. request'[w] = r /\ \A x \in Workers \ {w} : request'[x] = request[x]
    BY <1>1, <1>3, RequestTyped DEF IInv, Put
<1>6. /\ document' = document
      /\ object'[PlaceOf(q)] = q.file.bytes
      /\ \A y : y # PlaceOf(q) => object'[y] = object[y]
    BY <1>1, <1>2 DEF Put, PlaceOf, IInv, TypeOK
<1>7. UploadCurrent(request[w])'
    <2>1. document[q.document].current = q.number - 1
        BY <1>1, <1>2 DEF UploadsCurrent, UploadCurrent
    <2>2. PlaceOf(r) = PlaceOf(q)
        BY <1>4 DEF PlaceOf
    <2>3. object'[PlaceOf(r)] = r.file.bytes /\ document'[r.document].current = r.number - 1
        BY <1>4, <1>6, <2>1, <2>2
    <2> QED BY <1>5, <2>3 DEF UploadCurrent, PlaceOf, Key
<1>8. ASSUME NEW x \in Workers, x # w
      PROVE  UploadCurrent(request[x])'
    <2>1. PICK u : u = request[x]
        OBVIOUS
    <2>2. CASE u.op # "upload"
        BY <1>5, <1>8, <2>1, <2>2 DEF UploadCurrent
    <2>3. CASE u.op = "upload"
        <3>1. u.document # q.document
            BY <1>1, <1>2, <1>8, <2>1, <2>3 DEF OneUploadPerDocument
        <3>2. PlaceOf(u) # PlaceOf(q)
            BY <3>1 DEF PlaceOf, Key
        <3>3. /\ document[u.document].current = u.number - 1
              /\ u.stored => object[PlaceOf(u)] = u.file.bytes
            BY <2>1, <2>3 DEF UploadsCurrent, UploadCurrent
        <3>4. /\ document'[u.document].current = u.number - 1
              /\ u.stored => object'[PlaceOf(u)] = u.file.bytes
            BY <1>6, <3>2, <3>3
        <3> QED BY <1>5, <1>8, <2>1, <3>4 DEF UploadCurrent, PlaceOf, Key
    <2> QED BY <2>2, <2>3
<1> QED BY <1>7, <1>8 DEF UploadsCurrent

LEMMA CommitIsCurrent ==
    ASSUME IInv, OneUploadPerDocument, UploadsCurrent, NEW w \in Workers, CommitUpload(w)
    PROVE  UploadsCurrent'
<1>1. PICK q : q = request[w]
    OBVIOUS
<1>2. /\ request'[w] = Idle /\ \A x \in Workers \ {w} : request'[x] = request[x]
      /\ q.op = "upload" /\ object' = object
    BY <1>1, RequestTyped DEF CommitUpload, Close, IInv
<1>3. \A d \in Documents \ {q.document} : document'[d] = document[d]
    BY <1>1, UploadEffect
<1>4. ASSUME NEW x \in Workers, x # w
      PROVE  UploadCurrent(request[x])'
    <2>1. PICK u : u = request[x]
        OBVIOUS
    <2>2. CASE u.op # "upload"
        BY <1>2, <1>4, <2>1, <2>2 DEF UploadCurrent
    <2>3. CASE u.op = "upload"
        <3>1. u.document # q.document
            BY <1>1, <1>2, <1>4, <2>1, <2>3 DEF OneUploadPerDocument
        <3>2. u.document \in Documents
            BY <2>1, <2>3, RequestTyped, KindsDiffer DEF IInv, UploadOf
        <3>3. /\ document[u.document].current = u.number - 1
              /\ u.stored => object[PlaceOf(u)] = u.file.bytes
            BY <2>1, <2>3 DEF UploadsCurrent, UploadCurrent
        <3>4. /\ document'[u.document].current = u.number - 1
              /\ u.stored => object'[PlaceOf(u)] = u.file.bytes
            BY <1>2, <1>3, <3>1, <3>2, <3>3
        <3> QED BY <1>2, <1>4, <2>1, <3>4 DEF UploadCurrent, PlaceOf, Key
    <2> QED BY <2>2, <2>3
<1> QED BY <1>2, <1>4 DEF UploadsCurrent, UploadCurrent, Idle

LEMMA UploadsStayCurrent ==
    ASSUME IInv, OneUploadPerDocument, [Next]_vars, UploadsCurrent
    PROVE  UploadsCurrent'
<1>1. CASE UNCHANGED vars
    BY <1>1 DEF UploadsCurrent, UploadCurrent, PlaceOf, Key, vars
<1>2. ASSUME NEW w \in Workers, Close(w), UNCHANGED <<document, object>>
      PROVE  UploadsCurrent'
    <2>1. request'[w] = Idle /\ \A x \in Workers \ {w} : request'[x] = request[x]
        BY <1>2, RequestTyped DEF Close, IInv
    <2>2. UploadCurrent(Idle)
        BY DEF UploadCurrent, Idle
    <2> QED BY <1>2, <2>1, <2>2, UploadGoesOn
<1>3. ASSUME NEW w \in Workers,
             \/ CommitConnect(w) \/ CommitOAuth(w) \/ CommitPromote(w)
             \/ CommitDisconnect(w) \/ Refuse(w) \/ Abandon(w)
      PROVE  Close(w) /\ UNCHANGED <<document, object>>
    BY <1>3 DEF CommitConnect, CommitOAuth, CommitPromote, CommitDisconnect, Refuse, Abandon
<1> QED BY <1>1, <1>2, <1>3, LoadsAreCurrent, ReadIsCurrent, PutIsCurrent, CommitIsCurrent
        DEF Next

\* A put on a current read is of a number that is not taken, and what is
\* committed is what was put.
LEMMA StoredStaysAsSent ==
    ASSUME IInv, [Next]_vars, UploadsCurrent, StoredAsSent
    PROVE  StoredAsSent'
<1> SUFFICES ASSUME NEW d \in Documents, NEW v \in document'[d].versions
             PROVE  object'[Place(d, v)] = v.file.bytes
    BY DEF StoredAsSent, Place, Key
<1>1. CASE v \in document[d].versions
    <2>1. \A w \in Workers :
              Put(w) => document[request[w].document].current = request[w].number - 1
        BY DEF UploadsCurrent, UploadCurrent, Put
    <2>2. object'[Place(d, v)] = object[Place(d, v)]
        BY <1>1, <2>1, FreshPutStep
    <2> QED BY <1>1, <2>2 DEF StoredAsSent
<1>2. CASE v \notin document[d].versions
    <2>1. PICK w \in Workers : CommitUpload(w)
        BY <1>2, DocumentSteps DEF vars
    <2> DEFINE r == request[w]
    <2>2. v = Version(r) /\ d = r.document
        BY <1>2, <2>1, UploadEffect
    <2>3. Place(d, v) = PlaceOf(r) /\ v.file = r.file
        BY <2>2 DEF Place, PlaceOf, Version
    <2>4. object[PlaceOf(r)] = r.file.bytes /\ object' = object
        BY <2>1 DEF CommitUpload, UploadsCurrent, UploadCurrent
    <2> QED BY <2>3, <2>4
<1> QED BY <1>1, <1>2

\* While no two uploads to one document overlap, every version's object holds the
\* bytes that were sent for it.  Uploads to other documents, changes of the
\* connections and abandoned calls may overlap.
THEOREM SerialUploadsAreStoredAsSent == Spec /\ []OneUploadPerDocument => []StoredAsSent
<1>1. Init => UploadsCurrent /\ StoredAsSent
    BY DEF Init, UploadsCurrent, UploadCurrent, Idle, StoredAsSent
<1>2. IInv /\ OneUploadPerDocument /\ [Next]_vars /\ UploadsCurrent /\ StoredAsSent
          => (UploadsCurrent /\ StoredAsSent)'
    BY UploadsStayCurrent, StoredStaysAsSent
<1> QED BY <1>1, <1>2, Invariance, PTL DEF Spec
=============================================================================
