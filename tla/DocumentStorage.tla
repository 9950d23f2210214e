-------------------------- MODULE DocumentStorage ---------------------------
(***************************************************************************)
(* Document versions and the storage connections their bytes go to, in one *)
(* organization, under concurrent calls of StorageService and              *)
(* DocumentService.                                                        *)
(*                                                                         *)
(* Two stores are written: the database (connection, document) and the     *)
(* buckets (object), which take part in no transaction.  An upload puts    *)
(* its object first and commits its version afterwards.  As everywhere in  *)
(* the program the rows are read without locks, each SELECT sees what is   *)
(* committed by then, and an UPDATE writes only the columns that change.   *)
(***************************************************************************)
EXTENDS FiniteSets, Naturals

CONSTANTS Buckets,      \* write-capable providers: S3, GCS, MinIO, local disk
          Drives,       \* READ_ONLY_PROVIDERS
          Documents,    \* the documents
          Files,        \* what may be uploaded or imported: [name, bytes]
          SafeName,     \* _safe_filename, as a function of the names
          Workers,      \* the requests that may be in progress at once
          MaxVersions,  \* bound: the versions of a document that are followed
          None,         \* Python's None
          Unread        \* the primary connection is not read yet

ASSUME ProvidersAssumption ==
    /\ Buckets \cap Drives = {}
    /\ None \notin Buckets \cup Drives /\ Unread \notin Buckets \cup Drives
    /\ None # Unread

ASSUME FilesAssumption ==
    \A f \in Files : DOMAIN f = {"name", "bytes"} /\ f.name \in DOMAIN SafeName

ASSUME NoneAssumption == \A f \in Files : f.bytes # None

ASSUME WorkersAssumption == IsFiniteSet(Workers) /\ Workers # {}

ASSUME BoundsAssumption == MaxVersions \in Nat

VARIABLES connection,  \* the storage_connections row of each provider
          document,    \* each document's row and its document_versions rows
          object,      \* what the buckets hold under each key
          request      \* what each worker has read, and for which call

vars == <<connection, document, object, request>>

Providers == Buckets \cup Drives

NoConnection == [status |-> "none"]

\* mark_error has no caller, and "pending" is replaced before the commit.
ConnectionOf == [status : {"connected", "disconnected"}, primary : BOOLEAN]

VersionOf == [no : 1..MaxVersions, bucket : Buckets, file : Files]

DocumentOf == [current : 0..MaxVersions, versions : SUBSET VersionOf]

\* An object's key: org-/contract-/doc-/v<number>-<safe name>.
KeyOf == [document : Documents, no : 1..MaxVersions,
          name : {SafeName[f.name] : f \in Files}]

\* Mutant: the key does not tell the versions of a document apart.
UnnumberedKey(d, n, f) == [document |-> d, no |-> 1, name |-> SafeName[f.name]]

Key(d, n, f) == [document |-> d, no |-> n, name |-> SafeName[f.name]]

BytesOf == {f.bytes : f \in Files}

Idle == [op |-> "none"]

PrimaryRead == Buckets \cup {None, Unread}

ConnectOf == [op : {"connect"}, provider : Providers, exists : BOOLEAN,
              primary : PrimaryRead]

OAuthOf == [op : {"oauth"}, provider : Drives,
            row : ConnectionOf \cup {NoConnection}]

PromoteOf == [op : {"promote"}, provider : Providers, row : ConnectionOf,
              primary : PrimaryRead]

DisconnectOf == [op : {"disconnect"}, provider : Providers, row : ConnectionOf]

UploadOf == [op : {"upload"}, document : Documents, file : Files,
             number : 1..MaxVersions, primary : PrimaryRead, stored : BOOLEAN]

\* A version lies in a bucket, and so does the primary connection: a drive is
\* never written to.
TypeOK ==
    /\ connection \in [Providers -> ConnectionOf \cup {NoConnection}]
    /\ document \in [Documents -> DocumentOf]
    /\ object \in [Buckets \X KeyOf -> BytesOf \cup {None}]
    /\ request \in [Workers -> {Idle} \cup ConnectOf \cup OAuthOf \cup PromoteOf
                                \cup DisconnectOf \cup UploadOf]
    /\ \A p \in Drives : connection[p] # NoConnection => ~connection[p].primary

Init ==
    /\ connection = [p \in Providers |-> NoConnection]
    /\ document = [d \in Documents |-> [current |-> 0, versions |-> {}]]
    /\ object = [k \in Buckets \X KeyOf |-> None]
    /\ request = [w \in Workers |-> Idle]

Connected == {p \in Providers : connection[p] # NoConnection}

Primaries == {p \in Connected : connection[p].primary}

----------------------------------------------------------------------------
(***************************************************************************)
(* The first SELECT of each call.                                          *)
(***************************************************************************)
Begin(w, r) ==
    /\ request[w] = Idle
    /\ request' = [request EXCEPT ![w] = r]
    /\ UNCHANGED <<connection, document, object>>

\* The form of the settings page, and the API, offer every provider.
LoadForConnect(w) ==
    \E p \in Providers :
        Begin(w, [op |-> "connect", provider |-> p, exists |-> p \in Connected,
                  primary |-> Unread])

\* The browser comes back from the drive's consent page; the code is exchanged
\* for tokens before the row is looked up.
LoadForOAuth(w) ==
    \E p \in Drives : Begin(w, [op |-> "oauth", provider |-> p, row |-> connection[p]])

LoadForPromote(w) ==
    \E p \in Connected :
        Begin(w, [op |-> "promote", provider |-> p, row |-> connection[p],
                  primary |-> Unread])

LoadForDisconnect(w) ==
    \E p \in Connected :
        Begin(w, [op |-> "disconnect", provider |-> p, row |-> connection[p]])

\* The form or the API sends the bytes along.
LoadForUpload(w) ==
    \E d \in Documents, f \in Files :
        /\ document[d].current < MaxVersions
        /\ Begin(w, [op |-> "upload", document |-> d, file |-> f,
                     number |-> document[d].current + 1,
                     primary |-> Unread, stored |-> FALSE])

\* An import fetches the bytes from a drive, in units of work of their own and
\* whatever the status of its connection, and goes on as an upload.
LoadForImport(w) ==
    /\ Connected \cap Drives # {}
    /\ LoadForUpload(w)

----------------------------------------------------------------------------
Close(w) == request' = [request EXCEPT ![w] = Idle]

WantsPrimary(r) ==
    /\ r.op \in {"connect", "promote", "upload"}
    /\ r.primary = Unread
    /\ r.op = "connect" => ~r.exists

\* Mutant: some primary is taken when there are several.
ReadAnyPrimary(w) ==
    /\ WantsPrimary(request[w])
    /\ \E p \in IF Primaries = {} THEN {None} ELSE Primaries :
           request' = [request EXCEPT ![w].primary = p]
    /\ UNCHANGED <<connection, document, object>>

\* get_primary_for_organization, a SELECT of its own.  With several primaries
\* scalar_one_or_none raises (see Refuse).
ReadPrimary(w) ==
    /\ WantsPrimary(request[w])
    /\ \/ Primaries = {} /\ request' = [request EXCEPT ![w].primary = None]
       \/ \E p \in Providers :
              /\ Primaries = {p}
              /\ request' = [request EXCEPT ![w].primary = p]
    /\ UNCHANGED <<connection, document, object>>

\* Mutant: the old primary is not demoted.
PromoteOnly(r, row) == [connection EXCEPT ![r.provider] = row]

\* _promote: the primary that was read is demoted, unless it is this one.
Promoted(r, row) ==
    [p \in Providers |->
        IF p = r.provider THEN row
        ELSE IF p = r.primary THEN [connection[p] EXCEPT !.primary = FALSE]
        ELSE connection[p]]

\* Mutant: any provider may become the primary.
AnyCanBePrimary(r) == r.primary # Unread

\* mark_primary refuses a provider that cannot be written to.
CanBePrimary(r) == r.primary # Unread /\ r.provider \in Buckets

MayConnect(r) == r.op = "connect" /\ CanBePrimary(r)

\* A second row for the provider violates uq_conn_org_provider.
CommitConnect(w) ==
    LET r == request[w]
    IN  /\ MayConnect(r)
        /\ r.provider \notin Connected
        /\ connection' = Promoted(r, [status |-> "connected", primary |-> TRUE])
        /\ Close(w)
        /\ UNCHANGED <<document, object>>

CommitOAuth(w) ==
    LET r == request[w]
    IN  /\ r.op = "oauth"
        /\ \/ /\ r.row = NoConnection /\ r.provider \notin Connected
              /\ connection' = [connection EXCEPT ![r.provider] =
                     [status |-> "connected", primary |-> FALSE]]
           \/ /\ r.row # NoConnection
              /\ connection' = [connection EXCEPT ![r.provider].status =
                     IF r.row.status = "connected" THEN @ ELSE "connected"]
        /\ Close(w)
        /\ UNCHANGED <<document, object>>

\* A connection that was read as the primary is not written: its is_primary
\* does not change.  Its status is not looked at.
CommitPromote(w) ==
    LET r == request[w]
        row == connection[r.provider]
    IN  /\ r.op = "promote" /\ CanBePrimary(r)
        /\ connection' =
               Promoted(r, IF r.row.primary THEN row ELSE [row EXCEPT !.primary = TRUE])
        /\ Close(w)
        /\ UNCHANGED <<document, object>>

\* Only the columns that differ from the row as it was read are written.
CommitDisconnect(w) ==
    LET r == request[w]
        row == connection[r.provider]
    IN  /\ r.op = "disconnect"
        /\ connection' = [connection EXCEPT ![r.provider] =
               [status |-> IF r.row.status = "disconnected" THEN row.status
                           ELSE "disconnected",
                primary |-> IF r.row.primary THEN FALSE ELSE row.primary]]
        /\ Close(w)
        /\ UNCHANGED <<document, object>>

----------------------------------------------------------------------------
\* adapter.upload, outside the transaction: an object under this key is
\* replaced.
Put(w) ==
    LET r == request[w]
    IN  /\ r.op = "upload" /\ ~r.stored /\ r.primary \in Buckets
        /\ object' = [object EXCEPT
               ![<<r.primary, Key(r.document, r.number, r.file)>>] = r.file.bytes]
        /\ request' = [request EXCEPT ![w].stored = TRUE]
        /\ UNCHANGED <<connection, document>>

Version(r) == [no |-> r.number, bucket |-> r.primary, file |-> r.file]

\* uq_doc_version
NumberTaken(r) == \E v \in document[r.document].versions : v.no = r.number

\* Mutants: the version is committed before its bytes are stored; the database
\* does not refuse a number that is taken.
CommitUploadFirst(w) ==
    LET r == request[w]
    IN  /\ r.op = "upload" /\ r.primary \in Buckets
        /\ ~NumberTaken(r)
        /\ document' = [document EXCEPT ![r.document] =
               [current |-> r.number, versions |-> @.versions \cup {Version(r)}]]
        /\ Close(w)
        /\ UNCHANGED <<connection, object>>

CommitUploadTwice(w) ==
    LET r == request[w]
    IN  /\ r.op = "upload" /\ r.stored
        /\ document' = [document EXCEPT ![r.document] =
               [current |-> r.number, versions |-> @.versions \cup {Version(r)}]]
        /\ Close(w)
        /\ UNCHANGED <<connection, object>>

\* add_version and the commit: current_version_no becomes the number that was
\* computed from the row as it was read.
CommitUpload(w) ==
    LET r == request[w]
    IN  /\ r.op = "upload" /\ r.stored
        /\ ~NumberTaken(r)
        /\ document' = [document EXCEPT ![r.document] =
               [current |-> r.number, versions |-> @.versions \cup {Version(r)}]]
        /\ Close(w)
        /\ UNCHANGED <<connection, object>>

----------------------------------------------------------------------------
\* The call ends with an error: the provider is connected already or read-only,
\* several primaries or none, or a constraint of the database.
Refuse(w) ==
    LET r == request[w]
    IN  /\ \/ r.op = "connect" /\ (r.exists \/ r.provider \in Connected)
           \/ r.op \in {"connect", "promote"} /\ r.primary # Unread /\ ~CanBePrimary(r)
           \/ r.op = "oauth" /\ r.row = NoConnection /\ r.provider \in Connected
           \/ WantsPrimary(r) /\ Cardinality(Primaries) > 1
           \/ r.op = "upload" /\ (r.primary = None \/ (r.stored /\ NumberTaken(r)))
        /\ Close(w)
        /\ UNCHANGED <<connection, document, object>>

\* The process, the database or the bucket goes away: what is in the bucket by
\* then stays there.
Abandon(w) ==
    /\ request[w] # Idle
    /\ Close(w)
    /\ UNCHANGED <<connection, document, object>>

Next ==
    \E w \in Workers :
        \/ LoadForConnect(w) \/ LoadForOAuth(w) \/ LoadForPromote(w)
        \/ LoadForDisconnect(w) \/ LoadForUpload(w) \/ LoadForImport(w)
        \/ ReadPrimary(w)
        \/ CommitConnect(w) \/ CommitOAuth(w) \/ CommitPromote(w)
        \/ CommitDisconnect(w) \/ Put(w) \/ CommitUpload(w)
        \/ Refuse(w) \/ Abandon(w)

Spec == Init /\ [][Next]_vars

----------------------------------------------------------------------------
(***************************************************************************)
(* What holds however the requests interleave.                             *)
(***************************************************************************)
Place(d, v) == <<v.bucket, Key(d, v.no, v.file)>>

\* A version that is in the database is in its bucket: whatever was abandoned
\* between the two writes, a download never finds its object missing.
EveryVersionStored ==
    \A d \in Documents : \A v \in document[d].versions : object[Place(d, v)] # None

\* With N requests at a time an organization has at most N primary connections:
\* once there are two, every call that would make a third is refused.
FewPrimaries == Cardinality(Primaries) <= Cardinality(Workers)

LogOf(d) ==
    [i \in 1..document[d].current |->
        LET v == CHOOSE v \in document[d].versions : v.no = i
        IN  [bucket |-> v.bucket, file |-> v.file]]

Log == INSTANCE VersionLog WITH
           Entries <- [bucket : Buckets, file : Files],
           log <- [d \in Documents |-> LogOf(d)]

\* The version rows of a document are a log: numbered without gaps, only ever
\* extended, by one version at a time, even if uploads overlap.
ImplementsLog == Log!Spec

\* What the request r has read is still what the tables hold.
Fresh(r) ==
    /\ r.op \in {"promote", "disconnect", "oauth"} => connection[r.provider] = r.row
    /\ r.op \in {"connect", "promote"} /\ r.primary # Unread
           => Primaries = {r.primary} \ {None}
    /\ r.op = "upload" => document[r.document].current = r.number - 1

\* A call that ends while what it read is current keeps the promise of one
\* primary, and a call that promotes leaves exactly its own connection primary.
FreshCallsKeepOnePrimary ==
    [][ /\ \A w \in Workers :
               request[w] # Idle /\ request'[w] = Idle => Fresh(request[w])
        /\ Cardinality(Primaries) <= 1
        => /\ Cardinality(Primaries') <= 1
           /\ \A w \in Workers :
                  /\ request[w].op \in {"connect", "promote"}
                  /\ connection' # connection /\ request'[w] # request[w]
                  => Primaries' = {request[w].provider} ]_vars

\* Only an upload that read the document before a version was committed can
\* replace that version's bytes: afterwards its key is not used again.
FreshPutsKeepVersions ==
    [][ (\A w \in Workers : request'[w] # request[w] => Fresh(request[w]))
        => \A d \in Documents : \A v \in document[d].versions :
               object'[Place(d, v)] = object[Place(d, v)] ]_vars

(***************************************************************************)
(* What the documentation says, and overlapping requests break.            *)
(***************************************************************************)
\* "An immutable version snapshot of a Document": a version's object holds the
\* bytes that were sent for that version.
StoredAsSent ==
    \A d \in Documents : \A v \in document[d].versions :
        object[Place(d, v)] = v.file.bytes
=============================================================================
