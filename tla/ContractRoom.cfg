SPECIFICATION MCSpec
CONSTANTS
    draft = draft
    sign = sign
    drafting = drafting
    signing = signing
    nda = nda
    lease = lease
    d1 = d1
    d2 = d2
    e1 = e1
    None = None
    Steps = {draft, sign}
    FirstStep <- MCFirstStep
    Edges <- MCEdges
    Owner <- MCOwner
    Agents = {drafting, signing}
    Roles = {r1, r2}
    Users = {u1}
    Contracts = {nda, lease}
    Configs <- MCConfigs
    Documents = {d1, d2, e1}
    ContractOf <- MCContractOf
    MainDocument <- MCMainDocument
    MaxVersions = 1
    Workers = {w1, w2}
    Links = {l1}
    MaxCalls = 4
SYMMETRY RoomSymmetry
INVARIANTS
    TypeOK
    FewLateDeeds
PROPERTIES
    DeedsAreEntitled
    ChecklistsApply
    ViewsStayWithinLinks
