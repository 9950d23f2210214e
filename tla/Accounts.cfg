SPECIFICATION MCSpec
CONSTANTS
    ann = ann
    bob = bob
    sub = sub
    None = None
    Emails = {ann, bob}
    Passwords = {p1, p2}
    Identities <- OneSub
    Tokens = {t1, t2, t3}
    Sessions = {s1, s2}
    Workers = {w1, w2}
    MaxCalls = 5
SYMMETRY RequestSymmetry
INVARIANTS
    TypeOK
    LiveTokensUnused
    FewUses
    FewLiveTokens
    OwnersHaveAccepted
    SessionsProveEmail
