SPECIFICATION Spec
CONSTANTS
    Clients = {c1}
    Tokens = {t1, t2}
    Users = {u1}
    Ops = {"logout", "api", "bad"}
    None = None
    Ttl = 0
    MaxCalls = 2
    MaxNow = 1
SYMMETRY TokenSymmetry
INVARIANTS
    ExecutedInOrder
    LogoutIsLast
    RefusedForGood
    CleanInStep
    CleanReplyAccepted
    OrderInv
PROPERTIES
    NoGapAccepted
    RpcRefinement
