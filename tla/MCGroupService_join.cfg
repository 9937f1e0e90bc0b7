SPECIFICATION Spec
CONSTANTS
    a1 = a1
    b1 = b1
    alice = alice
    bob = bob
    Procs = {p1}
    Tokens <- MCTokens
    Users <- MCUsers
    UserOf <- MCUserOf
    Groups = {g1}
    Thresholds = {0, 3}
    GroupThreshold = 2
    VersionMod = 3
    None = None
    Ttl = 0
    MaxNow = 1
    MaxKeys = 4
INVARIANT JoinMakesMember
