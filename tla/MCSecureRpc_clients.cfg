SPECIFICATION FairSpec
CONSTANTS
    Clients = {c1, c2}
    Tokens = {t1, t2}
    Users = {u1, u2}
    Ops = {"heartbeat"}
    None = None
    Ttl = 0
    MaxCalls = 1
    MaxNow = 0
INVARIANTS
    ChannelsKeyed
PROPERTIES
    CallsReturn
