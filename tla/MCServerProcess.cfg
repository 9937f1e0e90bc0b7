SPECIFICATION FairSpec
CONSTANTS
    c1 = c1
    c2 = c2
    Clients = {c1, c2}
    TokenOf <- MCTokenOf
    Calls <- MCCalls
    Mail <- MCMail
    FriendLists <- MCFriendLists
    RecvLimit = 28
    Backlog = 2
    Byte = 4
    Magic = 201
    Version = 1
    Sections = {"mode", "mysql", "server", "other"}
    Values = {0, 1, 3}
    MaxPort = 2
    DefaultThreshold = 2
    DbPassword <- MCDbPassword
    Registries <- MCRegistries
    Colon = 0
    Sha256Hex <- MCSha256Hex
INVARIANTS CallsUnderstood VerdictsJust SocketOutlivesWorker
PROPERTIES StopReturns
CHECK_DEADLOCK FALSE
