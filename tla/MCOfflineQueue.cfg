SPECIFICATION Spec
CONSTANTS
    Procs = {p1, p2}
    Users = {alice, bob}
    Msgs = {m1, m2, m3}
    Ttls = {0, 2}
    DefaultTtl = 1
    MaxNow = 3
SYMMETRY QueueSymmetry
INVARIANTS PushOrderKept LifetimesHonoured
