SPECIFICATION DeliverySpec
CONSTANTS
    Worker = worker
    Cleaner = cleaner
    Procs = {worker, cleaner}
    Users = {alice, bob}
    Msgs = {m1, m2}
    Ttls = {0}
    DefaultTtl = 0
    MaxNow = 0
    None = None
    Writers = {alice}
    Readers = {bob}
    MaxLogins = 2
    MaxUnrun = 2
SYMMETRY MsgSymmetry
INVARIANTS DeliveryTypeOK ShownInOrder SenderOrderKept SentMeansQueued LossNeedsFault
