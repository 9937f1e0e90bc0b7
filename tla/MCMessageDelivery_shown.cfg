SPECIFICATION FairDeliverySpec
CONSTANTS
    Worker = worker
    Cleaner = cleaner
    Procs = {worker, cleaner}
    Users = {alice, bob}
    Msgs = {m1}
    Ttls = {0}
    DefaultTtl = 0
    MaxNow = 1
    None = None
    Writers = {alice}
    Readers = {bob}
    MaxLogins = 2
    MaxUnrun = 1
PROPERTY QueuedIsShown
