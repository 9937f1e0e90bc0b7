\* Two threads over two files, three ticks with a lifetime of one.
CONSTANTS
    Procs = {p1, p2}
    Ids = {i1, i2}
    Ttl = 1
    MaxNow = 3
    None = None
SYMMETRY StorageSymmetry
SPECIFICATION Spec
INVARIANTS
    MetaHasFile
    NoOrphans
    WipedIsGone
    FreshStaysReadable
