SPECIFICATION Spec
CONSTANTS
    Procs = {p1}
    Users = {alice, bob}
    Names = {alice, bob, nobody}
    Remarks = {pal, mate}
    NoRemark = NoRemark
    None = None
INVARIANT RowsAreMutual
