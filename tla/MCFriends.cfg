SPECIFICATION Spec
CONSTANTS
    Procs = {p1, p2}
    Users = {alice, bob}
    Names = {alice, bob, nobody}
    Remarks = {pal, mate}
    NoRemark = NoRemark
    None = None
SYMMETRY FriendsSymmetry
INVARIANTS TypeOK RemarksOfFriends SuccessIsMutual
PROPERTIES OwnRemarksOnly
