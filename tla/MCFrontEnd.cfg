SPECIFICATION FairFrontEndSpec
CONSTANTS
    Names = {ann, placeholder}
    Reserved = {placeholder}
    PlaceholderId = placeholder
    System = system
    NoName = NoName
    MaxArrived = 2
    Remarks = {friend}
    NoRemark = NoRemark
    MaxSent = 1
INVARIANTS RowsUnique RemarkHitsItsRow WindowShowsArrivals BadgesCount AgreedBeforeLogin
PROPERTIES ArrivalsGetListed
CHECK_DEADLOCK FALSE
