SPECIFICATION Spec
CONSTANTS
    site1 = site1
    site2 = site2
    youtube = youtube
    empty = empty
    Sites <- MCSites
    YouTube = youtube
    Results = site2
    Empty = empty
    Submits <- MCSubmits
    MaxNotices <- MCMaxNotices
INVARIANTS
    TypeOK
    OneView
    OmniboxNamesPage
