CONSTANTS
    ann = ann
    ben = ben
    cid = cid
    Directory <- AllUsers
    NoPicture = {ben}
    Nobody = Nobody
    Texts = {"", "c"}
    Hits <- Matches
    Cells = {c1, c2}
    Height = 2
    MaxMoves = 3
    MaxDownloads = 2
    MaxFailures = 1
SPECIFICATION FairSpec
INVARIANTS
    TypeOK
    RowsTrue
    RightPicture
PROPERTIES
    RequestsEnd
CHECK_DEADLOCK FALSE
