\* The phone shows a chat that the tablet and the partner write to as well.
CONSTANTS
    phone = phone
    tablet = tablet
    partner = partner
    Sources = {phone, tablet, partner}
    Here = phone
    MaxMessages = 4
SPECIFICATION FairSpec
INVARIANTS
    TypeOK
    ShowsView
    SourceOrder
PROPERTIES
    EventuallyShown
