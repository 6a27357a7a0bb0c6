\* Three texts, three taps on Send, two chats; uploads fail and the app is killed.
CONSTANTS
    MaxTexts = 3
    MaxSends = 3
    MaxChats = 2
SPECIFICATION FairSpec
INVARIANTS
    TypeOK
    LostOnlyInHaste
PROPERTIES
    EventuallyEmptied
