\* The loader of one account: wrong accounts, no URL, no document, no messages.
CONSTANTS
    alice = alice
    bob = bob
    Emails = {alice}
    Nobody = Nobody
    NoView = NoView
    MayHappen = {"noUrl", "news", "chats"}
    MaxJobs = 4
    MaxScreens = 2
SPECIFICATION FairSpec
PROPERTIES
    Uncovered
CHECK_DEADLOCK FALSE
