\* Everything goes wrong that can.
CONSTANTS
    alice = alice
    bob = bob
    Emails = {alice, bob}
    Nobody = Nobody
    NoView = NoView
    MayHappen = {"kill", "authFails", "fetchFails", "noUrl", "refuse", "news", "chats"}
    MaxJobs = 3
    MaxScreens = 3
SPECIFICATION Spec
INVARIANTS
    TypeOK
    ListNeedsUser
    ScreenOwner
    EnteredWithDocument
    NoOrphan
SYMMETRY Symmetry
CHECK_DEADLOCK FALSE
