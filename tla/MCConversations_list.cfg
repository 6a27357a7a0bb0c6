\* One login: the user writes, is refused, requests stay unanswered, the app restarts.
CONSTANTS
    alice = alice
    dora = dora
    bob = bob
    carol = carol
    Accounts = {alice}
    Partners = {bob, carol}
    None = None
    MayHappen = {"send", "refuse", "fail", "relaunch"}
    MaxMessages = 3
    MaxSessions = 1
SPECIFICATION FairSpec
INVARIANTS
    TypeOK
    CaughtUp
PROPERTIES
    NoRegress
    EventuallyShown
CHECK_DEADLOCK FALSE
