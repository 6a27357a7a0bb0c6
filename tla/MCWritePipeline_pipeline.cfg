\* Every fault, restart and change of user, three of them; three writes.
CONSTANTS
    alice = alice
    bob = bob
    Accounts = {alice, bob}
    FirstUser = alice
    MayHappen = {"break", "end", "refuse", "tokenFails", "network", "switch", "kill"}
    MaxWrites = 3
    MaxFaults = 3
    MaxPendingWrites = 2
SPECIFICATION FairSpec
INVARIANTS
    TypeOK
    Sound
    Correlated
    OwnAccount
    ToldInOrder
PROPERTIES
    QueuesKept
    EventuallyAnswered
CHECK_DEADLOCK FALSE
