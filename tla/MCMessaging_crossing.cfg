\* Alice and Bob write to each other at the same time, two messages each.
CONSTANTS
    alice = alice
    bob = bob
    phone = phone
    tablet = tablet
    Nobody = Nobody
    NoMessage = NoMessage
    Users = {alice, bob}
    Devices = {phone, tablet}
    Start <- OneEach
    MayHappen = {"reset"}
    MaxSends = 2
    MaxPendingWrites = 2
SPECIFICATION FairSpec
INVARIANTS
    SettledRecents
PROPERTIES
    SentIsDelivered
CHECK_DEADLOCK FALSE
