\* Alice writes two messages to Bob; kills, breaks of the stream, refusals.
CONSTANTS
    alice = alice
    bob = bob
    phone = phone
    tablet = tablet
    Nobody = Nobody
    NoMessage = NoMessage
    Users = {alice, bob}
    Devices = {phone}
    Start <- OneEach
    MayHappen = {"kill", "reset", "reject"}
    MaxSends = 2
    MaxPendingWrites = 2
SPECIFICATION FairSpec
INVARIANTS
    TypeOK
    OwnSettledFirst
    ClearedMeansDelivered
    RecentsBacked
PROPERTIES
    DeliveryKept
    SentIsSettled
CHECK_DEADLOCK FALSE
