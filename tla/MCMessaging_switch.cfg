\* One device, two accounts that sign out and in on it, two sends.
CONSTANTS
    alice = alice
    bob = bob
    phone = phone
    tablet = tablet
    Nobody = Nobody
    NoMessage = NoMessage
    Users = {alice, bob}
    Devices = {phone}
    Start <- OneEach
    MayHappen = {"kill", "switch"}
    MaxSends = 2
    MaxPendingWrites = 2
SPECIFICATION Spec
INVARIANTS
    FanOutOnce
PROPERTIES
    DeliveryKept
CHECK_DEADLOCK FALSE
