\* Four writes in a row, the backend refuses one of them.
CONSTANTS
    alice = alice
    bob = bob
    Accounts = {alice, bob}
    FirstUser = alice
    MayHappen = {"refuse"}
    MaxWrites = 4
    MaxFaults = 1
    MaxPendingWrites = 10
SPECIFICATION Spec
INVARIANTS
    RejectedWasRefused
CHECK_DEADLOCK FALSE
