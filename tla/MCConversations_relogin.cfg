\* Two accounts log in by turns; listeners of earlier logins may survive.
CONSTANTS
    alice = alice
    dora = dora
    bob = bob
    carol = carol
    Accounts = {alice, dora}
    Partners = {bob, carol}
    None = None
    MayHappen = {"relogin", "survive"}
    MaxMessages = 3
    MaxSessions = 3
SPECIFICATION Spec
INVARIANTS
    CaughtUp
CHECK_DEADLOCK FALSE
