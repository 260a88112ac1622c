SPECIFICATION Spec
CONSTANTS
    Nil = Nil
    Alice = Alice
    Bob = Bob
    Word = 64
    MaxForwardJumps = 8
    MaxMessageKeys = 8
    MaxReceiverChains = 5
    ArchivedStatesMaxLength = 1
    PreKeyIDs = {1}
    MaxUnacknowledgedSessionAge = 0
    StoreAliases = {Alice}
    MaxSent = 2
    MaxSendKeys = 5
    MaxClock = 0
    Budgets <- SomeSessions
INVARIANTS
    TypeOK
    SessionInv
    AcknowledgedByPeer
    CurrentSessionAccepts
    CurrentIdentityKnown
PROPERTIES
    TrustOnFirstUse
