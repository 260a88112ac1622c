SPECIFICATION FairSpec
CONSTANTS
    Nil = Nil
    Alice = Alice
    Bob = Bob
    Word = 64
    MaxForwardJumps = 8
    MaxMessageKeys = 8
    MaxReceiverChains = 5
    ArchivedStatesMaxLength = 2
    PreKeyIDs = {1}
    MaxUnacknowledgedSessionAge = 0
    StoreAliases = {}
    MaxSent = 3
    MaxSendKeys = 5
    MaxClock = 0
    Budgets <- OneSession
PROPERTIES
    EventuallyDelivered
    HandshakeCompletes
