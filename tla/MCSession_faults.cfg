SPECIFICATION Spec
CONSTANTS
    Nil = Nil
    Alice = Alice
    Bob = Bob
    Word = 64
    MaxForwardJumps = 8
    MaxMessageKeys = 8
    MaxReceiverChains = 5
    ArchivedStatesMaxLength = 2
    PreKeyIDs = {1}
    MaxUnacknowledgedSessionAge = 0
    StoreAliases = {Bob}
    MaxSent = 2
    MaxSendKeys = 5
    MaxClock = 1
    Budgets <- StoreFaults
INVARIANTS
    SendingInv
    AcceptedKeysSpent
PROPERTIES
    
    ImplementsChannel
