SPECIFICATION Spec
CONSTANTS
    Nil = Nil
    Alice = Alice
    Bob = Bob
    Word = 4
    MaxForwardJumps = 3
    MaxMessageKeys = 2
    MaxReceiverChains = 2
    ArchivedStatesMaxLength = 2
    PreKeyIDs = {1}
    MaxUnacknowledgedSessionAge = 0
    StoreAliases = {}
    MaxSent = 5
    MaxSendKeys = 6
    MaxClock = 0
    Budgets <- OneSession
INVARIANTS
    SessionInv
    RatchetsInStep
