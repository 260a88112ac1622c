SPECIFICATION Spec
CONSTANTS
    Nil = Nil
    Alice = Alice
    Bob = Bob
    Word = 64
    MaxForwardJumps = 8
    MaxMessageKeys = 8
    MaxReceiverChains = 5
    ArchivedStatesMaxLength = 1
    PreKeyIDs = {1}
    MaxUnacknowledgedSessionAge = 0
    StoreAliases = {}
    MaxSent = 2
    MaxSendKeys = 5
    MaxClock = 0
    Budgets <- SavedReplay
PROPERTIES
    RejectedReplayChangesNothing
