SPECIFICATION Spec
CONSTANTS
    Nil = Nil
    Alice = Alice
    Bob = Bob
    AuthKey = AuthKey
    Future = Future
    Word = 64
    EpochsToKeepPriorToSendEpoch = 1
    Index16 = 3
    NeedHdr = 1
    NeedEk = 1
    NeedCt1 = 1
    NeedCt2 = 1
    Offers <- OfferPairs
    Params <- Wide
    MaxMessages <- MessagesFor
    MaxLead = 1
    MaxLate = 1
CHECK_DEADLOCK FALSE
INVARIANTS
    MessageKeysAgree
    RefusalsJustified
    ChainTrimmed
    
