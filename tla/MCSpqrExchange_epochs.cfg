SPECIFICATION FairSpec
CONSTANTS
    Nil = Nil
    Alice = Alice
    Bob = Bob
    AuthKey = AuthKey
    Index16 = 3
    NeedHdr = 2
    NeedEk = 2
    NeedCt1 = 2
    NeedCt2 = 2
    MaxEpoch = 3
INVARIANTS
    EpochsInStep
    NothingRefused
PROPERTIES
    KeyAgreement
    EpochsAdvance
