SPECIFICATION Spec
CONSTANTS
    Members = {bob}
    ChainIDs = {1, 2}
    MaxSenderKeyStates = 1
    MaxForwardJumps = 2
    maxMessageKeys = 1
    MaxIteration = 3
    MaxChains = 2
    MaxSent = 4
INVARIANTS
    TypeOK
    GroupInv
PROPERTIES
    KeysOnlyShrink
