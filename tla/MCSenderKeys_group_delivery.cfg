SPECIFICATION FairSpec
CONSTANTS
    Members = {bob}
    ChainIDs = {1, 2}
    MaxSenderKeyStates = 2
    MaxForwardJumps = 8
    maxMessageKeys = 8
    MaxIteration = 8
    MaxChains = 2
    MaxSent = 3
INVARIANTS
    GroupAnswers
PROPERTIES
    GroupDelivers
