\* Every codec: one value written, at most one fault, one reading.
SPECIFICATION Spec
CONSTANTS
    Nil = Nil
    PublicKeys = {"k1", "k2"}
    GroupBits = 2
    WordBits = 5
    MaxVarintBytes = 3
    IndexBits = 3
    ChunkIndexBits = 2
    ChunkSize = 1
    UUIDLen = 2
    hyphenPositions = {2}
    Sha512 <- MCSha512
    ByteSize = 4
    displayChunks = 2
    displayChunkBytes = 2
    DisplayModulus = 10
    DisplayDigits = 2
    DigitBase = 10
    scannableContentLen = 4
    maxIterations = 3
    Letters <- MCLetters
    Capitals <- MCCapitals
    Digits <- MCDigits
    maxNicknameLength = 3
    ScalarOrder = 97
    DiscriminatorLimit = 8
    linkAESBlockSize = 8
    linkIVSize = 8
    linkHMACLen = 16
    SignalMessages <- MCSignalMessages
    PreKeySignalMessages <- MCPreKeySignalMessages
    SenderKeyMessages <- MCSenderKeyMessages
    DistributionMessages <- MCDistributionMessages
    DecryptionErrors <- MCDecryptionErrors
    SpqrMessages <- MCSpqrMessages
    ServiceIDs <- MCServiceIDs
    SafetyViews <- MCSafetyViews
    UsernameTexts <- MCUsernameTexts
    Links <- MCLinks
    CurveKeyLength = 3
    KemPublicLength = 2
    KemSecretLength = 3
    KemCiphertextLength = 2
    accountEntropyPoolLen = 2
    MaxSeconds <- MCMaxSeconds
    AES <- MCAES
    AESInverse <- MCAESInverse
    ByteBits = 3
    HalfBytes = 2
    CounterBytes = 1
    PolyvalOffsets = {11, 8, 6, 0}
    xInv = {4, 6, 8, 10, 11}
    maxPlaintextLen = 9
    maxADLen = 9
    CurveKeys <- MCCurveKeys
    KemSeeds <- MCKemSeeds
    EntropyBytes <- MCEntropyBytes
    Pins <- MCPins
    MasterKeys <- MCMasterKeys
    Metadata <- MCMetadata
    ForeignPlaintexts <- MCForeignPlaintexts
    CbcTexts <- MCCbcTexts
    Streams <- MCStreams
    HashInputs <- MCHashInputs
    SivTexts <- MCSivTexts
    CipherBytes <- MCCipherBytes
    VersionBytes <- MCVersionBytes
    Chars <- MCChars
CHECK_DEADLOCK FALSE
INVARIANTS
    
    
    NamesUnambiguous
    SafetyNumbersAgree
    AccountSecretsKept
    CiphersExact
