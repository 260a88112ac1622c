SPECIFICATION Spec
CONSTANTS
    Revoked = {2}
    TimeBits = 4
    MaxDevice = 3
    RegistrationIDs = 4
    Senders = {"A"}
    Recipients = {"B", "C"}
    ServerCertificates <- MCServerCertificates
    TrustRoot <- Root
    Forms <- MCForms
    Payloads <- MCPayloads
    RecipientLists <- MCRecipientLists
    MaxClock = 2
    MaxGeneration = 1
    MaxCertificates = 1
    MaxSeals = 1
    MaxOpens = 1
INVARIANTS
    SenderAuthentic
    CertificateInForce
    RefusedForCause
    FanOutAgrees
    
CHECK_DEADLOCK FALSE
