---------------------------- MODULE WireMessages ----------------------------
(***************************************************************************)
(* The wire messages of package protocol.  A protobuf body is a function   *)
(* on the fields that are present; a byte string that may be empty is a    *)
(* sequence, an optional integer a sequence of at most one element.  What  *)
(* is sent is the record of its version byte, its body, and the MAC or     *)
(* signature that trails it; "cut" tells that it is below the minimum      *)
(* length, a body Nil that it does not unmarshal.                          *)
(***************************************************************************)
EXTENDS Integers, Sequences, TLC, Outcome

CONSTANTS
    Nil,
    PublicKeys                  \* the keys curve.DeserializePublicKey accepts

CurrentVersion          == 4
PreKyberVersion         == 3
SenderKeyCurrentVersion == 3
plaintextContentIdentifierByte == 192

Nibble == 16

\* proto.Marshal of a bytes field: nil, and what append makes of an empty
\* slice, is absent.
Bytes(field, b) == IF b = <<>> THEN <<>> ELSE field :> b

\* An optional integer: the pointer is nil or the field is there.
Optional(field, p) == IF p = <<>> THEN <<>> ELSE field :> p[1]

Has(body, fields) == body # Nil /\ fields \subseteq DOMAIN body

\* The generated getters: the value, or the default when it is absent.
Get(body, field, default) == IF field \in DOMAIN body THEN body[field] ELSE default

Pointer(body, field) == IF field \in DOMAIN body THEN <<body[field]>> ELSE <<>>

-----------------------------------------------------------------------------
\* version.go

encodeVersionByte(messageVersion, currentVersion) ==
    (messageVersion % Nibble) * Nibble + (currentVersion % Nibble)

decodeVersion(versionByte) ==
    LET v == versionByte \div Nibble
    IN IF v < PreKyberVersion THEN Err("ErrLegacyVersion")
       ELSE IF v > CurrentVersion THEN Err("ErrUnrecognizedVersion")
       ELSE Ok(v)

senderKeyVersion(versionByte) ==
    LET v == versionByte \div Nibble
    IN IF v < SenderKeyCurrentVersion THEN Err("ErrLegacyVersion")
       ELSE IF v > SenderKeyCurrentVersion THEN Err("ErrUnrecognizedVersion")
       ELSE Ok(v)

Wire(byte, body, tag) == [cut |-> FALSE, byte |-> byte, body |-> body, tag |-> tag]

\* What a MAC or a signature covers: the version byte and the body.
Content(wire) == [byte |-> wire.byte, body |-> wire.body]

-----------------------------------------------------------------------------
\* SignalMessage

\* A MAC that leaves the version byte out.
computeSignalMessageMACUnversioned(sender, receiver, macKey, content) ==
    <<"mac", macKey, sender, receiver, content.body>>

computeSignalMessageMAC(sender, receiver, macKey, content) ==
    <<"mac", macKey, sender, receiver, content>>

NewSignalMessage(m) ==
    LET body == [ratchetKey |-> m.ratchetKey, counter |-> m.counter,
                 previousCounter |-> m.previousCounter]
                @@ Bytes("ciphertext", m.ciphertext)
                @@ Bytes("pqRatchet", m.pqRatchet)
                @@ Bytes("addresses", m.addresses)
        byte == encodeVersionByte(m.version, CurrentVersion)
    IN Wire(byte, body,
            computeSignalMessageMAC(m.sender, m.receiver, m.macKey,
                                    [byte |-> byte, body |-> body]))

DeserializeSignalMessage(wire) ==
    LET version == decodeVersion(wire.byte)
        body    == wire.body
    IN IF wire.cut THEN Err("ErrCiphertextTooShort")
       ELSE IF ~version.ok THEN version
       ELSE IF \/ ~Has(body, {"ratchetKey", "counter", "ciphertext"})
               \/ body.ratchetKey \notin PublicKeys
       THEN Err("ErrInvalidProtobuf")
       ELSE Ok([version |-> version.value, ratchetKey |-> body.ratchetKey,
                    counter |-> body.counter,
                    previousCounter |-> Get(body, "previousCounter", 0),
                    ciphertext |-> body.ciphertext,
                    pqRatchet |-> Get(body, "pqRatchet", <<>>),
                    addresses |-> Get(body, "addresses", <<>>)])

VerifyMAC(wire, sender, receiver, macKey) ==
    wire.tag = computeSignalMessageMAC(sender, receiver, macKey, Content(wire))

-----------------------------------------------------------------------------
\* PreKeySignalMessage: no MAC of its own, the inner message carries one.

NewPreKeySignalMessage(m) ==
    Wire(encodeVersionByte(m.version, CurrentVersion),
         [registrationId |-> m.registrationId, signedPreKeyId |-> m.signedPreKeyId,
          baseKey |-> m.baseKey, identityKey |-> m.identityKey,
          message |-> NewSignalMessage(m.message)]
         @@ Optional("preKeyId", m.preKeyId)
         @@ Optional("kyberPreKeyId", m.kyberPreKeyId)
         @@ Bytes("kyberCiphertext", m.kyberCiphertext),
         Nil)

\* Both parts, or at a version before Kyber neither.
KyberPayload(body, version) ==
    LET present == {"kyberPreKeyId", "kyberCiphertext"} \cap DOMAIN body
    IN \/ present = {"kyberPreKeyId", "kyberCiphertext"}
       \/ present = {} /\ version <= PreKyberVersion

DeserializePreKeySignalMessage(wire) ==
    LET version == decodeVersion(wire.byte)
        body    == wire.body
        inner   == DeserializeSignalMessage(body.message)
    IN IF wire.cut THEN Err("ErrCiphertextTooShort")
       ELSE IF ~version.ok THEN version
       ELSE IF \/ ~Has(body, {"baseKey", "identityKey", "message", "signedPreKeyId"})
               \/ ~({body.baseKey, body.identityKey} \subseteq PublicKeys)
       THEN Err("ErrInvalidProtobuf")
       ELSE IF ~KyberPayload(body, version.value) THEN Err("ErrInvalidMessage")
       ELSE IF ~inner.ok THEN inner
       ELSE Ok([version |-> version.value,
                    registrationId |-> Get(body, "registrationId", 0),
                    preKeyId |-> Pointer(body, "preKeyId"),
                    signedPreKeyId |-> body.signedPreKeyId,
                    kyberPreKeyId |-> Pointer(body, "kyberPreKeyId"),
                    kyberCiphertext |-> Get(body, "kyberCiphertext", <<>>),
                    baseKey |-> body.baseKey, identityKey |-> body.identityKey,
                    message |-> inner.value])

-----------------------------------------------------------------------------
\* The sender-key family

NewSenderKeyMessage(m) ==
    LET byte == encodeVersionByte(SenderKeyCurrentVersion, SenderKeyCurrentVersion)
        body == [distributionUuid |-> m.distributionID, chainId |-> m.chainID,
                 iteration |-> m.iteration, ciphertext |-> m.ciphertext]
    IN Wire(byte, body, <<"sig", m.signatureKey, [byte |-> byte, body |-> body]>>)

DeserializeSenderKeyMessage(wire) ==
    LET version == senderKeyVersion(wire.byte)
        body    == wire.body
    IN IF wire.cut THEN Err("ErrCiphertextTooShort")
       ELSE IF ~version.ok THEN version
       ELSE IF ~Has(body, {"distributionUuid", "chainId", "iteration", "ciphertext"})
       THEN Err("ErrInvalidProtobuf")
       ELSE Ok([version |-> version.value, distributionID |-> body.distributionUuid,
                    chainID |-> body.chainId, iteration |-> body.iteration,
                    ciphertext |-> body.ciphertext])

VerifySignature(wire, key) == wire.tag = <<"sig", key, Content(wire)>>

NewSenderKeyDistributionMessage(m) ==
    Wire(encodeVersionByte(SenderKeyCurrentVersion, SenderKeyCurrentVersion),
         [distributionUuid |-> m.distributionID, chainId |-> m.chainID,
          iteration |-> m.iteration, chainKey |-> m.chainKey, signingKey |-> m.signingKey],
         Nil)

DeserializeSenderKeyDistributionMessage(wire) ==
    LET version == senderKeyVersion(wire.byte)
        body    == wire.body
    IN IF wire.cut THEN Err("ErrCiphertextTooShort")
       ELSE IF ~version.ok THEN version
       ELSE IF \/ ~Has(body, {"distributionUuid", "chainId", "iteration", "chainKey",
                              "signingKey"})
               \/ body.signingKey \notin PublicKeys
       THEN Err("ErrInvalidProtobuf")
       ELSE Ok([version |-> version.value, distributionID |-> body.distributionUuid,
                    chainID |-> body.chainId, iteration |-> body.iteration,
                    chainKey |-> body.chainKey, signingKey |-> body.signingKey])

-----------------------------------------------------------------------------
\* DecryptionErrorMessage: a bare body.  PlaintextContent wraps one between
\* an identifier byte and a padding boundary.

NewDecryptionErrorMessage(m) ==
    [timestamp |-> m.timestamp, deviceId |-> m.deviceID]
    @@ Optional("ratchetKey", m.ratchetKey)

DeserializeDecryptionErrorMessage(body) ==
    IF \/ ~Has(body, {"timestamp"})
       \/ "ratchetKey" \in DOMAIN body /\ body.ratchetKey \notin PublicKeys
    THEN Err("ErrInvalidProtobuf")
    ELSE Ok([timestamp |-> body.timestamp, deviceID |-> Get(body, "deviceId", 0),
                 ratchetKey |-> Pointer(body, "ratchetKey")])

NewPlaintextContentFromDecryptionError(m) ==
    Wire(plaintextContentIdentifierByte, NewDecryptionErrorMessage(m), "0x80")

DeserializePlaintextContent(wire) ==
    IF wire.cut THEN Err("ErrCiphertextTooShort")
    ELSE IF wire.byte # plaintextContentIdentifierByte THEN Err("ErrUnrecognizedVersion")
    ELSE Ok(wire.body)

=============================================================================
