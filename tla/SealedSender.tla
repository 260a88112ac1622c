---------------------------- MODULE SealedSender ----------------------------
(***************************************************************************)
(* Package sealedsender: certificates, the content wrapper (USMC), and the *)
(* two sealing formats.  A key is a tuple, the agreement of two keys the   *)
(* set of both, a derived key the record of what it is derived from, an    *)
(* encrypted box its key and its content.  A protobuf body is a function   *)
(* on the fields that are present.                                         *)
(***************************************************************************)
EXTENDS Integers, Sequences, FiniteSets, Outcome

CONSTANTS
    Revoked,                    \* revokedServerCertificateKeyIDs
    TimeBits,                   \* 64: the width of an expiration on the wire
    MaxDevice,                  \* 0xFF
    RegistrationIDs             \* 2^14: registration ids are below

hasMoreDevicesFlag == 2 * RegistrationIDs

Agreement(ours, theirs) == {ours, theirs}

\* XEdDSA: who signed and what.
Signature(key, certificate) == [by |-> key, over |-> certificate]

Present(body, fields) == fields \subseteq DOMAIN body

\* The fields of a body, and of more what the body lacks.
With(body, more) ==
    [f \in DOMAIN body \cup DOMAIN more |-> IF f \in DOMAIN body THEN body[f] ELSE more[f]]

\* An optional field: <<>> leaves it out, <<v>> writes v.
Field(name, opt) == IF opt = <<>> THEN <<>> ELSE [f \in {name} |-> opt[1]]
ReadField(body, name) == IF name \in DOMAIN body THEN <<body[name]>> ELSE <<>>

-----------------------------------------------------------------------------
\* certs.go

NewServerCertificate(keyID, key, trustRoot) ==
    LET certificate == [id |-> keyID, key |-> key]
    IN [certificate |-> certificate, signature |-> Signature(trustRoot, certificate)]

ServerCertificateWellFormed(c) ==
    /\ Present(c, {"certificate", "signature"})
    /\ Present(c.certificate, {"id", "key"})

ValidateServer(c, trustRoot) ==
    /\ c.certificate.id \notin Revoked
    /\ c.signature = Signature(trustRoot, c.certificate)

\* The wire field is unsigned; the reader casts it to a signed number.
SignedMillis(expires) ==
    IF expires >= 2^(TimeBits - 1) THEN expires - 2^TimeBits ELSE expires

SignSender(body, signerKey) == [certificate |-> body, signature |-> Signature(signerKey, body)]

NewSenderCertificate(uuid, e164, key, device, expiration, signer, signerKey) ==
    IF expiration < 0 THEN Err("ErrInvalidCertificate")
    ELSE Ok(SignSender(With([uuidString |-> uuid, senderDevice |-> device,
                             expires |-> expiration, identityKey |-> key,
                             signerCertificate |-> signer], Field("senderE164", e164)),
                       signerKey))

\* The sender certificate as its reader shows it; signer or signerID is there.
DeserializeSenderCertificate(c) ==
    LET body     == c.certificate
        embedded == "signerCertificate" \in DOMAIN body
    IN IF \/ ~Present(c, {"certificate", "signature"})
          \/ ~Present(body, {"senderDevice", "expires", "identityKey"})
          \/ ~embedded /\ "signerID" \notin DOMAIN body
          \/ embedded /\ ~ServerCertificateWellFormed(body.signerCertificate)
          \/ "uuidString" \notin DOMAIN body
               /\ ("uuidBytes" \notin DOMAIN body \/ body.uuidBytes.length # 16)
       THEN Err("ErrInvalidCertificate")
       ELSE Ok([signer |-> ReadField(body, "signerCertificate"),
                signerID |-> ReadField(body, "signerID"),
                key |-> body.identityKey, device |-> body.senderDevice,
                uuid |-> IF "uuidString" \in DOMAIN body THEN body.uuidString
                                                         ELSE body.uuidBytes.uuid,
                e164 |-> ReadField(body, "senderE164"),
                expiration |-> SignedMillis(body.expires),
                certificate |-> body, signature |-> c.signature])

\* Validation in which a certificate is good until after its last moment.
ValidateSenderLate(c, trustRoot, now) ==
    IF c.signer = <<>> THEN Err("ErrUnknownServerCertificateID")
    ELSE Ok(/\ ValidateServer(c.signer[1], trustRoot)
            /\ c.signature = Signature(c.signer[1].certificate.key, c.certificate)
            /\ now <= c.expiration + 1)

ValidateSender(c, trustRoot, now) ==
    IF c.signer = <<>> THEN Err("ErrUnknownServerCertificateID")
    ELSE Ok(/\ ValidateServer(c.signer[1], trustRoot)
            /\ c.signature = Signature(c.signer[1].certificate.key, c.certificate)
            /\ ~(now > c.expiration))

-----------------------------------------------------------------------------
\* usmc.go: the protocol's message types and the proto's numbers for them.

ProtoTypes == [t \in {2, 3, 7, 8} |-> IF t = 3 THEN 1 ELSE t]

usmcTypeToProto(t) == ProtoTypes[t]
usmcTypeFromProto(p) == CHOOSE t \in DOMAIN ProtoTypes : ProtoTypes[t] = p

ContentHintDefault == 0

\* Contents and group id are optional fields; nil contents leave the field out.
NewUSMC(t, sender, contents, hint, groupID) ==
    IF t \notin DOMAIN ProtoTypes THEN Err("ErrInvalidUSMC")
    ELSE Ok(With(With(With([type |-> usmcTypeToProto(t), senderCertificate |-> sender],
                           Field("content", contents)),
                      Field("contentHint", IF hint = ContentHintDefault THEN <<>> ELSE <<hint>>)),
                 Field("groupId", groupID)))

DeserializeUSMC(body) ==
    LET sender == DeserializeSenderCertificate(body.senderCertificate)
    IN IF \/ ~Present(body, {"type", "senderCertificate", "content"})
          \/ body.type \notin {ProtoTypes[t] : t \in DOMAIN ProtoTypes}
          \/ ~sender.ok
       THEN Err("ErrInvalidUSMC")
       ELSE Ok([type |-> usmcTypeFromProto(body.type), sender |-> sender.value,
                contents |-> ReadField(body, "content"),
                hint |-> IF "contentHint" \in DOMAIN body THEN body.contentHint
                                                          ELSE ContentHintDefault,
                groupID |-> ReadField(body, "groupId")])

-----------------------------------------------------------------------------
\* v1.go: one recipient.  AES-CTR with a truncated HMAC: opens under its key.

Box(key, plain) == [key |-> key, plain |-> plain]

calculateV1EphemeralKeys(ours, theirs, dir) ==
    [shared |-> Agreement(ours, theirs),
     salt |-> IF dir = "sending" THEN <<theirs, ours>> ELSE <<ours, theirs>>]

calculateV1StaticKeys(ours, theirs, chainKey, ctext) ==
    [shared |-> Agreement(ours, theirs), salt |-> <<chainKey, ctext>>]

SealV1(usmc, ourIdentity, theirIdentity, ephemeral) ==
    LET ephKeys     == calculateV1EphemeralKeys(ephemeral, theirIdentity, "sending")
        staticCtext == Box(ephKeys, ourIdentity)
        staticKeys  == calculateV1StaticKeys(ourIdentity, theirIdentity, ephKeys, staticCtext)
    IN [version |-> 17, ephemeralPublic |-> ephemeral, encryptedStatic |-> staticCtext,
        encryptedMessage |-> Box(staticKeys, usmc)]

decryptV1(m, ourIdentity) ==
    LET ephKeys    == calculateV1EphemeralKeys(ourIdentity, m.ephemeralPublic, "receiving")
        sender     == m.encryptedStatic.plain
        staticKeys == calculateV1StaticKeys(ourIdentity, sender, ephKeys, m.encryptedStatic)
        usmc       == DeserializeUSMC(m.encryptedMessage.plain)
    IN IF m.encryptedStatic.key # ephKeys \/ m.encryptedMessage.key # staticKeys
       THEN Err("ErrBadCiphertext")
       ELSE IF ~usmc.ok THEN usmc
       ELSE IF sender # usmc.value.sender.key THEN Err("ErrInvalidSealedSenderMessage")
       ELSE usmc

-----------------------------------------------------------------------------
\* v2.go: many recipients.  The message seed M and the masks that are on it:
\* XOR with a stream puts the stream on or takes it off.

Seed(n) == [n |-> n, masks |-> {}]

deriveE(m) == <<"ephemeral", IF m.masks = {} THEN "" ELSE "garbled", m.n>>
deriveK(m) == [label |-> "K", of |-> m]

\* The stream of one side, whichever direction the message goes.
applyAgreementXorOneWay(ours, theirs, dir, input) ==
    LET stream == [agreement |-> Agreement(ours, theirs), order |-> <<ours, theirs>>]
    IN [input EXCEPT !.masks = (@ \ {stream}) \cup ({stream} \ @)]

applyAgreementXor(ours, theirs, dir, input) ==
    LET stream == [agreement |-> Agreement(ours, theirs),
                   order |-> IF dir = "sending" THEN <<ours, theirs>> ELSE <<theirs, ours>>]
    IN [input EXCEPT !.masks = (@ \ {stream}) \cup ({stream} \ @)]

computeAuthenticationTag(ours, theirs, dir, ephemeral, c) ==
    [agreement |-> Agreement(ours, theirs), ephemeral |-> ephemeral, c |-> c,
     order |-> IF dir = "sending" THEN <<ours, theirs>> ELSE <<theirs, ours>>]

\* Opening that takes the authentication tag for granted.
decryptV2Untagged(m, ourIdentity) ==
    LET seed == applyAgreementXor(ourIdentity, m.ephemeral, "receiving", m.c)
    IN IF deriveE(seed) # m.ephemeral THEN Err("ErrInvalidSealedSenderMessage")
       ELSE IF m.ciphertext.key # deriveK(seed) THEN Err("ErrBadCiphertext")
       ELSE DeserializeUSMC(m.ciphertext.plain)

decryptV2Received(m, ourIdentity) ==
    LET seed == applyAgreementXor(ourIdentity, m.ephemeral, "receiving", m.c)
        usmc == DeserializeUSMC(m.ciphertext.plain)
    IN IF deriveE(seed) # m.ephemeral THEN Err("ErrInvalidSealedSenderMessage")
       ELSE IF m.ciphertext.key # deriveK(seed) THEN Err("ErrBadCiphertext")
       ELSE IF ~usmc.ok THEN usmc
       ELSE IF m.at # computeAuthenticationTag(ourIdentity, usmc.value.sender.key, "receiving",
                                               m.ephemeral, m.c)
       THEN Err("ErrInvalidSealedSenderMessage")
       ELSE usmc

\* The groups of encodeV2SentMessage: runs of entries with one service id.
GroupStarts(recipients) ==
    {i \in DOMAIN recipients : i = 1 \/ recipients[i - 1].serviceID # recipients[i].serviceID}
GroupEnd(recipients, start) ==
    CHOOSE j \in start..Len(recipients) :
        /\ \A k \in start..j : recipients[k].serviceID = recipients[start].serviceID
        /\ j = Len(recipients) \/ recipients[j + 1].serviceID # recipients[start].serviceID

\* The checks of the encoder without the one on the devices' identity keys.
EncodableAnyKey(recipients) ==
    \A i \in DOMAIN recipients :
        /\ recipients[i].deviceID \in 1..MaxDevice
        /\ recipients[i].registrationID < RegistrationIDs

Encodable(recipients) ==
    \A s \in GroupStarts(recipients) : \A d \in s..GroupEnd(recipients, s) :
        /\ recipients[d].identityKey = recipients[s].identityKey
        /\ recipients[d].deviceID \in 1..MaxDevice
        /\ recipients[d].registrationID < RegistrationIDs

\* One block: service id, the devices, each but the last marked, C and AT.
PerRecipientData(recipients, per, start) ==
    LET end == GroupEnd(recipients, start)
    IN <<recipients[start].serviceID>>
       \o [d \in 1..end - start + 1 |->
             <<recipients[start + d - 1].deviceID,
               recipients[start + d - 1].registrationID
                 + (IF start + d - 1 = end THEN 0 ELSE hasMoreDevicesFlag)>>]
       \o <<per[start].c, per[start].at>>

encodeV2SentMessage(recipients, per, ephemeral, ciphertext) ==
    LET blocks[i \in 0..Len(recipients)] ==
            IF i = 0 THEN <<>>
            ELSE blocks[i - 1] \o (IF i \in GroupStarts(recipients)
                                   THEN PerRecipientData(recipients, per, i) ELSE <<>>)
    IN <<Cardinality(GroupStarts(recipients))>> \o blocks[Len(recipients)]
       \o <<ephemeral, ciphertext>>

SealV2(usmc, recipients, ourIdentity, n) ==
    LET m   == Seed(n)
        e   == deriveE(m)
        box == Box(deriveK(m), usmc)
        C(i) == applyAgreementXor(e, recipients[i].identityKey, "sending", m)
        per == [i \in DOMAIN recipients |->
                  [c |-> C(i), at |-> computeAuthenticationTag(ourIdentity,
                                        recipients[i].identityKey, "sending", e, C(i))]]
    IN IF recipients = <<>> \/ ~Encodable(recipients) THEN Err("ErrInvalidUSMC")
       ELSE Ok([serialized |-> encodeV2SentMessage(recipients, per, e, box),
                ephemeral |-> e, ciphertext |-> box, perRecipient |-> per])

\* Every recipient gets the first one's C and AT.
ReceivedMessageForFirst(sent, i) ==
    [version |-> 34, c |-> sent.perRecipient[1].c, at |-> sent.perRecipient[1].at,
     ephemeral |-> sent.ephemeral, ciphertext |-> sent.ciphertext]

ReceivedMessageForRecipient(sent, i) ==
    [version |-> 34, c |-> sent.perRecipient[i].c, at |-> sent.perRecipient[i].at,
     ephemeral |-> sent.ephemeral, ciphertext |-> sent.ciphertext]

-----------------------------------------------------------------------------
\* decrypt.go

DecryptToUSMC(m, ourIdentity) ==
    IF m.version \div 16 \in {0, 1} THEN decryptV1(m, ourIdentity)
    ELSE IF m.version \div 16 = 2 THEN decryptV2Received(m, ourIdentity)
    ELSE Err("ErrUnknownVersion")

DecryptToUSMCAndValidate(m, ourIdentity, trustRoot, now) ==
    LET usmc  == DecryptToUSMC(m, ourIdentity)
        valid == ValidateSender(usmc.value.sender, trustRoot, now)
    IN IF ~usmc.ok THEN usmc
       ELSE IF ~valid.ok THEN valid
       ELSE IF ~valid.value THEN Err("ErrInvalidCertificate")
       ELSE usmc

=============================================================================
