------------------------ MODULE SealedDeliveryProofs ------------------------
(***************************************************************************)
(* What opens is authentic and vouched for, and what does not open is      *)
(* refused for a cause: for every number of users, certificates, forms,    *)
(* payloads and recipients.                                                *)
(***************************************************************************)
EXTENDS SealedDelivery, TLAPS

-----------------------------------------------------------------------------
\* Fields

\* With keeps the fields of its first argument and adds those of the second.
LEMMA WithFields ==
    ASSUME NEW f, NEW g
    PROVE  /\ DOMAIN With(f, g) = DOMAIN f \cup DOMAIN g
           /\ \A x \in DOMAIN f : With(f, g)[x] = f[x]
           /\ \A x \in DOMAIN g \ DOMAIN f : With(f, g)[x] = g[x]
BY DEF With

\* An optional field is there when its value is.
LEMMA FieldRead ==
    ASSUME NEW name, NEW opt, opt = <<>> \/ opt = <<opt[1]>>
    PROVE  /\ DOMAIN Field(name, opt) = IF opt = <<>> THEN {} ELSE {name}
           /\ opt # <<>> => Field(name, opt)[name] = opt[1]
<1>1. CASE opt = <<>>
    BY <1>1 DEF Field
<1>2. CASE opt # <<>>
    BY <1>2 DEF Field
<1> QED
    BY <1>1, <1>2

\* What a payload is wrapped in (NewUnidentifiedSenderMessageContent), as its
\* reader finds it.
LEMMA WrappedFields ==
    ASSUME NEW m, m.payload \in Payloads, m.payload.type \in DOMAIN ProtoTypes
    PROVE  LET p == m.payload
               b == Plain(m)
           IN  /\ Present(b, {"type", "senderCertificate"})
               /\ b.type = ProtoTypes[p.type]
               /\ b.senderCertificate = m.certificate
               /\ "content" \in DOMAIN b <=> p.contents # <<>>
               /\ ReadField(b, "content") = p.contents
               /\ (IF "contentHint" \in DOMAIN b THEN b.contentHint ELSE ContentHintDefault)
                     = p.hint
               /\ ReadField(b, "groupId") = p.groupID
<1> DEFINE p == m.payload
           c == m.certificate
           hint == IF p.hint = ContentHintDefault THEN <<>> ELSE <<p.hint>>
           f1 == Field("content", p.contents)
           f2 == Field("contentHint", hint)
           f3 == Field("groupId", p.groupID)
           b0 == [type |-> usmcTypeToProto(p.type), senderCertificate |-> c]
           b1 == With(b0, f1)
           b2 == With(b1, f2)
           b3 == With(b2, f3)
<1>1. Plain(m) = b3
    BY DEF Plain, NewUSMC, Ok
<1>2. /\ p.contents = <<>> \/ p.contents = <<p.contents[1]>>
      /\ p.groupID = <<>> \/ p.groupID = <<p.groupID[1]>>
      /\ hint = <<>> \/ hint = <<hint[1]>>
    BY PayloadsAssumption
<1>3. /\ DOMAIN f1 = IF p.contents = <<>> THEN {} ELSE {"content"}
      /\ p.contents # <<>> => f1["content"] = p.contents[1]
    BY <1>2, FieldRead, Zenon
<1>4. /\ DOMAIN f2 = IF hint = <<>> THEN {} ELSE {"contentHint"}
      /\ hint # <<>> => f2["contentHint"] = hint[1]
    BY <1>2, FieldRead, Zenon
<1>5. /\ DOMAIN f3 = IF p.groupID = <<>> THEN {} ELSE {"groupId"}
      /\ p.groupID # <<>> => f3["groupId"] = p.groupID[1]
    BY <1>2, FieldRead, Zenon
<1>6. /\ DOMAIN b0 = {"type", "senderCertificate"}
      /\ b0["type"] = ProtoTypes[p.type] /\ b0["senderCertificate"] = c
    BY DEF usmcTypeToProto
<1> HIDE DEF f1, f2, f3, b0
<1>7. /\ DOMAIN b1 = DOMAIN b0 \cup DOMAIN f1
      /\ \A x \in DOMAIN b0 : b1[x] = b0[x]
      /\ \A x \in DOMAIN f1 \ DOMAIN b0 : b1[x] = f1[x]
    BY WithFields, Zenon
<1> HIDE DEF b1
<1>8. /\ DOMAIN b2 = DOMAIN b1 \cup DOMAIN f2
      /\ \A x \in DOMAIN b1 : b2[x] = b1[x]
      /\ \A x \in DOMAIN f2 \ DOMAIN b1 : b2[x] = f2[x]
    BY WithFields, Zenon
<1> HIDE DEF b2
<1>9. /\ DOMAIN b3 = DOMAIN b2 \cup DOMAIN f3
      /\ \A x \in DOMAIN b2 : b3[x] = b2[x]
      /\ \A x \in DOMAIN f3 \ DOMAIN b2 : b3[x] = f3[x]
    BY WithFields, Zenon
<1> HIDE DEF b3
<1>10. /\ Present(b3, {"type", "senderCertificate"})
       /\ b3["type"] = ProtoTypes[p.type] /\ b3["senderCertificate"] = c
    BY <1>6, <1>7, <1>8, <1>9 DEF Present
<1>11. /\ "content" \in DOMAIN b3 <=> p.contents # <<>>
       /\ p.contents # <<>> => b3["content"] = p.contents[1]
    BY <1>3, <1>4, <1>5, <1>6, <1>7, <1>8, <1>9
<1>12. /\ "contentHint" \in DOMAIN b3 <=> hint # <<>>
       /\ hint # <<>> => b3["contentHint"] = hint[1]
    BY <1>3, <1>4, <1>5, <1>6, <1>7, <1>8, <1>9
<1>13. /\ "groupId" \in DOMAIN b3 <=> p.groupID # <<>>
       /\ p.groupID # <<>> => b3["groupId"] = p.groupID[1]
    BY <1>3, <1>4, <1>5, <1>6, <1>7, <1>8, <1>9
<1>14. ReadField(b3, "content") = p.contents /\ ReadField(b3, "groupId") = p.groupID
    BY <1>2, <1>11, <1>13 DEF ReadField
<1>15. (IF "contentHint" \in DOMAIN b3 THEN b3.contentHint ELSE ContentHintDefault) = p.hint
    BY <1>12
<1> QED
    BY <1>1, <1>10, <1>11, <1>14, <1>15

\* No two types have one number on the wire.
LEMMA TypesInvert ==
    ASSUME NEW t \in DOMAIN ProtoTypes
    PROVE  /\ ProtoTypes[t] \in {ProtoTypes[u] : u \in DOMAIN ProtoTypes}
           /\ usmcTypeFromProto(ProtoTypes[t]) = t
<1>1. \A u \in DOMAIN ProtoTypes : ProtoTypes[u] = ProtoTypes[t] => u = t
    BY DEF ProtoTypes
<1> QED
    BY <1>1 DEF usmcTypeFromProto

\* The reader of a sealed content finds the payload, and the certificate as
\* DeserializeSenderCertificate shows it (DeserializeUnidentifiedSenderMessageContent).
LEMMA PlainReads ==
    ASSUME NEW m, m.payload \in Payloads, m.payload.type \in DOMAIN ProtoTypes
    PROVE  LET r == DeserializeUSMC(Plain(m))
               c == DeserializeSenderCertificate(m.certificate)
           IN  /\ r.ok <=> c.ok /\ m.payload.contents # <<>>
               /\ r.ok => /\ r.value.sender = c.value
                          /\ m.payload = [type |-> r.value.type, contents |-> r.value.contents,
                                          hint |-> r.value.hint, groupID |-> r.value.groupID]
<1> DEFINE p == m.payload
           b == Plain(m)
           c == DeserializeSenderCertificate(m.certificate)
           hint == IF "contentHint" \in DOMAIN b THEN b.contentHint ELSE ContentHintDefault
<1>1. /\ Present(b, {"type", "senderCertificate"})
      /\ b.type = ProtoTypes[p.type]
      /\ b.senderCertificate = m.certificate
      /\ "content" \in DOMAIN b <=> p.contents # <<>>
      /\ ReadField(b, "content") = p.contents
      /\ hint = p.hint
      /\ ReadField(b, "groupId") = p.groupID
    BY WrappedFields
<1> HIDE DEF b
<1>2. /\ b.type \in {ProtoTypes[u] : u \in DOMAIN ProtoTypes}
      /\ usmcTypeFromProto(b.type) = p.type
    BY <1>1, TypesInvert
<1>3. Present(b, {"type", "senderCertificate", "content"}) <=> p.contents # <<>>
    BY <1>1 DEF Present
<1>4. DeserializeUSMC(b) =
        IF p.contents = <<>> \/ ~c.ok THEN Err("ErrInvalidUSMC")
        ELSE Ok([type |-> p.type, sender |-> c.value, contents |-> p.contents,
                 hint |-> p.hint, groupID |-> p.groupID])
    BY <1>1, <1>2, <1>3 DEF DeserializeUSMC
<1>5. p = [type |-> p.type, contents |-> p.contents, hint |-> p.hint, groupID |-> p.groupID]
    BY PayloadsAssumption
<1>6. c.ok \in BOOLEAN
    BY DEF DeserializeSenderCertificate, Ok, Err
<1> QED
    <2> HIDE DEF c
    <2>1. CASE p.contents = <<>> \/ ~c.ok
        BY <1>4, <1>6, <2>1 DEF Err, b, c
    <2>2. CASE p.contents # <<>> /\ c.ok
        BY <1>4, <1>5, <2>2 DEF Ok, b, c
    <2> QED
        BY <1>6, <2>1, <2>2

-----------------------------------------------------------------------------
\* Opening

\* A message of the first format opens under the key it was sealed to, if its
\* certificate names the sealer's key, and not otherwise (decryptV1).
LEMMA OpensV1 ==
    ASSUME NEW usmc, NEW by, NEW for, NEW e, NEW key
    PROVE  LET r == DecryptToUSMC(SealV1(usmc, by, for, e), key)
               u == DeserializeUSMC(usmc)
           IN  /\ r.ok => r = u /\ key = for /\ u.value.sender.key = by
               /\ (u.ok /\ key = for /\ u.value.sender.key = by) => r = u
<1> DEFINE w == SealV1(usmc, by, for, e)
           u == DeserializeUSMC(usmc)
           ephKeys == calculateV1EphemeralKeys(e, for, "sending")
           ours == calculateV1EphemeralKeys(key, e, "receiving")
           static == Box(ephKeys, by)
           staticKeys == calculateV1StaticKeys(by, for, ephKeys, static)
           theirs == calculateV1StaticKeys(key, by, ours, static)
<1>1. /\ w.version = 17 /\ w.ephemeralPublic = e /\ w.encryptedStatic = static
      /\ w.encryptedMessage = Box(staticKeys, usmc)
    BY DEF SealV1
<1>2. DecryptToUSMC(w, key) = decryptV1(w, key)
    <2>1. 17 \div 16 \in {0, 1}
        OBVIOUS
    <2> HIDE DEF w
    <2> QED
        BY <1>1, <2>1 DEF DecryptToUSMC
<1>3. ephKeys = ours <=> key = for
    <2>1. ephKeys = ours => key = for
        BY DEF calculateV1EphemeralKeys
    <2>2. Agreement(e, for) = Agreement(for, e)
        BY DEF Agreement
    <2> QED
        BY <2>1, <2>2 DEF calculateV1EphemeralKeys
<1>4. key = for => staticKeys = theirs
    <2>1. Agreement(by, for) = Agreement(for, by)
        BY DEF Agreement
    <2> HIDE DEF ephKeys, ours, static
    <2> QED
        BY <1>3, <2>1 DEF calculateV1StaticKeys
<1>5. /\ static.key = ephKeys /\ static.plain = by
      /\ Box(staticKeys, usmc).key = staticKeys /\ Box(staticKeys, usmc).plain = usmc
    BY DEF Box
<1>6. decryptV1(w, key) =
        IF ephKeys # ours \/ staticKeys # theirs THEN Err("ErrBadCiphertext")
        ELSE IF ~u.ok THEN u
        ELSE IF by # u.value.sender.key THEN Err("ErrInvalidSealedSenderMessage")
        ELSE u
    <2> HIDE DEF w, ephKeys, static, staticKeys, u
    <2> QED
        BY <1>1, <1>5 DEF decryptV1, u
<1> HIDE DEF w, ephKeys, ours, static, staticKeys, theirs, u
<1>7. ~Err("ErrBadCiphertext").ok /\ ~Err("ErrInvalidSealedSenderMessage").ok
    BY DEF Err
<1> QED
    BY <1>2, <1>3, <1>4, <1>6, <1>7 DEF w, u

\* A message of the second format opens under the key of the entry it was made
\* for, if its certificate names the sealer's key, and not otherwise: both masks
\* are one stream, and the tag has the two keys in it (decryptV2Received).
LEMMA OpensV2 ==
    ASSUME NEW usmc, NEW by, NEW for, NEW n, NEW key
    PROVE  LET r == DecryptToUSMC(ReceivedV2(usmc, by, for, n), key)
               u == DeserializeUSMC(usmc)
           IN  /\ r.ok => r = u /\ key = for /\ u.value.sender.key = by
               /\ (u.ok /\ key = for /\ u.value.sender.key = by) => r = u
<1> DEFINE w == ReceivedV2(usmc, by, for, n)
           u == DeserializeUSMC(usmc)
           e == deriveE(Seed(n))
           c == applyAgreementXor(e, for, "sending", Seed(n))
           seed == applyAgreementXor(key, e, "receiving", c)
           at == computeAuthenticationTag(by, for, "sending", e, c)
           sender == u.value.sender.key
           expected == computeAuthenticationTag(key, sender, "receiving", e, c)
<1>1. /\ w.version = 34 /\ w.c = c /\ w.at = at /\ w.ephemeral = e
      /\ w.ciphertext.key = deriveK(Seed(n)) /\ w.ciphertext.plain = usmc
    BY DEF ReceivedV2, Box
<1>2. DecryptToUSMC(w, key) = decryptV2Received(w, key)
    <2>1. 34 \div 16 = 2
        OBVIOUS
    <2> HIDE DEF w
    <2> QED
        BY <1>1, <2>1 DEF DecryptToUSMC
<1>3. decryptV2Received(w, key) =
        IF deriveE(seed) # e THEN Err("ErrInvalidSealedSenderMessage")
        ELSE IF deriveK(Seed(n)) # deriveK(seed) THEN Err("ErrBadCiphertext")
        ELSE IF ~u.ok THEN u
        ELSE IF at # expected THEN Err("ErrInvalidSealedSenderMessage")
        ELSE u
    <2> HIDE DEF w, e, c, at
    <2> QED
        BY <1>1 DEF decryptV2Received
<1>4. at = expected => key = for /\ sender = by
    <2> HIDE DEF e, c, sender
    <2> QED
        BY DEF computeAuthenticationTag
<1>5. key = for /\ sender = by => at = expected
    <2>1. Agreement(by, for) = Agreement(for, by)
        BY DEF Agreement
    <2> HIDE DEF e, c, sender
    <2> QED
        BY <2>1 DEF computeAuthenticationTag
<1>6. key = for => seed = Seed(n)
    <2>1. Agreement(e, for) = Agreement(for, e)
        BY DEF Agreement
    <2> DEFINE stream == [agreement |-> Agreement(e, for), order |-> <<e, for>>]
    <2>2. c = [n |-> n, masks |-> {stream}]
        <3> HIDE DEF e
        <3> QED
            BY DEF applyAgreementXor, Seed
    <2>3. ASSUME key = for
          PROVE  seed = [c EXCEPT !.masks = (@ \ {stream}) \cup ({stream} \ @)]
        <3> HIDE DEF e, c
        <3> QED
            BY <2>1, <2>3 DEF applyAgreementXor
    <2> HIDE DEF seed, c, stream
    <2> QED
        BY <2>2, <2>3 DEF Seed
<1> HIDE DEF w, e, c, seed, at, sender, expected, u
<1>7. ~Err("ErrBadCiphertext").ok /\ ~Err("ErrInvalidSealedSenderMessage").ok
    BY DEF Err
<1>8. key = for => deriveE(seed) = e
    BY <1>6 DEF e
<1> QED
    BY <1>2, <1>3, <1>4, <1>5, <1>6, <1>7, <1>8 DEF w, u, sender

\* The same of a message in either format, with what its reader finds.
LEMMA Opens ==
    ASSUME NEW m, SoundMessage(m), NEW key
    PROVE  LET r == DecryptToUSMC(m.wire, key)
               c == DeserializeSenderCertificate(m.certificate)
           IN  /\ r.ok => /\ c.ok /\ key = m.for
                          /\ r.value.sender = c.value /\ c.value.key = m.by
                          /\ m.payload = [type |-> r.value.type, contents |-> r.value.contents,
                                          hint |-> r.value.hint, groupID |-> r.value.groupID]
               /\ (/\ c.ok /\ key = m.for /\ c.value.key = m.by
                   /\ m.payload.contents # <<>>) => r.ok /\ r.value.sender = c.value
<1> DEFINE r == DecryptToUSMC(m.wire, key)
           c == DeserializeSenderCertificate(m.certificate)
           u == DeserializeUSMC(Plain(m))
<1>1. /\ u.ok <=> c.ok /\ m.payload.contents # <<>>
      /\ u.ok => /\ u.value.sender = c.value
                 /\ m.payload = [type |-> u.value.type, contents |-> u.value.contents,
                                 hint |-> u.value.hint, groupID |-> u.value.groupID]
    BY PlainReads DEF SoundMessage
<1>2. /\ r.ok => r = u /\ key = m.for /\ u.value.sender.key = m.by
      /\ (u.ok /\ key = m.for /\ u.value.sender.key = m.by) => r = u
    <2>1. CASE m.wire.version = 17
        <3>1. PICK e : m.wire = SealV1(Plain(m), m.by, m.for, e)
            BY <2>1 DEF SoundMessage
        <3> QED
            BY <3>1, OpensV1
    <2>2. CASE m.wire.version # 17
        <3>1. PICK n : m.wire = ReceivedV2(Plain(m), m.by, m.for, n)
            BY <2>2 DEF SoundMessage
        <3> QED
            BY <3>1, OpensV2
    <2> QED
        BY <2>1, <2>2
<1> HIDE DEF r, c, u
<1> QED
    BY <1>1, <1>2 DEF r, c

-----------------------------------------------------------------------------
\* Certificates

\* What the reader of a sender certificate shows (DeserializeSenderCertificate).
LEMMA CertificateShown ==
    ASSUME NEW w, DeserializeSenderCertificate(w).ok
    PROVE  LET v == DeserializeSenderCertificate(w).value
               body == w.certificate
           IN  /\ Present(body, {"senderDevice", "expires", "identityKey"})
               /\ v.signer = ReadField(body, "signerCertificate")
               /\ v.key = body.identityKey
               /\ v.expiration = SignedMillis(body.expires)
               /\ v.certificate = body /\ v.signature = w.signature
BY DEF DeserializeSenderCertificate, Ok, Err

\* A certificate of the service's that has its fields is read.
LEMMA CertificateRead ==
    ASSUME NEW w, SoundCertificate(w),
           Present(w.certificate,
                   {"identityKey", "expires", "senderDevice", "signerCertificate"}),
           ~("uuidString" \notin DOMAIN w.certificate
               /\ ("uuidBytes" \notin DOMAIN w.certificate
                     \/ w.certificate.uuidBytes.length # 16))
    PROVE  DeserializeSenderCertificate(w).ok
<1> DEFINE body == w.certificate
<1>1. PICK s \in ServerCertificates :
          w = SignSender(body, s.certificate.key) /\ body.signerCertificate = s
    BY DEF SoundCertificate, Present
<1>2. Present(w, {"certificate", "signature"})
    <2>1. DOMAIN SignSender(body, s.certificate.key) = {"certificate", "signature"}
        BY DEF SignSender
    <2> QED
        BY <1>1, <2>1 DEF Present
<1>3. ServerCertificateWellFormed(s)
    <2>1. s = NewServerCertificate(s.certificate.id, s.certificate.key, s.signature.by)
        BY ServerAssumption
    <2>2. ASSUME NEW id, NEW k, NEW by
          PROVE  ServerCertificateWellFormed(NewServerCertificate(id, k, by))
        BY DEF ServerCertificateWellFormed, NewServerCertificate, Present
    <2> QED
        BY <2>1, <2>2
<1> HIDE DEF body
<1> QED
    BY <1>1, <1>2, <1>3 DEF DeserializeSenderCertificate, Ok, Present, body

\* When the certificate of the service's is valid (ServerCertificate.Validate
\* and SenderCertificate.Validate).
LEMMA CertificateValid ==
    ASSUME NEW w, SoundCertificate(w), DeserializeSenderCertificate(w).ok,
           NEW now \in Nat \ {0}
    PROVE  LET v == ValidateSender(DeserializeSenderCertificate(w).value, TrustRoot, now)
               body == w.certificate
               signer == body.signerCertificate
           IN  v.ok /\ v.value <=>
                   /\ "signerCertificate" \in DOMAIN body
                   /\ signer.signature.by = TrustRoot
                   /\ signer.certificate.id \notin Revoked
                   /\ now <= body.expires
                   /\ body.expires < 2^(TimeBits - 1)
<1> DEFINE c == DeserializeSenderCertificate(w).value
           body == w.certificate
           v == ValidateSender(c, TrustRoot, now)
<1>1. /\ Present(body, {"senderDevice", "expires", "identityKey"})
      /\ c.signer = ReadField(body, "signerCertificate")
      /\ c.expiration = SignedMillis(body.expires)
      /\ c.certificate = body /\ c.signature = w.signature
    BY CertificateShown
<1> HIDE DEF c
<1>2. CASE "signerCertificate" \notin DOMAIN body
    <2>1. c.signer = <<>>
        BY <1>1, <1>2 DEF ReadField
    <2>2. ~v.ok
        BY <2>1 DEF ValidateSender, Err
    <2> QED
        BY <1>2, <2>2 DEF c
<1>3. CASE "signerCertificate" \in DOMAIN body
    <2>1. PICK s \in ServerCertificates :
              /\ w = SignSender(body, s.certificate.key)
              /\ body.signerCertificate = s
              /\ body.expires \in 0..2^TimeBits - 1
        BY <1>1, <1>3 DEF SoundCertificate, Present
    <2>2. c.signer # <<>> /\ c.signer[1] = s
        BY <1>1, <1>3, <2>1 DEF ReadField
    <2>3. c.signature = Signature(s.certificate.key, body)
        BY <1>1, <2>1 DEF SignSender
    <2>4. v = Ok(/\ ValidateServer(s, TrustRoot)
                 /\ c.signature = Signature(s.certificate.key, body)
                 /\ ~(now > c.expiration))
        BY <1>1, <2>2, Zenon DEF ValidateSender
    <2>5. ValidateServer(s, TrustRoot)
             <=> s.certificate.id \notin Revoked /\ s.signature.by = TrustRoot
        <3>1. s = NewServerCertificate(s.certificate.id, s.certificate.key, s.signature.by)
            BY ServerAssumption
        <3>2. ASSUME NEW id, NEW k, NEW by
              PROVE  LET t == NewServerCertificate(id, k, by)
                     IN  ValidateServer(t, TrustRoot)
                            <=> t.certificate.id \notin Revoked /\ t.signature.by = TrustRoot
            BY DEF NewServerCertificate, ValidateServer, Signature
        <3> QED
            BY <3>1, <3>2
    <2>6. ~(now > c.expiration) <=> now <= body.expires /\ body.expires < 2^(TimeBits - 1)
        <3>1. 2^(TimeBits - 1) \in Nat /\ 2^TimeBits \in Nat
            BY TimeAssumption
        <3> HIDE DEF body
        <3> QED
            BY <1>1, <2>1, <3>1 DEF SignedMillis
    <2> QED
        BY <1>3, <2>1, <2>3, <2>4, <2>5, <2>6 DEF Ok, c
<1> QED
    BY <1>2, <1>3

-----------------------------------------------------------------------------
\* What the invariant says of an opened message

\* DecryptToUSMCAndValidate accepts what decrypts and has a valid certificate.
LEMMA Accepts ==
    ASSUME NEW o, SoundOpening(o)
    PROVE  LET u == DecryptToUSMC(o.message.wire, o.key)
               v == ValidateSender(u.value.sender, TrustRoot, o.now)
           IN  /\ o.result.ok <=> u.ok /\ v.ok /\ v.value
               /\ o.result.ok => o.result = u
<1> DEFINE u == DecryptToUSMC(o.message.wire, o.key)
           v == ValidateSender(u.value.sender, TrustRoot, o.now)
<1>1. o.result = IF ~u.ok THEN u
                 ELSE IF ~v.ok THEN v
                 ELSE IF ~v.value THEN Err("ErrInvalidCertificate")
                 ELSE u
    BY DEF SoundOpening, DecryptToUSMCAndValidate
<1>2. ~Err("ErrInvalidCertificate").ok
    BY DEF Err
<1> HIDE DEF u, v
<1> QED
    BY <1>1, <1>2 DEF u, v

\* What opens is authentic.
LEMMA OpeningAuthentic ==
    ASSUME NEW o, SoundOpening(o), o.result.ok
    PROVE  LET usmc == o.result.value
           IN /\ usmc.sender.key = o.message.by
              /\ o.key = o.message.for
              /\ [type |-> usmc.type, contents |-> usmc.contents, hint |-> usmc.hint,
                  groupID |-> usmc.groupID] = o.message.payload
<1> DEFINE u == DecryptToUSMC(o.message.wire, o.key)
           c == DeserializeSenderCertificate(o.message.certificate)
<1>1. SoundMessage(o.message)
    BY DEF SoundOpening
<1>2. u.ok /\ o.result = u
    BY Accepts
<1>3. /\ o.key = o.message.for
      /\ u.value.sender = c.value /\ c.value.key = o.message.by
      /\ o.message.payload = [type |-> u.value.type, contents |-> u.value.contents,
                              hint |-> u.value.hint, groupID |-> u.value.groupID]
    BY <1>1, <1>2, Opens, Zenon
<1> HIDE DEF u, c
<1> QED
    BY <1>2, <1>3

\* What opens has a certificate in force.
LEMMA OpeningVouched ==
    ASSUME NEW o, SoundOpening(o), o.result.ok
    PROVE  LET body   == o.message.certificate.certificate
               signer == body.signerCertificate
           IN /\ signer.signature.by = TrustRoot
              /\ signer.certificate.id \notin Revoked
              /\ o.now <= body.expires
              /\ body.expires < 2^(TimeBits - 1)
<1> DEFINE w == o.message.certificate
           c == DeserializeSenderCertificate(w)
           u == DecryptToUSMC(o.message.wire, o.key)
<1>1. SoundMessage(o.message) /\ SoundCertificate(w) /\ o.now \in Nat \ {0}
    BY DEF SoundOpening, SoundMessage
<1>2. u.ok /\ LET v == ValidateSender(u.value.sender, TrustRoot, o.now) IN v.ok /\ v.value
    BY Accepts
<1>3. c.ok /\ u.value.sender = c.value
    BY <1>1, <1>2, Opens, Zenon
<1> QED
    BY <1>1, <1>2, <1>3, CertificateValid

\* What does not open has a cause.
LEMMA RefusalCaused ==
    ASSUME NEW o, SoundOpening(o)
    PROVE  \/ o.result.ok
           \/ o.key # o.message.for
           \/ o.message.payload.contents = <<>>
           \/ LET body == o.message.certificate.certificate
              IN \/ ~Present(body, {"identityKey", "expires", "senderDevice", "signerCertificate"})
                 \/ body.identityKey # o.message.by
                 \/ o.now > body.expires \/ body.expires >= 2^(TimeBits - 1)
                 \/ body.signerCertificate.signature.by # TrustRoot
                 \/ body.signerCertificate.certificate.id \in Revoked
                 \/ "uuidString" \notin DOMAIN body
                      /\ ("uuidBytes" \notin DOMAIN body \/ body.uuidBytes.length # 16)
<1> DEFINE w == o.message.certificate
           body == w.certificate
           c == DeserializeSenderCertificate(w)
           u == DecryptToUSMC(o.message.wire, o.key)
           v == ValidateSender(c.value, TrustRoot, o.now)
<1> SUFFICES ASSUME o.key = o.message.for, o.message.payload.contents # <<>>,
                    Present(body, {"identityKey", "expires", "senderDevice",
                                   "signerCertificate"}),
                    body.identityKey = o.message.by,
                    ~(o.now > body.expires), ~(body.expires >= 2^(TimeBits - 1)),
                    body.signerCertificate.signature.by = TrustRoot,
                    body.signerCertificate.certificate.id \notin Revoked,
                    ~("uuidString" \notin DOMAIN body
                        /\ ("uuidBytes" \notin DOMAIN body \/ body.uuidBytes.length # 16))
             PROVE  o.result.ok
    OBVIOUS
<1>1. SoundMessage(o.message) /\ SoundCertificate(w) /\ o.now \in Nat \ {0}
    BY DEF SoundOpening, SoundMessage
<1>2. c.ok
    BY <1>1, CertificateRead
<1>3. c.value.key = o.message.by
    BY <1>2, CertificateShown, SMTT(20)
<1>4. u.ok /\ u.value.sender = c.value
    BY <1>1, <1>2, <1>3, Opens, Zenon
<1>5. "signerCertificate" \in DOMAIN body /\ "expires" \in DOMAIN body
    BY DEF Present
<1>6. body.expires \in Nat /\ 2^(TimeBits - 1) \in Nat
    <2>1. body.expires \in 0..2^TimeBits - 1
        BY <1>1, <1>5 DEF SoundCertificate
    <2> QED
        BY <2>1, TimeAssumption
<1>7. o.now <= body.expires /\ body.expires < 2^(TimeBits - 1)
    <2> HIDE DEF body
    <2> QED
        BY <1>1, <1>6
<1>8. v.ok /\ v.value
    BY <1>1, <1>2, <1>5, <1>7, CertificateValid
<1> QED
    BY <1>4, <1>8, Accepts, Zenon

-----------------------------------------------------------------------------
\* The invariant

\* Certificates that the service issues are sound (NewSenderCertificate).
LEMMA IssuedSound ==
    ASSUME NEW u, NEW key, NEW expiration \in -1..MaxClock, NEW s \in ServerCertificates,
           NewSenderCertificate(u, <<>>, key, 1, expiration, s, s.certificate.key).ok
    PROVE  SoundCertificate(
               NewSenderCertificate(u, <<>>, key, 1, expiration, s, s.certificate.key).value)
<1> DEFINE full == [uuidString |-> u, senderDevice |-> 1, expires |-> expiration,
                    identityKey |-> key, signerCertificate |-> s]
           body == With(full, Field("senderE164", <<>>))
           c == NewSenderCertificate(u, <<>>, key, 1, expiration, s, s.certificate.key)
<1>1. expiration \in 0..2^TimeBits - 1
    <2>1. ~(expiration < 0)
        BY DEF NewSenderCertificate, Err
    <2> QED
        BY <2>1, TimeAssumption
<1>2. c.value = SignSender(body, s.certificate.key)
    BY DEF NewSenderCertificate, Ok, Err
<1>3. body.signerCertificate = s /\ body.expires = expiration
    BY DEF With, Field
<1> HIDE DEF body
<1>4. c.value.certificate = body
    BY <1>2 DEF SignSender
<1> HIDE DEF c
<1> QED
    BY <1>1, <1>2, <1>3, <1>4 DEF SoundCertificate, c

\* So are those that other services write.
LEMMA FormSound ==
    ASSUME NEW u, NEW key, NEW s \in ServerCertificates, NEW form \in Forms
    PROVE  LET full == [uuidString |-> u, senderDevice |-> 1, expires |-> MaxClock,
                        identityKey |-> key, signerCertificate |-> s]
               body == With(form.with, [f \in DOMAIN full \ form.without |-> full[f]])
           IN  SoundCertificate(SignSender(body, s.certificate.key))
<1> DEFINE full == [uuidString |-> u, senderDevice |-> 1, expires |-> MaxClock,
                    identityKey |-> key, signerCertificate |-> s]
           rest == [f \in DOMAIN full \ form.without |-> full[f]]
           body == With(form.with, rest)
           w == SignSender(body, s.certificate.key)
<1>1. /\ "signerCertificate" \in DOMAIN rest => rest["signerCertificate"] = s
      /\ "expires" \in DOMAIN rest => rest["expires"] = MaxClock
    OBVIOUS
<1> HIDE DEF rest
<1>2. /\ DOMAIN body = DOMAIN form.with \cup DOMAIN rest
      /\ \A x \in DOMAIN form.with : body[x] = form.with[x]
      /\ \A x \in DOMAIN rest \ DOMAIN form.with : body[x] = rest[x]
    BY WithFields, Zenon
<1> HIDE DEF body
<1>3. "signerCertificate" \in DOMAIN body => body.signerCertificate = s
    BY <1>1, <1>2, FormsAssumption
<1>4. "expires" \in DOMAIN body => body.expires \in 0..2^TimeBits - 1
    <2>1. MaxClock \in 0..2^TimeBits - 1
        BY TimeAssumption
    <2>2. "expires" \in DOMAIN form.with => form.with["expires"] \in 0..2^TimeBits - 1
        BY FormsAssumption
    <2> QED
        BY <1>1, <1>2, <2>1, <2>2
<1>5. w.certificate = body /\ w = SignSender(body, s.certificate.key)
    BY DEF SignSender
<1> HIDE DEF w
<1>6. SoundCertificate(w)
    BY <1>3, <1>4, <1>5 DEF SoundCertificate
<1> QED
    BY <1>6 DEF w, body, rest

\* A message of SealV1 names its format and its ephemeral key.
LEMMA ShapeV1 ==
    ASSUME NEW b, NEW k, NEW t, NEW e
    PROVE  SealV1(b, k, t, e).version = 17 /\ SealV1(b, k, t, e).ephemeralPublic = e
BY DEF SealV1

\* So does one of SealV2, which names its seed.
LEMMA ShapeV2 ==
    ASSUME NEW b, NEW by, NEW for, NEW n
    PROVE  ReceivedV2(b, by, for, n).version = 34 /\ ReceivedV2(b, by, for, n).c.n = n
BY DEF ReceivedV2, applyAgreementXor, Seed

\* A payload sealed by SealV1 under a sound certificate is a sound message.
LEMMA SoundV1 ==
    ASSUME NEW m, NEW e, SoundCertificate(m.certificate),
           m.payload \in Payloads, m.payload.type \in DOMAIN ProtoTypes,
           m.wire = SealV1(Plain(m), m.by, m.for, e)
    PROVE  SoundMessage(m)
<1>1. m.wire.version = 17 /\ m.wire.ephemeralPublic = e
    BY ShapeV1
<1> QED
    BY <1>1 DEF SoundMessage

\* So is one sealed by SealV2.
LEMMA SoundV2 ==
    ASSUME NEW m, NEW n, SoundCertificate(m.certificate),
           m.payload \in Payloads, m.payload.type \in DOMAIN ProtoTypes,
           m.wire = ReceivedV2(Plain(m), m.by, m.for, n)
    PROVE  SoundMessage(m)
<1>1. m.wire.version = 34 /\ m.wire.c.n = n
    BY ShapeV2
<1> QED
    BY <1>1 DEF SoundMessage

\* What SealV1 makes of a wrapped payload is sound.
LEMMA SealedOneSound ==
    ASSUME NEW u \in Senders, NEW c \in certificates, NEW r \in Recipients,
           NEW g \in 0..MaxGeneration, NEW p \in Payloads,
           SealedInv, SealOne(u, c, r, g, p)
    PROVE  \A m \in net' : SoundMessage(m)
<1> DEFINE usmc == Wrapped(p, c)
           key == IdentityKey(r, g)
           e == <<"ephemeral", "v1", Fresh>>
           m == Sealed(r, 1, SealV1(usmc.value, Current(u), key, e), u, key, c, p)
<1>1. net' = net \cup {m} /\ usmc.ok
    BY DEF SealOne
<1>2. /\ m.certificate = c.wire /\ m.payload = p /\ m.by = Current(u) /\ m.for = key
      /\ m.wire = SealV1(usmc.value, Current(u), key, e)
    BY DEF Sealed
<1>3. Plain(m) = usmc.value
    <2> HIDE DEF m
    <2> QED
        BY <1>2 DEF Plain, Wrapped
<1>4. p.type \in DOMAIN ProtoTypes
    BY <1>1, Zenon DEF Wrapped, NewUSMC, Err
<1>5. SoundCertificate(c.wire)
    BY DEF SealedInv
<1> HIDE DEF m, usmc, key, e
<1>6. m.wire = SealV1(Plain(m), m.by, m.for, e)
    BY <1>2, <1>3, Zenon
<1>7. SoundMessage(m)
    BY <1>2, <1>4, <1>5, <1>6, SoundV1
<1> QED
    BY <1>1, <1>7 DEF SealedInv

\* So is what ReceivedMessageForRecipient makes of a message of SealV2.
LEMMA SealedManySound ==
    ASSUME NEW u \in Senders, NEW c \in certificates, NEW list \in RecipientLists,
           NEW p \in Payloads, SealedInv, SealMany(u, c, list, p)
    PROVE  \A m \in net' : SoundMessage(m)
<1> DEFINE usmc == Wrapped(p, c)
           to == Addressed(list)
           message == SealV2(usmc.value, to, Current(u), Fresh)
           M(i) == Sealed(to[i].serviceID, to[i].deviceID,
                          ReceivedMessageForRecipient(message.value, i),
                          u, to[i].identityKey, c, p)
<1>1. usmc.ok /\ net' = IF ~message.ok THEN net ELSE net \cup {M(i) : i \in DOMAIN to}
    BY SMTT(20) DEF SealMany
<1>2. p.type \in DOMAIN ProtoTypes
    BY <1>1 DEF Wrapped, NewUSMC, Err
<1>3. SoundCertificate(c.wire)
    BY DEF SealedInv
<1>4. ASSUME message.ok, NEW i \in DOMAIN to
      PROVE  SoundMessage(M(i))
    <2> DEFINE m == M(i)
    <2>1. /\ m.certificate = c.wire /\ m.payload = p /\ m.by = Current(u)
          /\ m.for = to[i].identityKey
          /\ m.wire = ReceivedMessageForRecipient(message.value, i)
        BY DEF Sealed
    <2>2. ReceivedMessageForRecipient(message.value, i)
            = ReceivedV2(usmc.value, Current(u), to[i].identityKey, Fresh)
        <3> HIDE DEF to, usmc
        <3> QED
            BY <1>4, Zenon DEF ReceivedMessageForRecipient, SealV2, ReceivedV2, Ok, Err
    <2>3. Plain(m) = usmc.value
        <3> HIDE DEF m
        <3> QED
            BY <2>1, Zenon DEF Plain, Wrapped
    <2> HIDE DEF m
    <2>4. m.wire = ReceivedV2(Plain(m), m.by, m.for, Fresh)
        BY <2>1, <2>2, <2>3
    <2>5. SoundMessage(m)
        BY <1>2, <1>3, <2>1, <2>4, SoundV2
    <2> QED
        BY <2>5, Zenon DEF m
<1> HIDE DEF M
<1> QED
    BY <1>1, <1>4, SMTT(20) DEF SealedInv

\* Every state has sound certificates, messages and openings, whatever was
\* issued, sealed, fanned out and opened before (certs.go, v1.go, v2.go).
THEOREM SealedInvariant == Spec => []SealedInv
<1>1. Init => SealedInv
    BY DEF Init, SealedInv
<1>2. SealedInv /\ [Next]_vars => SealedInv'
    <2> SUFFICES ASSUME SealedInv, [Next]_vars
                 PROVE  SealedInv'
        OBVIOUS
    <2>1. CASE Tick
        BY <2>1 DEF SealedInv, Tick
    <2>2. ASSUME NEW u \in Senders \cup Recipients, Reinstall(u)
          PROVE  SealedInv'
        BY <2>2 DEF SealedInv, Reinstall
    <2>3. ASSUME NEW u \in Senders, NEW s \in ServerCertificates, NEW x \in -1..MaxClock,
                 Certify(u, s, x)
          PROVE  SealedInv'
        <3> DEFINE c == NewSenderCertificate(u, <<>>, Current(u), 1, x, s, s.certificate.key)
        <3>1. c.ok => SoundCertificate(c.value)
            BY IssuedSound, Zenon
        <3>2. /\ certificates' = IF c.ok THEN certificates \cup {[user |-> u, wire |-> c.value]}
                                         ELSE certificates
              /\ UNCHANGED <<clock, net, opened>>
            BY <2>3 DEF Certify
        <3> HIDE DEF c
        <3> QED
            BY <3>1, <3>2 DEF SealedInv
    <2>4. ASSUME NEW u \in Senders, NEW s \in ServerCertificates, NEW f \in Forms,
                 Elsewhere(u, s, f)
          PROVE  SealedInv'
        <3> DEFINE full == [uuidString |-> u, senderDevice |-> 1, expires |-> MaxClock,
                            identityKey |-> Current(u), signerCertificate |-> s]
                   body == With(f.with, [x \in DOMAIN full \ f.without |-> full[x]])
                   w == SignSender(body, s.certificate.key)
        <3>1. SoundCertificate(w)
            BY FormSound
        <3>2. /\ certificates' = certificates \cup {[user |-> u, wire |-> w]}
              /\ UNCHANGED <<clock, net, opened>>
            BY <2>4 DEF Elsewhere
        <3> HIDE DEF w
        <3> QED
            BY <3>1, <3>2 DEF SealedInv
    <2>5. ASSUME NEW u \in Senders, NEW c \in certificates, NEW r \in Recipients,
                 NEW g \in 0..MaxGeneration, NEW p \in Payloads, SealOne(u, c, r, g, p)
          PROVE  SealedInv'
        <3>1. \A m \in net' : SoundMessage(m)
            BY <2>5, SealedOneSound
        <3>2. UNCHANGED <<clock, certificates, opened>>
            BY <2>5 DEF SealOne
        <3> QED
            BY <3>1, <3>2 DEF SealedInv
    <2>6. ASSUME NEW u \in Senders, NEW c \in certificates, NEW l \in RecipientLists,
                 NEW p \in Payloads, SealMany(u, c, l, p)
          PROVE  SealedInv'
        <3>1. \A m \in net' : SoundMessage(m)
            BY <2>6, SealedManySound, SMTT(20)
        <3>2. UNCHANGED <<clock, certificates, opened>>
            BY <2>6 DEF SealMany
        <3> QED
            BY <3>1, <3>2 DEF SealedInv
    <2>7. ASSUME NEW m \in net, Open(m)
          PROVE  SealedInv'
        <3> DEFINE o == [message |-> m, key |-> Current(m.to), now |-> clock,
                         result |-> DecryptToUSMCAndValidate(m.wire, Current(m.to),
                                                             TrustRoot, clock)]
        <3>1. SoundOpening(o)
            <4>1. /\ o.message = m /\ o.key = Current(m.to) /\ o.now = clock
                  /\ o.result = DecryptToUSMCAndValidate(m.wire, Current(m.to), TrustRoot, clock)
                OBVIOUS
            <4> HIDE DEF o
            <4> QED
                BY <4>1 DEF SoundOpening, SealedInv
        <3>2. opened' = opened \cup {o} /\ UNCHANGED <<clock, certificates, net>>
            BY <2>7 DEF Open
        <3> HIDE DEF o
        <3> QED
            BY <3>1, <3>2 DEF SealedInv
    <2>8. CASE UNCHANGED vars
        BY <2>8 DEF SealedInv, vars
    <2> QED
        BY <2>1, <2>2, <2>3, <2>4, <2>5, <2>6, <2>7, <2>8 DEF Next
<1> QED
    BY <1>1, <1>2, PTL DEF Spec

\* What opens comes from the holder of the key that its certificate names, for
\* the key that opened it, as it was wrapped (DecryptToUSMCAndValidate).
THEOREM OpenedIsAuthentic == Spec => []SenderAuthentic
<1>1. SealedInv => SenderAuthentic
    BY OpeningAuthentic DEF SealedInv, SenderAuthentic
<1> QED
    BY <1>1, SealedInvariant, PTL

\* What opens is vouched for by the trust root at that moment (Validate).
THEOREM OpenedIsVouched == Spec => []CertificateInForce
<1>1. SealedInv => CertificateInForce
    BY OpeningVouched, SMTT(20) DEF SealedInv, CertificateInForce
<1> QED
    BY <1>1, SealedInvariant, PTL

\* What does not open was given a cause by its sender or by the service.
THEOREM RefusalsHaveCauses == Spec => []RefusedForCause
<1>1. SealedInv => RefusedForCause
    BY RefusalCaused DEF SealedInv, RefusedForCause
<1> QED
    BY <1>1, SealedInvariant, PTL

=============================================================================
