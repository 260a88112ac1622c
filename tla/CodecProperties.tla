-------------------------- MODULE CodecProperties ---------------------------
\* What the codecs of Codecs promise.
EXTENDS Codecs

\* The fields of an inner or plain SignalMessage as its reader shows them.
Shown(m) ==
    [version |-> m.version, ratchetKey |-> m.ratchetKey, counter |-> m.counter,
     previousCounter |-> m.previousCounter, ciphertext |-> m.ciphertext,
     pqRatchet |-> m.pqRatchet, addresses |-> m.addresses]

\* What was written undamaged is read back as it was: the constructors and
\* the Deserialize functions of package protocol are inverse on every message
\* a caller can build, with every combination of optional fields.
MessagesReadBack ==
    /\ kind = "signal" /\ ~damaged => DeserializeSignalMessage(wire) = Ok(Shown(value))
    /\ kind = "prekey" /\ ~damaged =>
          DeserializePreKeySignalMessage(wire) = Ok([value EXCEPT !.message = Shown(@)])
    /\ kind = "senderkey" /\ ~damaged =>
          DeserializeSenderKeyMessage(wire)
            = Ok([version |-> SenderKeyCurrentVersion, distributionID |-> value.distributionID,
                  chainID |-> value.chainID, iteration |-> value.iteration,
                  ciphertext |-> value.ciphertext])
    /\ kind = "distribution" /\ ~damaged =>
          DeserializeSenderKeyDistributionMessage(wire)
            = Ok([version |-> SenderKeyCurrentVersion] @@ value)
    /\ kind = "plaintext" /\ ~damaged =>
          DeserializeDecryptionErrorMessage(DeserializePlaintextContent(wire).value) = Ok(value)

\* Nothing but what was written passes for authentic: a damaged SignalMessage
\* (alone or inside a PreKeySignalMessage) or SenderKeyMessage that still
\* parses fails VerifyMAC or VerifySignature, whichever part was damaged.
DamageDetected ==
    /\ kind = "signal" /\ damaged /\ DeserializeSignalMessage(wire).ok =>
          ~VerifyMAC(wire, value.sender, value.receiver, value.macKey)
    /\ kind = "prekey" /\ DeserializePreKeySignalMessage(wire).ok =>
          LET inner == wire.body.message
          IN VerifyMAC(inner, value.message.sender, value.message.receiver,
                       value.message.macKey)
               => inner = NewSignalMessage(value.message)
    /\ kind = "senderkey" /\ damaged /\ DeserializeSenderKeyMessage(wire).ok =>
          ~VerifySignature(wire, value.signatureKey)

\* A PreKeySignalMessage that is accepted has all the session layer will ask
\* of it: both halves of the Kyber payload or neither, both at version 4, and
\* a well-formed inner message.
PreKeyMessagesComplete ==
    LET read == DeserializePreKeySignalMessage(wire)
    IN kind = "prekey" /\ read.ok =>
          /\ (read.value.kyberPreKeyId = <<>>) <=> (read.value.kyberCiphertext = <<>>)
          /\ read.value.version > PreKyberVersion => read.value.kyberPreKeyId # <<>>
          /\ read.value.message = DeserializeSignalMessage(wire.body.message).value

\* deserializeMessage undoes serializeMessage, whatever follows the message,
\* and reports how much it consumed; on any bytes at all what it accepts is a
\* message it could have written, with the epoch and index that the
\* negotiation read from the preamble.
SpqrMessagesReadBack ==
    kind = "spqr" =>
        \A read \in {deserializeMessage(wire)}, preamble \in {deserializePreamble(wire)} :
            /\ ~damaged =>
                  read = [ok |-> TRUE, index |-> value.index, m |-> value.m,
                          at |-> Len(serializeMessage(value.m, value.index))]
            /\ read.ok =>
                  /\ read.at <= Len(wire)
                  /\ read.m.epoch > 0 /\ read.m.epoch < 2^WordBits
                  /\ read.index < 2^IndexBits /\ read.m.chunk.index < 2^ChunkIndexBits
                  /\ \E again \in {deserializeMessage(serializeMessage(read.m, read.index))} :
                        again.ok /\ again.m = read.m /\ again.index = read.index
                  /\ preamble.epoch = read.m.epoch /\ preamble.index = read.index

Lowered(s) == [i \in DOMAIN s |->
                 IF hexVals(s[i]) # {} THEN lowerHex[hexVal(s[i]) + 1] ELSE s[i]]

\* Every service id has one binary form, and one string form up to the case
\* of the hex digits: what a parser accepts is what the id it yields is
\* written as, so no two ids share a form and no id has two.
ServiceIdsUnambiguous ==
    /\ kind = "binary" =>
          LET read == ParseServiceIDBinary(wire)
          IN /\ ~damaged => read = Ok(value)
             /\ read.ok => ServiceIDBinary(read.value) = wire
    /\ kind = "string" =>
          LET read == ParseServiceIDString(wire)
          IN /\ ~damaged => read = Ok(value)
             /\ read.ok => ServiceIDString(read.value) = Lowered(wire)
    /\ kind \in {"binary", "string"} /\ ~damaged =>
          \A other \in ServiceIDs :
             /\ Compare(value, other) = 0 <=> value = other
             /\ Compare(value, other) = -Compare(other, value)

\* Two people who compare safety numbers learn the truth: each side computes
\* from its own identity key and from the one it has stored for the other, and
\* when both stored the right key the numbers are equal on both screens and
\* each device confirms the other's code; when either stored a wrong one no
\* device confirms.
SafetyNumbersAgree ==
    LET v == value
        a == NewFingerprint(v.versionA, v.iterations, v.idA, v.keyA, v.idB, v.seenB)
        b == NewFingerprint(v.versionB, v.iterations, v.idB, v.keyB, v.idA, v.seenA)
        right == v.seenA = v.keyA /\ v.seenB = v.keyB
    IN kind = "safety" =>
          /\ a.ok <=> v.iterations \in 2..maxIterations
          /\ a.ok <=> b.ok
          /\ a.ok =>
                LET A == a.value.scannable
                    B == b.value.scannable
                IN /\ right => a.value.display = b.value.display
                   /\ DeserializeScannableFingerprint(Serialize(A)) = Ok(A)
                   /\ CompareScanned(A, Serialize(B)).ok <=> v.versionA = v.versionB
                   /\ v.versionA = v.versionB =>
                         /\ CompareScanned(A, Serialize(B)).value <=> right
                         /\ CompareScanned(B, Serialize(A)).value <=> right

\* A username has one spelling: what Parse accepts is printed back as it was
\* typed, and the reservation hash, taken from the text or from its parts, is
\* that of the name in small letters.
UsernamesUnambiguous ==
    LET u == Parse(value)
    IN kind = "username" /\ u.ok =>
          /\ formatParts(u.value.nickname, u.value.discriminator) = value
          /\ ReserveUsernameHash(value) = ReserveUsernameHash(ToLower(value))
          /\ HashFromParts(u.value.nickname, u.value.discriminator) = ReserveUsernameHash(value)

\* The nickname scalar tells all accepted nicknames apart: the two bases of
\* usernameNicknameScalar number them without a gap or a clash, and the longest
\* stays below the group order.
NicknameScalarsDistinct ==
    LET u     == Parse(value)
        name  == ToLower(u.value.nickname)
        Names == UNION {[1..n -> Range(Letters) \cup Range(Digits) \cup {"_"}] :
                           n \in 1..maxNicknameLength}
    IN kind = "username" /\ u.ok =>
          \A other \in {s \in Names : validatePrefix(s) = ""} :
             usernameNicknameScalar(other) = usernameNicknameScalar(name) => other = name

\* Every candidate that CandidatesFrom may propose for a nickname is a
\* username with that nickname: the discriminators it draws are printed the
\* way Parse and FromParts want them, in every range, and no two are the same.
CandidatesParse ==
    LET limits == [min |-> 2, max |-> maxNicknameLength]
        counts == <<2, 1>>
    IN kind = "username" /\ Parse(value).ok =>
          LET nickname == Parse(value).value.nickname
          IN \A c \in Candidates(nickname, limits, counts) :
                /\ \A i \in DOMAIN c : \A j \in DOMAIN c[i] :
                      LET u == Parse(c[i][j])
                      IN /\ u.ok /\ u.value.nickname = nickname
                         /\ FromParts(nickname, SubSeq(c[i][j], Len(nickname) + 2, Len(c[i][j])),
                                      limits) = u
                /\ \A i, k \in DOMAIN c : \A j \in DOMAIN c[i], l \in DOMAIN c[k] :
                      c[i][j] = c[k][l] => i = k /\ j = l

\* A username link gives away nothing but itself: every link is as long as
\* every other whatever the username, and it opens with its own entropy, intact,
\* and not otherwise.
LinksOpaque ==
    /\ kind = "link" /\ ~damaged /\ wire.ok =>
          /\ wire.value.length = linkIVSize + 4 * linkAESBlockSize + linkHMACLen
          /\ DecryptUsername(value.entropy, wire.value) = Ok(value.username.text)
          /\ ~DecryptUsername(value.entropy + 1, wire.value).ok
    /\ kind = "link" /\ damaged => ~DecryptUsername(value.entropy, wire.value).ok

\* A key has one written form: whatever bytes a reader takes for a key, the key
\* is written as those bytes again, with the two liberties that the code takes
\* (what follows an X25519 public key is dropped, an X25519 private key is
\* clamped, once and for all).  A KEM pair that was read whole agrees on its
\* secret, and a ciphertext of another type or size is refused.
KeysReadBack ==
    /\ kind = "curve" =>
          LET read == DeserializeCurvePublicKey(wire)
          IN /\ ~damaged => read = Ok(value)
             /\ read.ok => IsPrefix(SerializeCurvePublicKey(read.value), wire)
    /\ kind = "private" =>
          LET read == DeserializeCurvePrivateKey(wire)
          IN read.ok => /\ DeserializeCurvePrivateKey(read.value) = read
                        /\ \A k \in DOMAIN wire \ {1, Len(wire)} : read.value[k] = wire[k]
                        /\ read.value[1] % 8 = 0 /\ read.value[Len(wire)] \in 64..127
    /\ kind = "kem" =>
          LET pub  == DeserializeKemPublicKey(wire.public)
              pair == KeyPairFromPublicAndSecret(wire.public, wire.secret)
              sent == Encapsulate(pair.value.public, 3)
          IN /\ ~damaged => pair = GenerateKemKeyPair(KeyTypeKyber1024, value)
             /\ pub.ok => serializeTagged(pub.value.keyType, pub.value.data) = wire.public
             /\ pair.ok => SerializedPair(pair) = wire
             /\ ~damaged => Decapsulate(pair.value.secret, sent.value.ct) = Ok(sent.value.ss)
             /\ pair.ok => \A ct \in DamagedText(sent.value.ct, KeyBytes) \ {sent.value.ct} :
                              LET got == Decapsulate(pair.value.secret, ct)
                              IN /\ got.ok => got.value # sent.value.ss
                                 /\ got.ok <=> Len(ct) = Len(sent.value.ct) /\ ct[1] = KeyTypeKyber1024

\* The entropy pool is drawn evenly: every character stands for as many random
\* bytes as every other, what is drawn can be parsed, and a reader that runs
\* dry gives an error and never a short pool.
EntropyEven ==
    kind = "entropy" =>
        LET pool == GenerateAccountEntropyPoolFrom(value)
            bytesOf(c) == Cardinality({b \in 0..255 : sampleByte(b) = <<c>>})
        IN /\ pool.ok => ParseAccountEntropyPool(pool.value) = pool
           /\ pool.ok <=> Cardinality({i \in DOMAIN value : value[i] < 252}) >= accountEntropyPoolLen
           /\ \A c \in 0..AlphabetSize - 1 : bytesOf(c) = bytesOf(0)

\* The hash of the local PIN answers for the PIN and for its own cost: the right
\* PIN is accepted, a wrong one is not, and a text that asks for other
\* parameters, or has lost or doubled some, is never the reason that a PIN is
\* accepted that the intact one refuses or is hashed at another cost.
LocalPinsVerify ==
    kind = "pin" =>
        /\ ~damaged => \A pin \in {v.pin : v \in Pins} :
                          VerifyLocalPINHash(wire, pin) = Ok(pin = value.pin)
        /\ damaged => \A pin \in {v.pin : v \in Pins} :
                         VerifyLocalPINHash(wire, pin) = Ok(TRUE) =>
                           /\ pin = value.pin
                           /\ wire.alg = "argon2i" /\ wire.version.value = 19
                           /\ ParamsOf(wire.params) = ParamsOf(LocalPINHashWithSalt(1, 1).params)

\* A master key comes back from under the PIN that sealed it, with that PIN's
\* salt, intact, and in no other case.
MasterKeysSealed ==
    kind = "master" =>
        \A other \in MasterKeys :
            LET read == DecodeMasterKey(CreatePinHash(other.pin, other.salt), wire)
                same == other.pin = value.pin /\ other.salt = value.salt
            IN /\ read.ok <=> same /\ ~damaged
               /\ read.ok => read.value = value.key

\* The blob of an MFA key tells nothing by its size and always fits: every legal
\* name with every time gives the one length, and reads back, the time cut to
\* the second, under its key, intact, and not otherwise.  In what another
\* implementation wrote, unknown groups, nested to any depth, make no
\* difference wherever they stand.
MetadataReadsBack ==
    LET group == <<WireField(9, "start", 0, 0), NameField(EmptyName), WireField(8, "start", 0, 0),
                   WireField(8, "end", 0, 0), NameField(EmptyName), WireField(9, "end", 0, 0)>>
    IN /\ kind = "metadata" /\ ~damaged =>
             /\ wire.ok <=> value.name.legal /\ value.name.length <= MFAKeyNameMaxLen
             /\ wire.ok => /\ wire.value.length = MFAMetadataCiphertextLen
                           /\ DecryptMetadata(wire.value, 1)
                                = Ok([value EXCEPT !.time.millis = 0])
                           /\ ~DecryptMetadata(wire.value, 2).ok
       /\ kind = "metadata" /\ damaged => ~DecryptMetadata(wire.value, 1).ok
       /\ kind = "foreign" =>
             \A i \in 0..Len(value) :
                LET padded == SubSeq(value, 1, i) \o group \o SubSeq(value, i + 1, Len(value))
                IN DecryptMetadata(SealMetadata(1, padded), 1) = DecryptMetadata(wire.value, 1)

\* DecryptCBC accepts exactly what EncryptCBC writes: the plaintext comes back,
\* and whatever other ciphertext is accepted is the encryption of what it gave.
PaddingExact ==
    kind = "cbc" =>
        LET read == DecryptCBC(wire, value.key, value.iv)
        IN /\ ~damaged => read = Ok(value.plain)
           /\ read.ok => EncryptCBC(read.value, value.key, value.iv) = wire

\* The stream does not depend on how it is cut: after any pieces the output is
\* the input under one key stream, a block for each value of the counter, the
\* counter wrapping at its own width and leaving the nonce alone.
StreamUncut ==
    kind = "stream" =>
        \A i \in DOMAIN wire.out :
            LET counter == (value.counter + (i - 1) \div blockSize) % 2^(ByteBits * CounterBytes)
                block   == AES(value.key, value.nonce \o BigEndian(counter, CounterBytes))
            IN wire.out[i] = xor(value.data[i], block[((i - 1) % blockSize) + 1])

\* x^e in the field, from the definition of the field alone.
PowerOf[e \in 0..4 * LimbBits] ==
    IF e < 2 * LimbBits THEN {e}
    ELSE LET up == {b + 1 : b \in PowerOf[e - 1]}
         IN IF 2 * LimbBits \in up THEN xor(up \ {2 * LimbBits}, PolyvalOffsets) ELSE up

Product(a, b) ==
    {k \in 0..2 * LimbBits - 1 :
        Cardinality({p \in a \X b : k \in PowerOf[p[1] + p[2]]}) % 2 = 1}
Whole(e) == e.lo \cup {b + LimbBits : b \in e.hi}

\* POLYVAL is the polynomial in H that its comment promises, the products taken
\* in the field and divided by x to the width of a block: limbs, Karatsuba's
\* middle term and the folding of the high bits change nothing.
PolyvalIsPolynomial ==
    kind = "hash" =>
        LET h == LittleEndianBits(value.h)
            x(i) == LittleEndianBits(BlockOf(value.blocks, i))
            s == Len(value.blocks) \div blockSize
            top == PowerOf[2 * LimbBits]
            scaled[i \in 0..s] == IF i = 0 THEN {}
                                  ELSE xor(Product(scaled[i - 1], h),
                                           Product(Product(x(i), h),
                                                   FoldLeft(LAMBDA p, k : Product(p, top), {0},
                                                            [k \in 1..i - 1 |-> k])))
            hash == Whole(polyval(bytesToFieldElement(value.h), value.blocks))
        IN FoldLeft(LAMBDA p, k : Product(p, top), hash, [k \in 1..s |-> k]) = scaled[s]

\* GCM-SIV opens what it sealed, and opens exactly that: any other ciphertext or
\* tag that is accepted under a key, a nonce and associated data is the sealing
\* of what it gives.
SealingExact ==
    kind = "siv" =>
        /\ wire.ok <=> Len(value.plain) <= maxPlaintextLen /\ Len(value.aad) <= maxADLen
        /\ wire.ok =>
              LET read == Open(value.key, value.nonce, wire.value, value.aad)
              IN /\ ~damaged => read = Ok(value.plain)
                 /\ read.ok => Seal(value.key, value.nonce, read.value, value.aad) = wire

-----------------------------------------------------------------------------
\* Every message and key the library writes has one meaning to its reader:
\* protocol messages, SPQR messages and serialized keys are read back as they
\* were written (the Serialize and Deserialize functions of protocol, spqr,
\* curve and kem).
FormsReadBack == MessagesReadBack /\ SpqrMessagesReadBack /\ KeysReadBack

\* A damaged message is refused, fails its MAC or signature, or still has all
\* the session layer asks of it: no fault of the transport passes for a message
\* that the peer did not write (VerifyMAC, VerifySignature and the checks of
\* DeserializePreKeySignalMessage).
DamageShows == DamageDetected /\ PreKeyMessagesComplete

\* No two people share a name and nobody has two spellings of one: service ids
\* and usernames are parsed to what prints as they do, the scalars behind the
\* username hash are distinct, and proposed candidates are names (packages
\* address and usernames).
NamesUnambiguous ==
    /\ ServiceIdsUnambiguous
    /\ UsernamesUnambiguous /\ NicknameScalarsDistinct /\ CandidatesParse

\* What an account keeps secret comes back under its own secret, intact, and in
\* no other case, and tells nothing by its length: username links, the master
\* key under the PIN, the local PIN hash, MFA metadata and the entropy pool
\* (packages usernames and accountkeys).
AccountSecretsKept ==
    /\ LinksOpaque /\ MasterKeysSealed /\ MetadataReadsBack
    /\ LocalPinsVerify /\ EntropyEven

\* The ciphers accept exactly what they produce and compute what their standards
\* say, however the input is cut: CBC with its padding, the counter stream,
\* POLYVAL and AES-GCM-SIV (package internal/crypto).
CiphersExact == PaddingExact /\ StreamUncut /\ PolyvalIsPolynomial /\ SealingExact

=============================================================================
