-------------------------------- MODULE Keys --------------------------------
(***************************************************************************)
(* Keys as they are written and read: curve/curve.go and curve/keypair.go  *)
(* for X25519, kem/kem.go and kem/kyber1024.go for the KEM.  A written key *)
(* is a sequence of bytes, the first of which names the type of key; an    *)
(* X25519 private key is bare.                                             *)
(***************************************************************************)
EXTENDS Integers, Sequences, SequencesExt, Outcome

CONSTANTS
    CurveKeyLength,     \* 32, public and private
    KemPublicLength, KemSecretLength, KemCiphertextLength   \* 1568, 3168, 1568

KeyTypeDjb       == 5
KeyTypeKyber1024 == 8
KeyTypeMLKEM1024 == 10

-----------------------------------------------------------------------------
\* curve

SerializeCurvePublicKey(key) == <<KeyTypeDjb>> \o key

\* What follows the key is allowed, and dropped.
DeserializeCurvePublicKey(value) ==
    IF value = <<>> THEN Err("ErrNoKeyTypeIdentifier")
    ELSE IF value[1] # KeyTypeDjb THEN Err("BadKeyTypeError")
    ELSE IF Len(value) - 1 < CurveKeyLength THEN Err("BadKeyLengthError")
    ELSE Ok(SubSeq(value, 2, CurveKeyLength + 1))

clamp(scalar) == [scalar EXCEPT ![1] = @ - (@ % 8), ![Len(scalar)] = (@ % 64) + 64]

DeserializeCurvePrivateKey(value) ==
    IF Len(value) # CurveKeyLength THEN Err("BadKeyLengthError") ELSE Ok(clamp(value))

-----------------------------------------------------------------------------
\* kem.  circl's Kyber1024 is external: a seed gives a pair, and whoever
\* decapsulates gets a secret that is that of the encapsulation when the pair
\* and the ciphertext are, and some other one when they are not.

KemGenerate(seed) ==
    [public |-> [i \in 1..KemPublicLength |-> seed], secret |-> [i \in 1..KemSecretLength |-> seed]]
KemEncapsulate(public, r) ==
    LET ct == [i \in 1..KemCiphertextLength |-> r]
    IN [ss |-> <<public[1], ct>>, ct |-> ct]
KemDecapsulate(secret, ct) == <<secret[1], ct>>

parametersFor(k) ==
    IF k = KeyTypeKyber1024 THEN Ok("Kyber1024")
    ELSE IF k = KeyTypeMLKEM1024 THEN Err("UnsupportedKEMKeyTypeError")
    ELSE Err("BadKEMKeyTypeError")

serializeTagged(keyType, data) == <<keyType>> \o data

parseTagged(value) ==
    IF value = <<>> THEN Err("ErrNoKeyTypeIdentifier")
    ELSE IF ~parametersFor(value[1]).ok THEN parametersFor(value[1])
    ELSE Ok([keyType |-> value[1], data |-> Tail(value)])

DeserializeKemPublicKey(value) ==
    LET read == parseTagged(value)
    IN IF read.ok /\ Len(read.value.data) # KemPublicLength THEN Err("BadKEMKeyLengthError")
       ELSE read

DeserializeKemSecretKey(value) ==
    LET read == parseTagged(value)
    IN IF read.ok /\ Len(read.value.data) # KemSecretLength THEN Err("BadKEMKeyLengthError")
       ELSE read

parseTaggedCiphertext(value) ==
    LET read == parseTagged(value)
    IN IF read.ok /\ Len(read.value.data) # KemCiphertextLength
       THEN Err("BadKEMCiphertextLengthError")
       ELSE read

Encapsulate(key, r) ==
    LET made == KemEncapsulate(key.data, r)
    IN IF ~parametersFor(key.keyType).ok THEN parametersFor(key.keyType)
       ELSE Ok([ss |-> made.ss, ct |-> serializeTagged(key.keyType, made.ct)])

Decapsulate(key, ciphertext) ==
    LET ct == parseTaggedCiphertext(ciphertext)
    IN IF ~ct.ok THEN ct
       ELSE IF ct.value.keyType # key.keyType THEN Err("WrongKEMKeyTypeError")
       ELSE IF ~parametersFor(key.keyType).ok THEN parametersFor(key.keyType)
       ELSE Ok(KemDecapsulate(key.data, ct.value.data))

GenerateKemKeyPair(keyType, seed) ==
    LET made == KemGenerate(seed)
    IN IF ~parametersFor(keyType).ok THEN parametersFor(keyType)
       ELSE Ok([public |-> [keyType |-> keyType, data |-> made.public],
                secret |-> [keyType |-> keyType, data |-> made.secret]])

\* The two keys must be of one type; whether they belong together is not asked.
KeyPairFromPublicAndSecret(publicKey, secretKey) ==
    LET pub == DeserializeKemPublicKey(publicKey)
        sec == DeserializeKemSecretKey(secretKey)
    IN IF ~pub.ok THEN pub
       ELSE IF ~sec.ok THEN sec
       ELSE IF pub.value.keyType # sec.value.keyType THEN Err("WrongKEMKeyTypeError")
       ELSE Ok([public |-> pub.value, secret |-> sec.value])

=============================================================================
