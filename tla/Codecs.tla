------------------------------- MODULE Codecs -------------------------------
(***************************************************************************)
(* Everything the library writes to be read again: protocol messages, SPQR *)
(* messages, service ids, safety numbers, usernames and username links,    *)
(* keys, account secrets and ciphertexts.  A value is written, at most one *)
(* part of what was written is damaged on its way, and it is read; kind    *)
(* tells which codec is at work.  The damage is that of a faulty transport *)
(* or disk: a lost or changed field, byte or character, or a truncation.   *)
(* A stream cipher is fed in pieces of any size.                           *)
(***************************************************************************)
EXTENDS WireMessages, SpqrWire, ServiceIds, Fingerprint, Usernames, Keys, AccountKeys, Ciphers

CONSTANTS
    SignalMessages, PreKeySignalMessages, SenderKeyMessages, DistributionMessages,
    DecryptionErrors, SpqrMessages, ServiceIDs, SafetyViews, UsernameTexts, Links,
    CurveKeys, KemSeeds, EntropyBytes, Pins, MasterKeys, Metadata, ForeignPlaintexts,
    CbcTexts, Streams, HashInputs, SivTexts,
    VersionBytes, Chars, CipherBytes

VARIABLES kind, value, wire, damaged

vars == <<kind, value, wire, damaged>>

SerializedPair(pair) ==
    [public |-> serializeTagged(pair.value.public.keyType, pair.value.public.data),
     secret |-> serializeTagged(pair.value.secret.keyType, pair.value.secret.data)]

Init ==
    /\ damaged = FALSE
    /\ \/ kind = "signal"    /\ value \in SignalMessages /\ wire = NewSignalMessage(value)
       \/ kind = "prekey"    /\ value \in PreKeySignalMessages
                             /\ wire = NewPreKeySignalMessage(value)
       \/ kind = "senderkey" /\ value \in SenderKeyMessages /\ wire = NewSenderKeyMessage(value)
       \/ kind = "distribution" /\ value \in DistributionMessages
                                /\ wire = NewSenderKeyDistributionMessage(value)
       \/ kind = "plaintext" /\ value \in DecryptionErrors
                             /\ wire = NewPlaintextContentFromDecryptionError(value)
       \/ kind = "spqr"      /\ value \in SpqrMessages
                             /\ wire = serializeMessage(value.m, value.index) \o value.rest
       \/ kind = "binary"    /\ value \in ServiceIDs /\ wire = ServiceIDBinary(value)
       \/ kind = "string"    /\ value \in ServiceIDs /\ wire = ServiceIDString(value)
       \/ kind = "safety"    /\ value \in SafetyViews /\ wire = <<>>
       \/ kind = "username"  /\ value \in UsernameTexts /\ wire = value
       \/ kind = "link"      /\ value \in Links
                             /\ wire = encryptUsernameLink(value.username, value.entropy, value.iv)
       \/ kind = "curve"     /\ value \in CurveKeys /\ wire = SerializeCurvePublicKey(value)
       \/ kind = "private"   /\ value \in CurveKeys /\ wire = value
       \/ kind = "kem"       /\ value \in KemSeeds
                             /\ wire = SerializedPair(GenerateKemKeyPair(KeyTypeKyber1024, value))
       \/ kind = "entropy"   /\ value \in EntropyBytes /\ wire = <<>>
       \/ kind = "pin"       /\ value \in Pins /\ wire = LocalPINHashWithSalt(value.pin, value.salt)
       \/ kind = "master"    /\ value \in MasterKeys
                             /\ wire = EncodeMasterKey(CreatePinHash(value.pin, value.salt), value.key)
       \/ kind = "metadata"  /\ value \in Metadata /\ wire = EncryptMetadata(value, 1)
       \/ kind = "foreign"   /\ value \in ForeignPlaintexts /\ wire = Ok(SealMetadata(1, value))
       \/ kind = "cbc"       /\ value \in CbcTexts
                             /\ wire = EncryptCBC(value.plain, value.key, value.iv)
       \/ kind = "stream"    /\ value \in Streams
                             /\ wire = [stream |-> NewAES256CTR32(value.key, value.nonce, value.counter),
                                        out |-> <<>>]
       \/ kind = "hash"      /\ value \in HashInputs /\ wire = <<>>
       \/ kind = "siv"       /\ value \in SivTexts
                             /\ wire = Seal(value.key, value.nonce, value.plain, value.aad)

Without(body, field) == [f \in DOMAIN body \ {field} |-> body[f]]

\* Another value of the same type: a broken key, a longer byte string, the
\* next number.
Changed(v, field) ==
    IF field \in {"ratchetKey", "baseKey", "identityKey", "signingKey"} THEN "broken"
    ELSE IF field \in {"ciphertext", "pqRatchet", "addresses", "kyberCiphertext", "chainKey",
                       "distributionUuid"} THEN v \o v
    ELSE v + 1

DamagedMessage(w) ==
    {[w EXCEPT !.cut = TRUE], [w EXCEPT !.body = Nil]}
    \cup {[w EXCEPT !.byte = b] : b \in VersionBytes \ {w.byte}}
    \cup {[w EXCEPT !.body = Without(@, f)] : f \in DOMAIN w.body}
    \cup {[w EXCEPT !.body[f] = Changed(@, f)] : f \in DOMAIN w.body \ {"message"}}

DamagedText(w, symbols) ==
    {SubSeq(w, 1, n) : n \in 0..Len(w) - 1}
    \cup {RemoveAt(w, i) : i \in DOMAIN w}
    \cup {[w EXCEPT ![i] = c] : i \in DOMAIN w, c \in symbols}

KeyBytes == {KeyTypeDjb, KeyTypeKyber1024, KeyTypeMLKEM1024, 0, 255}

DamagedPHC(w) ==
    {[w EXCEPT !.pieces = 5], [w EXCEPT !.lead = "x"], [w EXCEPT !.alg = "argon2id"],
     [w EXCEPT !.version.prefix = "w="], [w EXCEPT !.version.value = NaN],
     [w EXCEPT !.version.value = 16], [w EXCEPT !.salt.bytes = @ + 1],
     [w EXCEPT !.salt.length = 15], [w EXCEPT !.hash.valid = FALSE]}
    \cup {[w EXCEPT !.params = RemoveAt(@, i)] : i \in DOMAIN w.params}
    \cup {[w EXCEPT !.params[i].key = k] : i \in DOMAIN w.params, k \in {"m", "t", "q"}}
    \cup {[w EXCEPT !.params[i].value = v] : i \in DOMAIN w.params, v \in {NaN, 8, 512}}
    \cup {[w EXCEPT !.params = @ \o <<[key |-> k, value |-> v]>>] : k \in {"m", "t"}, v \in {8, 512}}

Damage ==
    /\ ~damaged
    /\ \/ /\ kind \in {"signal", "prekey", "senderkey", "distribution", "plaintext"}
          /\ wire' \in DamagedMessage(wire) \ {wire}
       \/ /\ kind = "prekey"
          /\ wire' \in {[wire EXCEPT !.body.message = w] : w \in DamagedMessage(wire.body.message)}
       \/ kind = "spqr"   /\ wire' \in DamagedText(wire, 0..2 * Group - 1) \ {wire}
       \/ kind = "binary" /\ wire' \in DamagedText(wire, 0..2) \cup {<<0>> \o wire}
       \/ kind = "string" /\ wire' \in DamagedText(wire, Chars) \ {wire}
       \/ /\ kind = "link" /\ wire.ok
          /\ wire' \in {[wire EXCEPT !.value.length = linkIVSize],
                        [wire EXCEPT !.value.sealed.iv = @ + 1],
                        [wire EXCEPT !.value.mac = <<usernameLinkHKDF(value.entropy + 1,
                                                            "Authentication"), @[2]>>]}
       \/ kind \in {"curve", "private"} /\ wire' \in DamagedText(wire, KeyBytes) \cup {wire \o <<7>>}
       \/ /\ kind = "kem"
          /\ wire' \in {[wire EXCEPT !.public = w] :
                            w \in DamagedText(wire.public, KeyBytes) \cup {wire.public \o <<7>>}}
                        \cup {[wire EXCEPT !.secret = w] : w \in DamagedText(wire.secret, KeyBytes)}
       \/ kind = "pin" /\ wire' \in DamagedPHC(wire)
       \/ /\ kind = "master"
          /\ wire' \in {[wire EXCEPT !.iv.of = Unmasked("other")],
                        [wire EXCEPT !.body = Xor(@, PinMask(CreatePinHash(0, 0), wire.iv))]}
       \/ /\ kind = "metadata" /\ wire.ok
          /\ wire' \in {[wire EXCEPT !.value.length = @ - 1], [wire EXCEPT !.value.content.padding = @ + 1],
                        [wire EXCEPT !.value.mac.key = <<2, "auth">>]}
       \/ kind = "cbc" /\ wire' \in DamagedText(wire, CipherBytes) \ {wire}
       \/ /\ kind = "siv" /\ wire.ok
          /\ wire' \in {Ok(w) : w \in DamagedText(wire.value, CipherBytes) \ {wire.value}}
    /\ damaged' = TRUE
    /\ UNCHANGED <<kind, value>>

\* The caller of a stream passes its next bytes, as many as it has at hand.
Feed ==
    /\ kind = "stream"
    /\ \E n \in 1..Len(value.data) - Len(wire.out) :
          LET piece == SubSeq(value.data, Len(wire.out) + 1, Len(wire.out) + n)
              done  == Process(wire.stream, piece)
          IN wire' = [stream |-> done.stream, out |-> wire.out \o done.out]
    /\ UNCHANGED <<kind, value, damaged>>

Next == Damage \/ Feed

Spec == Init /\ [][Next]_vars

=============================================================================
