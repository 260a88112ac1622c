----------------------------- MODULE AccountKeys ----------------------------
(***************************************************************************)
(* Package accountkeys: the account entropy pool, the PIN hash kept on the *)
(* device, the master key sealed under a PIN, and the sealed metadata of   *)
(* an MFA key.  Hashes are symbolic; XOR with a mask puts the mask on a    *)
(* value or takes it off.                                                  *)
(***************************************************************************)
EXTENDS Integers, Sequences, SequencesExt, Outcome

CONSTANTS
    accountEntropyPoolLen,  \* 64
    MaxSeconds              \* MaxUint64/1000, as groups of 7 bits, lowest first

-----------------------------------------------------------------------------
\* accountkeys.go: the entropy pool, as indices into the 36 characters.

AlphabetSize == 36

\* The character a random byte stands for, or none: the top four are rejected.
sampleByte(b) == IF b < 252 THEN <<b % AlphabetSize>> ELSE <<>>

GenerateAccountEntropyPoolFrom(bytes) ==
    LET drawn == FlattenSeq([i \in DOMAIN bytes |-> sampleByte(bytes[i])])
    IN IF Len(drawn) < accountEntropyPoolLen THEN Err("EOF")
       ELSE Ok(SubSeq(drawn, 1, accountEntropyPoolLen))

ParseAccountEntropyPool(s) ==
    IF Len(s) # accountEntropyPoolLen \/ \E i \in DOMAIN s : s[i] \notin 0..AlphabetSize - 1
    THEN Err("ErrInvalidAccountEntropyPool") ELSE Ok(s)

-----------------------------------------------------------------------------
\* accountkeys.go: the PHC string, split at its dollar signs.  A number that
\* does not parse is NaN; a base64 text is the length it decodes to, whether it
\* decodes, and what it stands for.

NaN == -1
localPINSaltLen == 16
localPINHashLen == 32

Base64(length, bytes) == [length |-> length, valid |-> TRUE, bytes |-> bytes]

Argon2i(pin, salt) == <<pin, salt>>

LocalPINHashWithSalt(pin, salt) ==
    [pieces |-> 6, lead |-> "", alg |-> "argon2i", version |-> [prefix |-> "v=", value |-> 19],
     params |-> <<[key |-> "m", value |-> 512], [key |-> "t", value |-> 64],
                  [key |-> "p", value |-> 1]>>,
     salt |-> Base64(localPINSaltLen, salt), hash |-> Base64(localPINHashLen, Argon2i(pin, salt))]

\* The parameters in the order of the text: a later one replaces an earlier one.
ParamsOf(params) ==
    FoldLeft(LAMBDA p, kv : [p EXCEPT ![kv.key] = kv.value], [m |-> 0, t |-> 0, p |-> 0], params)

parsePHC(e) ==
    IF \/ e.pieces # 6 \/ e.lead # ""
       \/ e.version.prefix # "v=" \/ e.version.value = NaN
       \/ \E i \in DOMAIN e.params : e.params[i].key \notin {"m", "t", "p"}
                                      \/ e.params[i].value = NaN
       \/ e.salt.length # localPINSaltLen \/ e.hash.length # localPINHashLen
       \/ ~e.salt.valid \/ ~e.hash.valid
    THEN Err("ErrInvalidPHCString")
    ELSE Ok([alg |-> e.alg, version |-> e.version.value, params |-> ParamsOf(e.params),
             salt |-> e.salt.bytes, hash |-> e.hash.bytes])

VerifyLocalPINHash(encoded, pin) ==
    LET read == parsePHC(encoded)
    IN IF ~read.ok THEN read
       ELSE IF read.value.alg # "argon2i" \/ read.value.version # 19
               \/ read.value.params # [m |-> 512, t |-> 64, p |-> 1]
       THEN Err("ErrInvalidPHCString")
       ELSE Ok(read.value.hash = Argon2i(pin, read.value.salt))

-----------------------------------------------------------------------------
\* svr_key.go: the master key under a PIN.

CreatePinHash(pin, salt) == <<pin, salt>>

Unmasked(secret) == [secret |-> secret, masks |-> {}]
Xor(v, mask) == [v EXCEPT !.masks = (@ \ {mask}) \cup ({mask} \ @)]

PinIV(h, masterKey) == [key |-> <<h, "auth">>, of |-> masterKey]
PinMask(h, iv)      == [key |-> <<h, "enc">>, of |-> iv]

EncodeMasterKey(h, masterKey) ==
    LET iv == PinIV(h, masterKey) IN [iv |-> iv, body |-> Xor(masterKey, PinMask(h, iv))]

DecodeMasterKey(h, c) ==
    LET masterKey == Xor(c.body, PinMask(h, c.iv))
    IN IF PinIV(h, masterKey) = c.iv THEN Ok(masterKey) ELSE Err("InvalidAuthentication")

-----------------------------------------------------------------------------
\* mfa_metadata.go.  A time is its seconds, as groups of 7 bits, and the
\* milliseconds over; a name is its length and whether it is a legal string.

MFAMetadataCiphertextLen == 160
MFAKeyNameMaxLen         == 98
mfaPaddedPlaintextLen    == 112
IVLen == 16
MACLen == 32

NewMFAMetadata(name, time) ==
    IF ~name.legal \/ name.length > MFAKeyNameMaxLen THEN Err("InvalidName")
    ELSE Ok([name |-> name, time |-> time])

mfaMetadataKeys(key) == [cipher |-> <<key, "cipher">>, auth |-> <<key, "auth">>]

\* protobuf: one field of the plaintext.  tagLen and prefixLen are the bytes that
\* the tag and the length prefix take; a field may end after the plaintext does.
EmptyName == [length |-> 0, legal |-> TRUE]
WireField(num, typ, prefixLen, size) ==
    [num |-> num, typ |-> typ, tagLen |-> 1, prefixLen |-> prefixLen, size |-> size,
     cut |-> FALSE, number |-> <<0>>, text |-> EmptyName]
TimeField(seconds) == [WireField(1, "varint", 0, Len(seconds)) EXCEPT !.number = seconds]
NameField(name)    == [WireField(2, "bytes", 1, name.length) EXCEPT !.text = name]

\* proto.Marshal leaves out what is zero.
MfaPlaintext(m) ==
    (IF m.time.seconds = <<0>> THEN <<>> ELSE <<TimeField(m.time.seconds)>>)
    \o (IF m.name.length = 0 THEN <<>> ELSE <<NameField(m.name)>>)

LengthOf(fields) ==
    FoldLeft(LAMBDA n, f : n + f.tagLen + f.prefixLen + f.size, 0, fields)

\* What any writer of these blobs encrypts.
SealMetadata(key, fields) ==
    LET keys == mfaMetadataKeys(key)
        content == [under |-> keys.cipher, fields |-> fields,
                    padding |-> mfaPaddedPlaintextLen - LengthOf(fields)]
    IN [length |-> IVLen + mfaPaddedPlaintextLen + MACLen, content |-> content,
        mac |-> [key |-> keys.auth, of |-> content]]

EncryptMetadata(m, key) ==
    LET fields == MfaPlaintext(m)
    IN IF ~NewMFAMetadata(m.name, m.time).ok THEN NewMFAMetadata(m.name, m.time)
       ELSE IF LengthOf(fields) >= mfaPaddedPlaintextLen THEN Err("errInvalidMFAMetadata")
       ELSE Ok(SealMetadata(key, fields))

\* The groups are dropped one level deep only.
mfaProtoPlaintextFlat(fields) ==
    FoldLeft(LAMBDA s, f :
        IF ~s.ok \/ f.tagLen > 5 \/ f.num = 0 \/ f.prefixLen > 5 \/ f.cut
        THEN [s EXCEPT !.ok = FALSE]
        ELSE IF f.typ = "start" THEN [s EXCEPT !.groups = 1]
        ELSE IF f.typ = "end" THEN [s EXCEPT !.groups = 0]
        ELSE IF s.groups = 0 THEN [s EXCEPT !.fields = Append(@, f)]
        ELSE s, [ok |-> TRUE, groups |-> 0, fields |-> <<>>], fields)

mfaProtoPlaintext(fields) ==
    FoldLeft(LAMBDA s, f :
        IF ~s.ok \/ f.tagLen > 5 \/ f.num = 0 \/ f.prefixLen > 5 \/ f.cut
           \/ (f.typ = "end" /\ s.groups = 0)
        THEN [s EXCEPT !.ok = FALSE]
        ELSE IF f.typ = "start" THEN [s EXCEPT !.groups = @ + 1]
        ELSE IF f.typ = "end" THEN [s EXCEPT !.groups = @ - 1]
        ELSE IF s.groups = 0 THEN [s EXCEPT !.fields = Append(@, f)]
        ELSE s, [ok |-> TRUE, groups |-> 0, fields |-> <<>>], fields)

\* proto.Unmarshal: the last field of a number wins, one of another type is
\* unknown and ignored.
LastOf(fields, num, typ) ==
    LET i == SelectLastInSeq(fields, LAMBDA f : f.num = num /\ f.typ = typ)
    IN IF i = 0 THEN WireField(num, typ, 0, 0) ELSE fields[i]

\* Numbers as groups: the longer is the larger, then the highest group decides.
Exceeds(a, b) ==
    \/ Len(a) > Len(b)
    \/ /\ Len(a) = Len(b)
       /\ \E i \in DOMAIN a : a[i] > b[i] /\ \A j \in i + 1..Len(a) : a[j] = b[j]

DecryptMetadata(blob, key) ==
    LET keys    == mfaMetadataKeys(key)
        fields  == blob.content.fields
        read    == mfaProtoPlaintext(fields)
        seconds == LastOf(read.fields, 1, "varint").number
        made    == NewMFAMetadata(LastOf(read.fields, 2, "bytes").text,
                                  [seconds |-> seconds, millis |-> 0])
    IN IF \/ blob.length # MFAMetadataCiphertextLen
          \/ blob.mac # [key |-> keys.auth, of |-> blob.content]
          \/ blob.content.padding \notin 1..mfaPaddedPlaintextLen
          \/ ~read.ok \/ read.groups # 0 \/ Exceeds(seconds, MaxSeconds) \/ ~made.ok
       THEN Err("errInvalidMFAMetadata") ELSE made

=============================================================================
