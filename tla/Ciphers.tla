------------------------------- MODULE Ciphers ------------------------------
(***************************************************************************)
(* The modes of internal/crypto around the AES block cipher: CBC with its  *)
(* padding (aescbc.go), the CTR stream with a 32-bit counter (aesctr.go)   *)
(* and GCM-SIV with its hash POLYVAL (gcmsiv).  A byte is the set of its   *)
(* bits that are one, so XOR is the symmetric difference; a block is a     *)
(* sequence of 2 * HalfBytes bytes.                                        *)
(***************************************************************************)
EXTENDS Integers, Sequences, FiniteSets, SequencesExt, Outcome

CONSTANTS
    AES(_, _), AESInverse(_, _),    \* external: the block cipher, of a key and a block
    ByteBits,                       \* 8
    HalfBytes,                      \* 8
    CounterBytes,                   \* 4: the counter; the nonce is the rest of a block
    PolyvalOffsets,                 \* {127, 126, 121, 0}: the field polynomial without its top
    xInv,                           \* x^-128 in that field
    maxPlaintextLen, maxADLen       \* 2^36 - 1 and 2^36

blockSize == 2 * HalfBytes
NonceLen  == blockSize - CounterBytes

xor(a, b) == (a \ b) \cup (b \ a)
XorBytes(s, t) == [i \in DOMAIN s |-> xor(s[i], t[i])]
ValueOfBits(bits) == FoldSet(LAMBDA b, n : n + 2^b, 0, bits)
BitsOf(n, width) == {b \in 0..width - 1 : (n \div 2^b) % 2 = 1}
ByteOf(n) == BitsOf(n, ByteBits)

\* encoding/binary
LittleEndian(n, bytes) == [i \in 1..bytes |-> ByteOf(n \div 2^(ByteBits * (i - 1)))]
BigEndian(n, bytes)    == Reverse(LittleEndian(n, bytes))
LittleEndianBits(s) == UNION {{ByteBits * (i - 1) + b : b \in s[i]} : i \in DOMAIN s}
BlockOf(s, i) == SubSeq(s, (i - 1) * blockSize + 1, i * blockSize)

-----------------------------------------------------------------------------
\* aescbc.go.  The chaining of crypto/cipher is external.

CBCEncrypt(key, iv, s) ==
    FlattenSeq(Tail(FoldLeft(LAMBDA out, i : Append(out, AES(key, XorBytes(BlockOf(s, i), Last(out)))),
                             <<iv>>, [i \in 1..Len(s) \div blockSize |-> i])))
CBCDecrypt(key, iv, s) ==
    FlattenSeq([i \in 1..Len(s) \div blockSize |->
        XorBytes(AESInverse(key, BlockOf(s, i)), IF i = 1 THEN iv ELSE BlockOf(s, i - 1))])

pkcs7Pad(data) ==
    LET pad == blockSize - (Len(data) % blockSize)
    IN data \o [i \in 1..pad |-> ByteOf(pad)]

pkcs7Unpad(data) ==
    LET n   == Len(data)
        pad == ValueOfBits(data[n])
    IN IF n = 0 \/ n % blockSize # 0 \/ pad \notin 1..blockSize THEN Err("padding")
       ELSE IF \E i \in 0..blockSize - 1 :
                  blockSize - pad <= i /\ data[n - blockSize + i + 1] # ByteOf(pad)
       THEN Err("padding")
       ELSE Ok(SubSeq(data, 1, n - pad))

EncryptCBC(plaintext, key, iv) == CBCEncrypt(key, iv, pkcs7Pad(plaintext))

DecryptCBC(ciphertext, key, iv) ==
    IF ciphertext = <<>> \/ Len(ciphertext) % blockSize # 0 THEN Err("ErrBadCiphertext")
    ELSE LET out == pkcs7Unpad(CBCDecrypt(key, iv, ciphertext))
         IN IF out.ok THEN out ELSE Err("ErrBadCiphertext")

-----------------------------------------------------------------------------
\* aesctr.go: a stream that is fed in pieces.

NewAES256CTR32(key, nonce, initCtr) ==
    [key |-> key, nonce |-> nonce, counter |-> initCtr, keystream |-> <<>>, used |-> 0,
     hasBlock |-> FALSE]

fillKeystream(c) ==
    [c EXCEPT !.keystream = AES(c.key, c.nonce \o BigEndian(c.counter, CounterBytes)),
              !.counter = (@ + 1) % 2^(ByteBits * CounterBytes), !.used = 0, !.hasBlock = TRUE]

ProcessByte(s, b) ==
    LET c == IF ~s.stream.hasBlock \/ s.stream.used = blockSize
             THEN fillKeystream(s.stream) ELSE s.stream
    IN [stream |-> [c EXCEPT !.used = @ + 1],
        out |-> Append(s.out, xor(b, c.keystream[c.used + 1]))]

\* A stream that begins every piece with a block of its own.
ProcessFresh(stream, buf) ==
    FoldLeft(ProcessByte, [stream |-> [stream EXCEPT !.hasBlock = FALSE], out |-> <<>>], buf)

Process(stream, buf) == FoldLeft(ProcessByte, [stream |-> stream, out |-> <<>>], buf)

-----------------------------------------------------------------------------
\* gcmsiv/polyval.go: a limb holds the coefficients of LimbBits powers of x.

LimbBits == ByteBits * HalfBytes

fieldElement(lo, hi) == [lo |-> lo, hi |-> hi]

bytesToFieldElement(b) ==
    fieldElement(LittleEndianBits(SubSeq(b, 1, HalfBytes)),
                 LittleEndianBits(SubSeq(b, HalfBytes + 1, blockSize)))

FieldBytes(e) ==
    LittleEndian(ValueOfBits(e.lo), HalfBytes) \o LittleEndian(ValueOfBits(e.hi), HalfBytes)

\* x * y without carries: x shifted by every bit of y and added without carry;
\* what leaves the low limb goes to the high one.
clmul64(x, y) ==
    LET product == {k \in 0..2 * LimbBits - 1 : Cardinality({i \in y : k - i \in x}) % 2 = 1}
    IN [lo |-> {k \in product : k < LimbBits},
        hi |-> {k - LimbBits : k \in {l \in product : l >= LimbBits}}]

\* Karatsuba's product.
clmul128(a, b) ==
    LET low  == clmul64(a.lo, b.lo)
        high == clmul64(a.hi, b.hi)
        mid  == clmul64(xor(a.lo, a.hi), xor(b.lo, b.hi))
        midLo == xor(mid.lo, xor(low.lo, high.lo))
        midHi == xor(mid.hi, xor(low.hi, high.hi))
    IN <<low.lo, xor(low.hi, midLo), xor(high.lo, midHi), high.hi>>

\* One bit of the product folded into lower ones by the field polynomial.
FoldBit(z, k) ==
    IF k \in z THEN xor(z \ {k}, {k - 2 * LimbBits + o : o \in PolyvalOffsets}) ELSE z

\* The limbs of a product put together, and the halves of what is left of it.
Joined(limbs) == UNION {{(i - 1) * LimbBits + b : b \in limbs[i]} : i \in 1..4}
Halves(z) ==
    fieldElement({b \in z : b < LimbBits}, {b - LimbBits : b \in {c \in z : c >= LimbBits}})

\* Folding from the top bit down.
reduce(limbs) ==
    LET z[k \in 2 * LimbBits..4 * LimbBits] ==
            IF k = 4 * LimbBits THEN Joined(limbs) ELSE FoldBit(z[k + 1], k)
    IN Halves(z[2 * LimbBits])

mul(e, other) == reduce(clmul128(e, other))

\* op(v), with v evaluated before op is.
Then(v, op(_)) == CHOOSE r \in {op(w) : w \in {v}} : TRUE

dot(e, other) == Then(mul(e, other), LAMBDA product : mul(product, Halves(xInv)))

polyval(h, blocks) ==
    LET x(i) == bytesToFieldElement(BlockOf(blocks, i))
        acc[i \in 0..Len(blocks) \div blockSize] ==
            IF i = 0 THEN fieldElement({}, {})
            ELSE Then(acc[i - 1],
                      LAMBDA a : dot(fieldElement(xor(a.lo, x(i).lo), xor(a.hi, x(i).hi)), h))
    IN acc[Len(blocks) \div blockSize]

-----------------------------------------------------------------------------
\* gcmsiv/gcmsiv.go

deriveKeys(key, nonce) ==
    LET half(ctr) == SubSeq(AES(key, LittleEndian(ctr, CounterBytes) \o nonce), 1, HalfBytes)
    IN [auth |-> half(0) \o half(1), enc |-> half(2) \o half(3) \o half(4) \o half(5)]

lengthBlock(aadLen, plaintextLen) ==
    LittleEndian(aadLen * ByteBits, HalfBytes) \o LittleEndian(plaintextLen * ByteBits, HalfBytes)

Padded(data) == data \o [i \in 1..(blockSize - (Len(data) % blockSize)) % blockSize |-> {}]

computeTag(keys, nonce, plaintext, aad) ==
    LET buf == Padded(aad) \o Padded(plaintext) \o lengthBlock(Len(aad), Len(plaintext))
        s   == FieldBytes(polyval(bytesToFieldElement(keys.auth), buf))
        n   == XorBytes(s, nonce \o [i \in 1..CounterBytes |-> {}])
    IN AES(keys.enc, [n EXCEPT ![blockSize] = @ \ {ByteBits - 1}])

ctrCounterBlock(tag) == [tag EXCEPT ![blockSize] = @ \cup {ByteBits - 1}]

ctrCrypt(key, initialCtr, src) ==
    LET counter == ValueOfBits(LittleEndianBits(SubSeq(initialCtr, 1, CounterBytes)))
        stream(i) == AES(key, LittleEndian(counter + i, CounterBytes)
                                \o SubSeq(initialCtr, CounterBytes + 1, blockSize))
    IN [i \in DOMAIN src |->
          xor(src[i], stream((i - 1) \div blockSize)[((i - 1) % blockSize) + 1])]

Seal(key, nonce, plaintext, aad) ==
    LET Sealed(keys, tag) == Ok(ctrCrypt(keys.enc, ctrCounterBlock(tag), plaintext) \o tag)
    IN IF Len(plaintext) > maxPlaintextLen \/ Len(aad) > maxADLen THEN Err("ErrInputTooLong")
       ELSE Then(deriveKeys(key, nonce), LAMBDA keys :
              Then(computeTag(keys, nonce, plaintext, aad), LAMBDA tag : Sealed(keys, tag)))

Open(key, nonce, sealed, aad) ==
    LET ctLen == Len(sealed) - blockSize
        tag   == SubSeq(sealed, ctLen + 1, Len(sealed))
        Checked(keys, plaintext) ==
            IF computeTag(keys, nonce, plaintext, aad) # tag THEN Err("ErrOpen") ELSE Ok(plaintext)
    IN IF ctLen < 0 THEN Err("ErrOpen")
       ELSE IF ctLen > maxPlaintextLen \/ Len(aad) > maxADLen THEN Err("ErrInputTooLong")
       ELSE Then(deriveKeys(key, nonce), LAMBDA keys :
              Then(ctrCrypt(keys.enc, ctrCounterBlock(tag), SubSeq(sealed, 1, ctLen)),
                   LAMBDA plaintext : Checked(keys, plaintext)))

=============================================================================
