----------------------------- MODULE Usernames ------------------------------
(***************************************************************************)
(* Usernames and username links, usernames/usernames.go.  A string is a    *)
(* sequence of one-character strings.  The alphabet is a parameter: the    *)
(* letters (26 in the code) with their capitals, and the digits (10),      *)
(* which are also the base that discriminators are written in.             *)
(***************************************************************************)
EXTENDS Integers, SequencesExt, Outcome

CONSTANTS
    Letters, Capitals, Digits,  \* sequences; Capitals[i] lowers to Letters[i]
    maxNicknameLength,          \* 48
    ScalarOrder,                \* the order of the ristretto255 group
    DiscriminatorLimit,         \* 2^64
    linkAESBlockSize,           \* 16
    linkIVSize, linkHMACLen

Base == Len(Digits)

IndexIn(s, c) == CHOOSE i \in DOMAIN s : s[i] = c

ToLower(s) ==
    [i \in DOMAIN s |-> IF s[i] \in Range(Capitals) THEN Letters[IndexIn(Capitals, s[i])]
                                                    ELSE s[i]]

validNicknameByte(b) == b = "_" \/ b \in Range(Letters) \/ b \in Range(Digits)

\* An error, or "" for nil.
validatePrefix(s) ==
    IF s = <<>> THEN "ErrNicknameCannotBeEmpty"
    ELSE IF s[1] \in Range(Digits) THEN "ErrNicknameCannotStartWithDigit"
    ELSE ""

validateNicknameHard(nickname) ==
    IF \E b \in Range(ToLower(nickname)) : ~validNicknameByte(b) THEN "ErrBadNicknameCharacter"
    ELSE IF Len(nickname) > maxNicknameLength THEN "ErrNicknameTooLong"
    ELSE ""

ValidateLimits(limits, n) ==
    IF n < limits.min THEN "ErrNicknameTooShort"
    ELSE IF n > limits.max THEN "ErrNicknameTooLong"
    ELSE ""

NumberOf(digits) ==
    FoldLeft(LAMBDA n, c : n * Base + IndexIn(Digits, c) - 1, 0, digits)

validateDiscriminator(d) ==
    IF d = <<>> THEN Err("ErrDiscriminatorCannotBeEmpty")
    ELSE IF ~(Range(d) \subseteq Range(Digits)) THEN Err("ErrBadDiscriminatorCharacter")
    ELSE IF NumberOf(d) >= DiscriminatorLimit THEN Err("ErrDiscriminatorTooLarge")
    ELSE IF NumberOf(d) = 0 THEN Err("ErrDiscriminatorCannotBeZero")
    ELSE IF Len(d) = 1 THEN Err("ErrDiscriminatorCannotBeSingleDigit")
    ELSE IF Len(d) > 2 /\ d[1] = Digits[1] THEN Err("ErrDiscriminatorCannotHaveLeadingZeros")
    ELSE Ok(NumberOf(d))

fromPartsWithoutSoftLimit(nickname, discriminator) ==
    LET d == validateDiscriminator(discriminator)
    IN IF validatePrefix(nickname) # "" THEN Err(validatePrefix(nickname))
       ELSE IF ~d.ok THEN d
       ELSE IF validateNicknameHard(nickname) # "" THEN Err(validateNicknameHard(nickname))
       ELSE Ok([nickname |-> nickname, discriminator |-> d.value])

FromParts(nickname, discriminator, limits) ==
    LET u == fromPartsWithoutSoftLimit(nickname, discriminator)
    IN IF ~u.ok THEN u
       ELSE IF ValidateLimits(limits, Len(nickname)) # ""
       THEN Err(ValidateLimits(limits, Len(nickname)))
       ELSE u

\* Parse: the last dot separates.
Parse(s) ==
    LET dots == {i \in DOMAIN s : s[i] = "."}
        last == CHOOSE i \in dots : \A j \in dots : j <= i
    IN IF dots = {} THEN Err("ErrMissingSeparator")
       ELSE fromPartsWithoutSoftLimit(SubSeq(s, 1, last - 1), SubSeq(s, last + 1, Len(s)))

\* %02d: at least two digits.
FormatNumber(n) ==
    LET k == CHOOSE k \in 2..n + 2 : n < Base^k /\ (k = 2 \/ n >= Base^(k - 1))
    IN [i \in 1..k |-> Digits[1 + ((n \div Base^(k - i)) % Base)]]

formatParts(nickname, discriminator) == nickname \o <<".">> \o FormatNumber(discriminator)

-----------------------------------------------------------------------------
\* The reservation hash

usernameHashCharToByte(b) ==
    IF b = "_" THEN 1
    ELSE IF b \in Range(Letters) THEN IndexIn(Letters, b) + 1
    ELSE IndexIn(Digits, b) + 1 + Len(Letters)

\* The scalar with one base for every character.
usernameNicknameScalarOneBase(nickname) ==
    FoldRight(LAMBDA c, n : (n * (1 + Len(Letters)) + usernameHashCharToByte(c)) % ScalarOrder,
              nickname, 0)

\* From the last character to the second in base 37, and the first, which is
\* no digit, in base 27 (in the code's alphabet).
usernameNicknameScalar(nickname) ==
    LET first == 1 + Len(Letters)
        rest  == FoldRight(LAMBDA c, n : (n * (first + Base) + usernameHashCharToByte(c))
                                         % ScalarOrder,
                           Tail(nickname), 0)
    IN (rest * first + usernameHashCharToByte(nickname[1])) % ScalarOrder

\* MultiScalarMult over three independent base points: the three scalars.
ReserveHash(u) ==
    LET nickname == ToLower(u.nickname)
    IN <<[sha512 |-> <<nickname, u.discriminator>>], usernameNicknameScalar(nickname),
         u.discriminator>>

HashFromParts(nickname, discriminator) ==
    IF validatePrefix(nickname) # "" THEN Err(validatePrefix(nickname))
    ELSE IF validateNicknameHard(nickname) # "" THEN Err(validateNicknameHard(nickname))
    ELSE IF discriminator = 0 THEN Err("ErrDiscriminatorCannotBeZero")
    ELSE Ok(ReserveHash([nickname |-> nickname, discriminator |-> discriminator]))

ReserveUsernameHash(username) ==
    LET u == Parse(username) IN IF u.ok THEN Ok(ReserveHash(u.value)) ELSE u

\* discriminatorRanges: [1, B^2), [B^2, B^3), ...
DiscriminatorRange(i) == IF i = 1 THEN 1..Base^2 - 1 ELSE Base^i..Base^(i + 1) - 1

\* sampleRange: amount different values of the range, in the order drawn.
SampleRange(i, amount) ==
    {s \in [1..amount -> DiscriminatorRange(i)] : IsInjective(s)}

\* CandidatesFromReader, for the ranges and counts of candidatesPerRange.
Candidates(nickname, limits, candidatesPerRange) ==
    IF validatePrefix(nickname) # "" \/ validateNicknameHard(nickname) # ""
       \/ ValidateLimits(limits, Len(nickname)) # ""
    THEN {}
    ELSE {[i \in DOMAIN candidatesPerRange |->
              [j \in 1..candidatesPerRange[i] |-> formatParts(nickname, drawn[i][j])]] :
            drawn \in {d \in [DOMAIN candidatesPerRange ->
                                UNION {SampleRange(i, candidatesPerRange[i]) :
                                         i \in DOMAIN candidatesPerRange}] :
                          \A i \in DOMAIN d : d[i] \in SampleRange(i, candidatesPerRange[i])}}

-----------------------------------------------------------------------------
\* Links: the username, padded and encrypted under keys derived from the
\* link's entropy.  A username counts with its length.

LinkPadding(length) ==
    IF length < 3 * linkAESBlockSize THEN 3 * linkAESBlockSize - length ELSE 0

\* encodeUsernameData: tag and length byte of each field, then its bytes.
UsernameDataLength(length, padding) ==
    2 + length + (IF padding > 0 THEN 2 + padding ELSE 0)

\* AES-CBC with PKCS#7 padding: up to the next block, always at least a byte.
CBCLength(n) == (n \div linkAESBlockSize + 1) * linkAESBlockSize

usernameLinkHKDF(entropy, label) == <<entropy, label>>

encryptUsernameLink(username, entropy, iv) ==
    LET padding == LinkPadding(username.length)
        plain   == UsernameDataLength(username.length, padding)
        sealed  == [key |-> usernameLinkHKDF(entropy, "Encryption"), iv |-> iv,
                    username |-> username.text]
    IN IF plain >= 4 * linkAESBlockSize THEN Err("ErrInputDataTooLong")
       ELSE Ok([sealed |-> sealed, length |-> linkIVSize + CBCLength(plain) + linkHMACLen,
                  mac |-> <<usernameLinkHKDF(entropy, "Authentication"), sealed>>])

\* DecryptUsername: the MAC covers the IV and the ciphertext.
DecryptUsername(entropy, link) ==
    IF link.length <= linkIVSize + linkHMACLen THEN Err("ErrUsernameLinkDataTooShort")
    ELSE IF link.mac # <<usernameLinkHKDF(entropy, "Authentication"), link.sealed>>
    THEN Err("ErrHMACMismatch")
    ELSE IF link.sealed.key # usernameLinkHKDF(entropy, "Encryption") THEN Err("ErrBadCiphertext")
    ELSE Ok(link.sealed.username)

=============================================================================
