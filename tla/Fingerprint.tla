---------------------------- MODULE Fingerprint -----------------------------
(***************************************************************************)
(* Safety numbers, fingerprint/fingerprint.go: from both identities each   *)
(* side computes a numeric string that the two people compare and a        *)
(* scannable form that one device checks against the other's.  The hash is *)
(* a constant operator on sequences of naturals.                           *)
(***************************************************************************)
EXTENDS Integers, Sequences, Outcome

CONSTANTS
    Sha512(_),                  \* a sequence of naturals to one of bytes
    ByteSize,                   \* 256
    displayChunks, displayChunkBytes, DisplayModulus, DisplayDigits, DigitBase,
    scannableContentLen,
    maxIterations

minIterations == 1

\* getFingerprint: the hash chain over the identity and its key.
getFingerprint(iterations, localID, key) ==
    LET buf[i \in 0..iterations - 1] ==
            IF i = 0 THEN Sha512(<<0, 0, key, localID, key>>)
                     ELSE Sha512(buf[i - 1] \o <<key>>)
    IN IF iterations <= minIterations \/ iterations > maxIterations
       THEN Err("ErrInvalidIterationCount")
       ELSE Ok(buf[iterations - 1])

\* One chunk: its bytes big-endian, reduced, in DisplayDigits digits.
ChunkDigits(fprint, i) ==
    LET x[j \in 0..displayChunkBytes] ==
            IF j = 0 THEN 0
            ELSE x[j - 1] * ByteSize + fprint[(i - 1) * displayChunkBytes + j]
        reduced == x[displayChunkBytes] % DisplayModulus
    IN [d \in 1..DisplayDigits |-> (reduced \div DigitBase^(DisplayDigits - d)) % DigitBase]

getEncodedString(fprint) ==
    LET digits[i \in 0..displayChunks] ==
            IF i = 0 THEN <<>> ELSE digits[i - 1] \o ChunkDigits(fprint, i)
    IN IF Len(fprint) < displayChunks * displayChunkBytes THEN Err("ErrParsing")
       ELSE Ok(digits[displayChunks])

\* a < b on strings of one length.
Less(a, b) ==
    \E i \in DOMAIN a : a[i] < b[i] /\ \A j \in 1..i - 1 : a[j] = b[j]

DisplayString(local, remote) == IF Less(local, remote) THEN local \o remote ELSE remote \o local

newScannableFingerprint(version, local, remote) ==
    [version |-> version, local |-> SubSeq(local, 1, scannableContentLen),
     remote |-> SubSeq(remote, 1, scannableContentLen)]

NewFingerprint(version, iterations, localID, localKey, remoteID, remoteKey) ==
    LET local  == getFingerprint(iterations, localID, localKey)
        remote == getFingerprint(iterations, remoteID, remoteKey)
    IN IF ~local.ok THEN local
       ELSE IF ~remote.ok THEN remote
       ELSE LET l == getEncodedString(local.value)
                r == getEncodedString(remote.value)
            IN IF ~l.ok THEN l
               ELSE Ok([display |-> DisplayString(l.value, r.value),
                           scannable |-> newScannableFingerprint(version, local.value,
                                                                 remote.value)])

\* CombinedFingerprints: a function on the fields that are there.
Serialize(s) == [version |-> s.version, local |-> s.local, remote |-> s.remote]

DeserializeScannableFingerprint(combined) ==
    IF {"version", "local", "remote"} \subseteq DOMAIN combined
    THEN Ok([version |-> combined.version, local |-> combined.local,
                remote |-> combined.remote])
    ELSE Err("ErrParsing")

\* A comparison that expects the other side to see what we see.
CompareUnmirrored(s, combined) ==
    LET version == IF "version" \in DOMAIN combined THEN combined.version ELSE 0
    IN IF version # s.version THEN Err("ErrVersionMismatch")
       ELSE IF ~({"local", "remote"} \subseteq DOMAIN combined) THEN Err("ErrParsing")
       ELSE Ok(combined.local = s.local /\ combined.remote = s.remote)

\* Compare: a missing version is 0; the version is looked at first; the
\* other side holds the mirror image.
CompareScanned(s, combined) ==
    LET version == IF "version" \in DOMAIN combined THEN combined.version ELSE 0
    IN IF version # s.version THEN Err("ErrVersionMismatch")
       ELSE IF ~({"local", "remote"} \subseteq DOMAIN combined) THEN Err("ErrParsing")
       ELSE Ok(combined.local = s.remote /\ combined.remote = s.local)

=============================================================================
