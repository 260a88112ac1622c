------------------------------ MODULE SpqrWire ------------------------------
(***************************************************************************)
(* The byte format of an SPQR message, spqr/message.go: a version byte,    *)
(* the epoch and the key index as varints, a type byte, and for five of    *)
(* the seven types a chunk.  A byte has GroupBits payload bits and one     *)
(* continuation bit (7 + 1 in the code), an integer WordBits bits (64), of *)
(* which a varint of MaxVarintBytes groups (10) carries a few more.        *)
(***************************************************************************)
EXTENDS Integers, Sequences, FiniteSetsExt

CONSTANTS
    GroupBits, WordBits, MaxVarintBytes,
    IndexBits,                  \* 32: what a key index has to fit
    ChunkIndexBits,             \* 16: what a chunk index has to fit
    ChunkSize                   \* 32: the bytes of a chunk

Group == 2^GroupBits

versionByteV1 == 1

DecodeFailed == [ok |-> FALSE]

\* appendVarint: the groups of v from the lowest, all but the last marked.
appendVarint(b, v) ==
    LET n == CHOOSE k \in 1..MaxVarintBytes :
                /\ v < 2^(GroupBits * k)
                /\ k = 1 \/ v >= 2^(GroupBits * (k - 1))
    IN b \o [i \in 1..n |-> ((v \div 2^(GroupBits * (i - 1))) % Group)
                            + (IF i < n THEN Group ELSE 0)]

\* at counts from 0, as in the code: byte at + 1 of b is the first to read.
\* Bits shifted past the word are lost.
decodeVarint(b, at) ==
    LET limit == Min({MaxVarintBytes, Len(b) - at})
        ends  == {i \in 1..limit : b[at + i] < Group}
        value == MapThenSumSet(LAMBDA i : (b[at + i] % Group) * 2^(GroupBits * (i - 1)),
                               1..Min(ends))
    IN IF at >= Len(b) \/ ends = {} THEN DecodeFailed
       ELSE [ok |-> TRUE, val |-> value % 2^WordBits, next |-> at + Min(ends)]

MessageTypes == [None |-> 0, Hdr |-> 1, Ek |-> 2, EkCt1Ack |-> 3, Ct1Ack |-> 4,
                 Ct1 |-> 5, Ct2 |-> 6]

msgTypeFor(kind) == MessageTypes[kind]

kindHasChunk(kind) == kind \in {"Hdr", "Ek", "EkCt1Ack", "Ct1", "Ct2"}

NoChunk == [index |-> 0, data |-> <<>>]

serializeMessage(m, index) ==
    appendVarint(appendVarint(<<versionByteV1>>, m.epoch), index)
    \o <<msgTypeFor(m.kind)>>
    \o (IF kindHasChunk(m.kind) THEN appendVarint(<<>>, m.chunk.index) \o m.chunk.data
                                ELSE <<>>)

\* A preamble that takes any index a word can hold.
deserializePreambleWide(b) ==
    LET epoch == decodeVarint(b, 1)
        index == decodeVarint(b, epoch.next)
    IN IF b = <<>> THEN [ok |-> TRUE, version |-> 0, epoch |-> 0, index |-> 0, at |-> 0]
       ELSE IF ~epoch.ok \/ epoch.val = 0 THEN DecodeFailed
       ELSE IF ~index.ok THEN DecodeFailed
       ELSE [ok |-> TRUE, version |-> b[1], epoch |-> epoch.val,
             index |-> index.val, at |-> index.next]

deserializePreamble(b) ==
    LET epoch == decodeVarint(b, 1)
        index == decodeVarint(b, epoch.next)
    IN IF b = <<>> THEN [ok |-> TRUE, version |-> 0, epoch |-> 0, index |-> 0, at |-> 0]
       ELSE IF ~epoch.ok \/ epoch.val = 0 THEN DecodeFailed
       ELSE IF ~index.ok \/ index.val >= 2^IndexBits THEN DecodeFailed
       ELSE [ok |-> TRUE, version |-> b[1], epoch |-> epoch.val, index |-> index.val,
             at |-> index.next]

decodeChunk(b, at) ==
    LET idx == decodeVarint(b, at)
        end == idx.next + ChunkSize
    IN IF ~idx.ok \/ idx.val >= 2^ChunkIndexBits \/ end > Len(b) THEN DecodeFailed
       ELSE [ok |-> TRUE, chunk |-> [index |-> idx.val,
                                     data |-> SubSeq(b, idx.next + 1, end)], at |-> end]

deserializeMessage(b) ==
    LET preamble == deserializePreamble(b)
        kinds    == {k \in DOMAIN MessageTypes : MessageTypes[k] = b[preamble.at + 1]}
        kind     == CHOOSE k \in kinds : TRUE
        chunk    == decodeChunk(b, preamble.at + 1)
        Result(c, at) == [ok |-> TRUE, index |-> preamble.index, at |-> at,
                          m |-> [epoch |-> preamble.epoch, kind |-> kind, chunk |-> c]]
    IN IF \/ b = <<>> \/ b[1] # versionByteV1
          \/ ~preamble.ok \/ preamble.at >= Len(b) \/ kinds = {}
       THEN DecodeFailed
       ELSE IF ~kindHasChunk(kind) THEN Result(NoChunk, preamble.at + 1)
       ELSE IF ~chunk.ok THEN DecodeFailed
       ELSE Result(chunk.chunk, chunk.at)

=============================================================================
