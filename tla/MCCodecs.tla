------------------------------ MODULE MCCodecs ------------------------------
(* Codecs on small alphabets, words and sets of field values.              *)
EXTENDS CodecProperties

MCSignalMessages ==
    [version : {3, 4}, macKey : {"mk"}, ratchetKey : {"k1"}, counter : {0, 5},
     previousCounter : {0, 2}, ciphertext : {<<1>>}, sender : {"ia"}, receiver : {"ib"},
     pqRatchet : {<<>>, <<7>>}, addresses : {<<>>, <<8>>}]

Inner == [version |-> 4, macKey |-> "mk", ratchetKey |-> "k1", counter |-> 0,
          previousCounter |-> 0, ciphertext |-> <<1>>, sender |-> "ia", receiver |-> "ib",
          pqRatchet |-> <<7>>, addresses |-> <<>>]

Outer(version, kyberId, kyberCt) ==
    [version : {version}, registrationId : {0, 9}, preKeyId : {<<>>, <<31>>},
     signedPreKeyId : {22}, kyberPreKeyId : {kyberId}, kyberCiphertext : {kyberCt},
     baseKey : {"k1"}, identityKey : {"k2"},
     message : {[Inner EXCEPT !.version = version]}]

MCPreKeySignalMessages ==
    Outer(4, <<3>>, <<4, 4>>) \cup Outer(3, <<>>, <<>>) \cup Outer(3, <<3>>, <<4, 4>>)

MCSenderKeyMessages ==
    [distributionID : {<<6>>}, chainID : {0, 3}, iteration : {0, 1}, ciphertext : {<<1>>},
     signatureKey : {"sk"}]

MCDistributionMessages ==
    [distributionID : {<<6>>}, chainID : {0, 3}, iteration : {0, 1}, chainKey : {<<2>>},
     signingKey : {"k1"}]

MCDecryptionErrors ==
    [timestamp : {0, 77}, deviceID : {0, 1}, ratchetKey : {<<>>, <<"k1">>}]

\* Epochs and indices at one, two and three groups, with and without a chunk,
\* and something after the message.
MCSpqrMessages ==
    LET chunks == {[index |-> i, data |-> <<d>>] : i \in {0, 3}, d \in {0, 7}}
        m == [epoch : {1, 3, 4, 16, 31}, kind : {"None", "Ct1Ack"}, chunk : {NoChunk}]
             \cup [epoch : {1, 16, 31}, kind : {"Hdr", "Ek", "EkCt1Ack", "Ct1", "Ct2"},
                   chunk : chunks]
    IN [m : m, index : {0, 3, 4, 7}, rest : {<<>>, <<5>>}]

MCServiceIDs ==
    {NewACI(u) : u \in {<<0, 0>>, <<1, 171>>, <<255, 16>>}}
    \cup {NewPNI(u) : u \in {<<0, 0>>, <<1, 171>>, <<171, 1>>}}

\* A hash for the safety numbers: it mixes position and value.
MCSha512(s) ==
    LET mix[i \in 0..Len(s)] == IF i = 0 THEN 11 ELSE (mix[i - 1] * 2 + s[i] * 2 + i) % 251
    IN [j \in 1..4 |-> (mix[Len(s)] \div 4^(j - 1)) % 4]

MCSafetyViews ==
    [versionA : {1, 2}, versionB : {1, 2}, iterations : {0, 1, 2, 3, 4},
     idA : {21}, idB : {22, 23}, keyA : {1, 2}, keyB : {3, 4}, seenA : {1, 2}, seenB : {3, 4}]

\* The sample hash has no collision on the identities of the instance.
ASSUME HashDistinct ==
    \A n \in 2..3 : \A i, j \in {21, 22, 23} : \A k, l \in 1..4 :
        getFingerprint(n, i, k) = getFingerprint(n, j, l) => i = j /\ k = l

NameChars == {"a", "B", "_", "0", "1", ".", "-"}
MCUsernameTexts == UNION {[1..n -> NameChars] : n \in 0..5}
    \cup {<<"a", "b", "1", ".", "1", "0">>, <<"_", "1", "1", ".", "0", "1">>,
          <<"b", "1", "_", ".", "1", "0", "1">>}

MCLetters  == <<"a", "b">>
MCCapitals == <<"A", "B">>
MCDigits   == <<"0", "1">>

MCLinks ==
    [username : {[text |-> "name", length |-> n] : n \in 0..31}, entropy : {1}, iv : {5}]

MCCurveKeys == [1..3 -> {0, 7, 255}]
MCKemSeeds == {1, 255}
MCEntropyBytes == UNION {[1..n -> {0, 35, 36, 251, 252, 255}] : n \in 0..3}
MCPins == [pin : {1, 2}, salt : {1, 2}]
MCMasterKeys == [pin : {1, 2}, salt : {1, 2}, key : {Unmasked("a"), Unmasked("b")}]

\* MaxUint64/1000 in groups of 7 bits, lowest first, and times around the sizes.
MCMaxSeconds == <<111, 79, 26, 94, 116, 38, 98, 32>>
MCMetadata ==
    [name : [length : {0, 1, 97, 98, 99}, legal : BOOLEAN],
     time : [seconds : {<<0>>, <<1>>, <<0, 1>>, <<0, 0, 0, 0, 1>>, MCMaxSeconds}, millis : {0, 999}]]

\* Plaintexts of another implementation: the two fields in any order, doubled, of
\* the wrong type, too large, with groups that do or do not close.
MCForeignPlaintexts ==
    LET name == [length |-> 2, legal |-> TRUE]
        fields == {TimeField(<<5>>), TimeField(Append(MCMaxSeconds, 1)), NameField(name),
                   NameField([name EXCEPT !.legal = FALSE]),
                   WireField(2, "varint", 0, 1), WireField(7, "bytes", 1, 2),
                   WireField(9, "start", 0, 0), WireField(8, "end", 0, 0),
                   [NameField(name) EXCEPT !.prefixLen = 6], [TimeField(<<5>>) EXCEPT !.tagLen = 6],
                   [NameField(name) EXCEPT !.cut = TRUE]}
    IN UNION {[1..n -> fields] : n \in 0..3}

\* A block cipher for the instance: three rounds of a Feistel network over the
\* halves of a block.
Round(key, i, half) ==
    LET k == FoldLeft(LAMBDA n, b : (5 * n + ValueOfBits(b) + 1) % 64, i, key)
        v == ValueOfBits(LittleEndianBits(half))
    IN LittleEndian((v * (2 * k + 1) + (v * v) \div 4 + 11 * k + i) % 64, HalfBytes)
Left(block)  == SubSeq(block, 1, HalfBytes)
Right(block) == SubSeq(block, HalfBytes + 1, 2 * HalfBytes)
Forth(key, i, b) == Right(b) \o XorBytes(Left(b), Round(key, i, Right(b)))
Back(key, i, b)  == XorBytes(Right(b), Round(key, i, Left(b))) \o Left(b)
MCAES(key, block) == Forth(key, 3, Forth(key, 2, Forth(key, 1, block)))
MCAESInverse(key, block) == Back(key, 1, Back(key, 2, Back(key, 3, block)))

\* The cipher can be undone, and xInv is what its name says.
ASSUME InstanceSound ==
    /\ \A n \in 0..63 : LET b == LittleEndian(n * 65, 4) IN MCAESInverse(<<{1}>>, MCAES(<<{1}>>, b)) = b
    /\ Product(xInv, PowerOf[2 * LimbBits]) = {0}

B(n) == ByteOf(n)
MCCipherBytes == {B(n) : n \in 0..7}
Text(n) == [i \in 1..n |-> B((3 * i) % 8)]
MCCbcTexts == [plain : {Text(n) : n \in 0..9}, key : {<<B(1)>>}, iv : {[i \in 1..4 |-> B(i)]}]
MCStreams ==
    [data : {Text(11)}, key : {<<B(1)>>, <<B(6)>>}, nonce : {<<B(2), B(7), B(7)>>}, counter : {0, 6, 7}]
MCSivTexts ==
    [plain : {Text(n) : n \in {0, 1, 4, 5, 9, 10}}, key : {<<B(1)>>, <<B(6)>>}, nonce : {<<B(2), B(0), B(5)>>},
     aad : {Text(n) : n \in {0, 3, 9, 10}}]

\* Products of single powers of x, which by linearity are all products, and
\* hashes of several blocks.
Power(e) == LittleEndian(2^e, 4)
MCHashInputs ==
    [h : {Power(e) : e \in 0..11}, blocks : {Power(e) : e \in 0..11}]
    \cup [h : {Text(4), [i \in 1..4 |-> B(7)]}, blocks : {<<>>, Text(8), Text(12)}]

MCVersionBytes == {v * Nibble + c : v \in {2, 3, 4, 5}, c \in {3, 4}}
MCChars == {"0", "a", "B", "-", "P", "x"}

=============================================================================
