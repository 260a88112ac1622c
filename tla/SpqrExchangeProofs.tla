------------------------- MODULE SpqrExchangeProofs -------------------------
(***************************************************************************)
(* The two SPQR machines stay in step, refuse nothing and agree on keys,   *)
(* for any chunk counts and any number of epochs.                          *)
(***************************************************************************)
EXTENDS SpqrExchangeProperties, TLAPS

-----------------------------------------------------------------------------
\* The chunk transport (chunked.Encoder, chunked.Decoder).

\* An encoder of a message hands out chunks of it and stays one.
LEMMA EncoderAdvances ==
    ASSUME NEW enc, NEW msg, Encodes(enc, msg)
    PROVE  Encodes(Advanced(enc), msg) /\ ChunkOf(enc).of = msg
BY DEF Encodes, Advanced, ChunkOf

\* NewEncoder starts an encoder of its message.
LEMMA EncoderNew ==
    ASSUME NEW msg
    PROVE  Encodes(NewEncoder(msg), msg)
BY Zenon DEF Encodes, NewEncoder

\* NewDecoder has no chunk of another message.
LEMMA DecoderNew ==
    ASSUME NEW need, NEW msg
    PROVE  Collects(NewDecoder(need), need, msg)
BY Zenon DEF Collects, NewDecoder

\* AddChunk of a chunk of the same message, whatever its index and however often.
LEMMA DecoderAdds ==
    ASSUME NEW dec, NEW need, NEW msg, NEW chunk, Collects(dec, need, msg), chunk.of = msg
    PROVE  Collects(AddChunk(dec, chunk), need, msg)
<1> DEFINE pts == dec.pts
<1>1. dec = [need |-> need, pts |-> pts] /\ \A x \in pts : x.of = msg
  BY Zenon DEF Collects
<1> HIDE DEF pts
<1>2. AddChunk(dec, chunk) = dec \/ AddChunk(dec, chunk) = [need |-> need, pts |-> pts \cup {chunk}]
  BY <1>1, Zenon DEF AddChunk
<1> QED BY <1>1, <1>2 DEF Collects

\* A decoder without chunks has received none: the recursion behind Cardinality
\* has a solution over the empty set.
LEMMA EmptyCount == Cardinality({}) = 0
<1> DEFINE Count(f) == [T \in SUBSET {} |-> IF T = {} THEN 0 ELSE 1 + f[T \ {CHOOSE x : x \in T}]]
<1>1. \E f : f = Count(f)
  <2> WITNESS [T \in SUBSET {} |-> 0]
  <2> QED BY Zenon
<1>2. PICK c : c = (CHOOSE f : f = Count(f))
  BY Zenon
<1>3. c = Count(c)
  BY <1>1, <1>2, Zenon
<1>4. c[{}] = 0
  BY <1>3, Zenon
<1>5. Cardinality({}) = c[{}]
  BY <1>2, Zenon DEF Cardinality
<1> QED BY <1>4, <1>5, Zenon

\* DecodedMessage gives nothing or the message, never a mixture.
LEMMA DecoderGives ==
    ASSUME NEW dec, NEW need \in Nat \ {0}, NEW msg, Collects(dec, need, msg)
    PROVE  DecodedMessage(dec) \in {Nil, msg}
<1>1. CASE dec.pts = {}
  <2>1. Cardinality(dec.pts) = 0
    BY <1>1, EmptyCount, Zenon
  <2> QED BY <2>1 DEF DecodedMessage, Collects
<1>2. CASE dec.pts # {}
  <2>1. (CHOOSE x \in dec.pts : TRUE) \in dec.pts
    BY <1>2, Zenon
  <2> QED BY <2>1, Zenon DEF DecodedMessage, Collects
<1> QED BY <1>1, <1>2, Zenon

-----------------------------------------------------------------------------
\* The two roles: what send and recv do in a state of the role.

\* v1StateToProto keeps all of a state of the send_ek role.
LEMMA SendEkStored ==
    ASSUME NEW s, NEW epoch, NEW auth, NEW k, NEW m, SendEkState(s, epoch, auth, k, m)
    PROVE  v1StateToProto(s) = s /\ s.epoch = epoch /\ s.auth = auth /\ s.tag \in SendEkTags
<1>1. CASE s = KeysUnsampled(epoch, auth)
  BY <1>1, Zenon DEF v1StateToProto, StoredFields, KeysUnsampled, SendEkTags
<1>2. CASE s = KeysSampled(epoch, auth, PublicKey2(k), SecretKey(k), s.sendingHdr)
  BY <1>2 DEF v1StateToProto, StoredFields, KeysSampled, SendEkTags
<1>3. CASE s = HeaderSent(epoch, auth, SecretKey(k), s.sendingEk, s.recvingCt1)
  BY <1>3 DEF v1StateToProto, StoredFields, HeaderSent, SendEkTags
<1>4. CASE s = Ct1Received(epoch, auth, SecretKey(k), Encapsulated(k, m).ct1, s.sendingEk)
  BY <1>4 DEF v1StateToProto, StoredFields, Ct1Received, SendEkTags
<1>5. CASE s = EkSentCt1Received(epoch, auth, SecretKey(k), Encapsulated(k, m).ct1, s.recvingCt2)
  BY <1>5 DEF v1StateToProto, StoredFields, EkSentCt1Received, SendEkTags
<1> QED BY <1>1, <1>2, <1>3, <1>4, <1>5, Zenon DEF SendEkState

SendCtTags == {"NoHeaderReceived", "HeaderReceived", "Ct1Sampled", "EkReceivedCt1Sampled",
               "Ct1Acknowledged", "Ct2Sampled"}

\* v1StateToProto keeps all of a state of the send_ct role.
LEMMA SendCtStored ==
    ASSUME NEW s, NEW epoch, NEW auth, NEW k, NEW m, SendCtState(s, epoch, auth, k, m)
    PROVE  /\ v1StateToProto(s) = s /\ s.epoch = epoch /\ s.tag \in SendCtTags
           /\ s.auth = IF s.tag \in Unsampled THEN auth ELSE NextAuth(epoch, auth, k, m)
<1> DEFINE enc  == Encapsulated(k, m)
           next == NextAuth(epoch, auth, k, m)
<1> HIDE DEF enc, next
<1>1. CASE s = NoHeaderReceived(epoch, auth, s.recvingHdr)
  BY <1>1 DEF v1StateToProto, StoredFields, NoHeaderReceived, SendCtTags, Unsampled
<1>2. CASE s = HeaderReceived(epoch, auth, PublicKey1(k), NewDecoder(NeedEk))
  BY <1>2, Zenon DEF v1StateToProto, StoredFields, HeaderReceived, SendCtTags, Unsampled
<1>3. CASE s = Ct1Sampled(epoch, next, PublicKey1(k), enc.es, enc.ct1, s.sendingCt1, s.recvingEk)
  BY <1>3 DEF v1StateToProto, StoredFields, Ct1Sampled, SendCtTags, Unsampled, next
<1>4. CASE s = EkReceivedCt1Sampled(epoch, next, enc.es, PublicKey2(k), enc.ct1, s.sendingCt1)
  BY <1>4 DEF v1StateToProto, StoredFields, EkReceivedCt1Sampled, SendCtTags, Unsampled, next
<1>5. CASE s = Ct1Acknowledged(epoch, next, PublicKey1(k), enc.es, enc.ct1, s.recvingEk)
  BY <1>5 DEF v1StateToProto, StoredFields, Ct1Acknowledged, SendCtTags, Unsampled, next
<1>6. CASE s = Ct2Sampled(epoch, next, s.sendingCt2)
  BY <1>6 DEF v1StateToProto, StoredFields, Ct2Sampled, SendCtTags, Unsampled, next
<1> QED BY <1>1, <1>2, <1>3, <1>4, <1>5, <1>6, Zenon DEF SendCtState, enc, next

\* send draws the key pair in KeysUnsampled and begins with the header.
LEMMA SendEkDraws ==
    ASSUME NEW s, NEW epoch, NEW auth, NEW m, NEW random, s = KeysUnsampled(epoch, auth)
    PROVE  LET step == send(s, random) IN
           /\ SendEkState(step.state, epoch, auth, random, m)
           /\ step.state.tag = "KeysSampled" /\ step.key = Nil /\ step.msg.epoch = epoch
           /\ SendEkMessage(step.msg, step.state.tag, auth, random)
<1> DEFINE msg == Header(epoch, auth, random)
           enc == NewEncoder(msg)
<1>1. s.tag = "KeysUnsampled" /\ s.epoch = epoch /\ s.auth = auth
  BY Zenon DEF KeysUnsampled
<1>2. Encodes(Advanced(enc), msg) /\ ChunkOf(enc).of = msg
  BY EncoderNew, EncoderAdvances, Zenon
<1>3. send(s, random) = sendHdrChunk(s, random)
  BY <1>1, Zenon DEF send
<1>4. sendHdrChunk(s, random) =
          SendStep(KeysSampled(epoch, auth, PublicKey2(random), SecretKey(random), Advanced(enc)),
                   Message(s, "Hdr", ChunkOf(enc)))
  BY <1>1, Zenon DEF sendHdrChunk, Header
<1> HIDE DEF msg, enc
<1> QED BY <1>1, <1>2, <1>3, <1>4 DEF SendStep, Message, KeysSampled, SendEkState, SendEkMessage, msg

\* send in the later states of the send_ek role only advances an encoder.
LEMMA SendEkSends ==
    ASSUME NEW s, NEW epoch, NEW auth, NEW k, NEW m, NEW random,
           SendEkState(s, epoch, auth, k, m), s.tag # "KeysUnsampled"
    PROVE  LET step == send(s, random) IN
           /\ SendEkState(step.state, epoch, auth, k, m)
           /\ step.state.tag = s.tag /\ step.key = Nil /\ step.msg.epoch = epoch
           /\ SendEkMessage(step.msg, step.state.tag, auth, k)
<1>1. CASE s.tag = "KeysSampled"
  <2>1. /\ s = KeysSampled(epoch, auth, PublicKey2(k), SecretKey(k), s.sendingHdr)
        /\ Encodes(s.sendingHdr, Header(epoch, auth, k))
    BY <1>1 DEF SendEkState, KeysUnsampled
  <2>2. send(s, random) = sendHdrChunkAgain(s)
    BY <1>1, Zenon DEF send
  <2>3. send(s, random) =
            SendStep(KeysSampled(epoch, auth, PublicKey2(k), SecretKey(k), Advanced(s.sendingHdr)),
                     Message(s, "Hdr", ChunkOf(s.sendingHdr)))
    BY <2>1, <2>2 DEF sendHdrChunkAgain, KeysSampled
  <2>4. /\ Encodes(Advanced(s.sendingHdr), Header(epoch, auth, k))
        /\ ChunkOf(s.sendingHdr).of = Header(epoch, auth, k)
    BY <2>1, EncoderAdvances, Zenon
  <2>5. s.epoch = epoch
    BY <2>1 DEF KeysSampled
  <2> QED BY <1>1, <2>3, <2>4, <2>5 DEF SendStep, Message, KeysSampled, SendEkState, SendEkMessage
<1>2. CASE s.tag = "HeaderSent"
  <2>1. /\ s = HeaderSent(epoch, auth, SecretKey(k), s.sendingEk, s.recvingCt1)
        /\ Encodes(s.sendingEk, PublicKey2(k))
        /\ Collects(s.recvingCt1, NeedCt1, Encapsulated(k, m).ct1)
    BY <1>2 DEF SendEkState, KeysUnsampled
  <2>2. send(s, random) = sendEkChunk(s)
    BY <1>2, Zenon DEF send
  <2>3. send(s, random) =
            SendStep(HeaderSent(epoch, auth, SecretKey(k), Advanced(s.sendingEk), s.recvingCt1),
                     Message(s, "Ek", ChunkOf(s.sendingEk)))
    BY <2>1, <2>2 DEF sendEkChunk, HeaderSent
  <2>4. /\ Encodes(Advanced(s.sendingEk), PublicKey2(k))
        /\ ChunkOf(s.sendingEk).of = PublicKey2(k)
    BY <2>1, EncoderAdvances, Zenon
  <2>5. s.epoch = epoch
    BY <2>1 DEF HeaderSent
  <2> QED BY <1>2, <2>1, <2>3, <2>4, <2>5 DEF SendStep, Message, HeaderSent, SendEkState, SendEkMessage
<1>3. CASE s.tag = "Ct1Received"
  <2>1. /\ s = Ct1Received(epoch, auth, SecretKey(k), Encapsulated(k, m).ct1, s.sendingEk)
        /\ Encodes(s.sendingEk, PublicKey2(k))
    BY <1>3 DEF SendEkState, KeysUnsampled
  <2>2. send(s, random) = sendEkChunk(s)
    BY <1>3, Zenon DEF send
  <2>3. send(s, random) =
            SendStep(Ct1Received(epoch, auth, SecretKey(k), Encapsulated(k, m).ct1, Advanced(s.sendingEk)),
                     Message(s, "EkCt1Ack", ChunkOf(s.sendingEk)))
    BY <2>1, <2>2 DEF sendEkChunk, Ct1Received
  <2>4. /\ Encodes(Advanced(s.sendingEk), PublicKey2(k))
        /\ ChunkOf(s.sendingEk).of = PublicKey2(k)
    BY <2>1, EncoderAdvances, Zenon
  <2>5. s.epoch = epoch
    BY <2>1 DEF Ct1Received
  <2> QED BY <1>3, <2>3, <2>4, <2>5 DEF SendStep, Message, Ct1Received, SendEkState, SendEkMessage
<1>4. CASE s.tag = "EkSentCt1Received"
  <2>1. send(s, random) = SendStep(s, Message(s, "Ct1Ack", Nil))
    BY <1>4, Zenon DEF send
  <2> QED BY <1>4, <2>1, SendEkStored DEF SendStep, Message, SendEkMessage
<1> QED BY <1>1, <1>2, <1>3, <1>4, SendEkStored, Zenon DEF SendEkTags

\* send draws the encapsulation in HeaderReceived and learns the epoch's secret.
LEMMA SendCtDraws ==
    ASSUME NEW s, NEW epoch, NEW auth, NEW k, NEW random,
           s = HeaderReceived(epoch, auth, PublicKey1(k), NewDecoder(NeedEk))
    PROVE  LET step == send(s, random) IN
           /\ SendCtState(step.state, epoch, auth, k, random)
           /\ step.state.tag = "Ct1Sampled" /\ step.msg.epoch = epoch
           /\ step.key = epochSecret(epoch, EpochKey(epoch, k, random))
           /\ SendCtMessage(step.msg, step.state.tag, auth, k, random)
<1> DEFINE res  == Encapsulated(k, random)
           enc  == NewEncoder(res.ct1)
           next == NextAuth(epoch, auth, k, random)
<1>1. /\ s.tag = "HeaderReceived" /\ s.epoch = epoch /\ s.auth = auth
      /\ s.hdr = PublicKey1(k) /\ s.recvingEk = NewDecoder(NeedEk)
  BY Zenon DEF HeaderReceived
<1>2. Encodes(Advanced(enc), res.ct1) /\ ChunkOf(enc).of = res.ct1
  BY EncoderNew, EncoderAdvances, Zenon
<1>3. Collects(NewDecoder(NeedEk), NeedEk, PublicKey2(k))
  BY DecoderNew, Zenon
<1>4. send(s, random) = sendCt1(s, random)
  BY <1>1, Zenon DEF send
<1>5. send(s, random) =
          [state |-> Ct1Sampled(epoch, next, PublicKey1(k), res.es, res.ct1, Advanced(enc),
                                NewDecoder(NeedEk)),
           msg   |-> Message(s, "Ct1", ChunkOf(enc)),
           key   |-> epochSecret(epoch, EpochKey(epoch, k, random))]
  BY <1>1, <1>4, Zenon DEF sendCt1, EpochKey, NextAuth, Encapsulated
<1> HIDE DEF res, enc, next
<1> QED BY <1>1, <1>2, <1>3, <1>5
        DEF Message, Ct1Sampled, SendCtState, SendCtMessage, Unsampled, res, next

\* send in the other states of the send_ct role only advances an encoder.
LEMMA SendCtSends ==
    ASSUME NEW s, NEW epoch, NEW auth, NEW k, NEW m, NEW random,
           SendCtState(s, epoch, auth, k, m), s.tag # "HeaderReceived"
    PROVE  LET step == send(s, random) IN
           /\ SendCtState(step.state, epoch, auth, k, m)
           /\ step.state.tag = s.tag /\ step.key = Nil /\ step.msg.epoch = epoch
           /\ s.tag = "NoHeaderReceived" => step.state = s
           /\ SendCtMessage(step.msg, step.state.tag, auth, k, m)
<1> DEFINE enc  == Encapsulated(k, m)
           next == NextAuth(epoch, auth, k, m)
           body == Reply(epoch, auth, k, m)
<1>1. CASE s.tag \in {"NoHeaderReceived", "Ct1Acknowledged"}
  <2>1. send(s, random) = SendStep(s, Message(s, "None", Nil))
    BY <1>1, Zenon DEF send
  <2> QED BY <1>1, <2>1, SendCtStored DEF SendStep, Message, SendCtMessage
<1>2. CASE s.tag = "Ct1Sampled"
  <2>1. /\ s = Ct1Sampled(epoch, next, PublicKey1(k), enc.es, enc.ct1, s.sendingCt1, s.recvingEk)
        /\ Encodes(s.sendingCt1, enc.ct1)
        /\ Collects(s.recvingEk, NeedEk, PublicKey2(k))
    BY <1>2 DEF SendCtState, HeaderReceived
  <2>2. send(s, random) = sendCt1Chunk(s)
    BY <1>2, Zenon DEF send
  <2> HIDE DEF enc, next
  <2>3. send(s, random) =
            SendStep(Ct1Sampled(epoch, next, PublicKey1(k), enc.es, enc.ct1,
                                Advanced(s.sendingCt1), s.recvingEk),
                     Message(s, "Ct1", ChunkOf(s.sendingCt1)))
    BY <2>1, <2>2 DEF sendCt1Chunk, Ct1Sampled
  <2>4. Encodes(Advanced(s.sendingCt1), enc.ct1) /\ ChunkOf(s.sendingCt1).of = enc.ct1
    BY <2>1, EncoderAdvances, Zenon
  <2>5. s.epoch = epoch
    BY <2>1 DEF Ct1Sampled
  <2> QED BY <1>2, <2>1, <2>3, <2>4, <2>5
          DEF SendStep, Message, Ct1Sampled, SendCtState, SendCtMessage, Unsampled, enc, next
<1>3. CASE s.tag = "EkReceivedCt1Sampled"
  <2>1. /\ s = EkReceivedCt1Sampled(epoch, next, enc.es, PublicKey2(k), enc.ct1, s.sendingCt1)
        /\ Encodes(s.sendingCt1, enc.ct1)
    BY <1>3 DEF SendCtState, HeaderReceived
  <2>2. send(s, random) = sendCt1Chunk(s)
    BY <1>3, Zenon DEF send
  <2> HIDE DEF enc, next
  <2>3. send(s, random) =
            SendStep(EkReceivedCt1Sampled(epoch, next, enc.es, PublicKey2(k), enc.ct1,
                                          Advanced(s.sendingCt1)),
                     Message(s, "Ct1", ChunkOf(s.sendingCt1)))
    BY <2>1, <2>2 DEF sendCt1Chunk, EkReceivedCt1Sampled
  <2>4. Encodes(Advanced(s.sendingCt1), enc.ct1) /\ ChunkOf(s.sendingCt1).of = enc.ct1
    BY <2>1, EncoderAdvances, Zenon
  <2>5. s.epoch = epoch
    BY <2>1 DEF EkReceivedCt1Sampled
  <2> QED BY <1>3, <2>1, <2>3, <2>4, <2>5
          DEF SendStep, Message, EkReceivedCt1Sampled, SendCtState, SendCtMessage, Unsampled, enc, next
<1>4. CASE s.tag = "Ct2Sampled"
  <2>1. s = Ct2Sampled(epoch, next, s.sendingCt2) /\ Encodes(s.sendingCt2, body)
    BY <1>4 DEF SendCtState, HeaderReceived
  <2>2. send(s, random) = sendCt2Chunk(s)
    BY <1>4, Zenon DEF send
  <2> HIDE DEF next, body
  <2>3. send(s, random) = SendStep(Ct2Sampled(epoch, next, Advanced(s.sendingCt2)),
                                   Message(s, "Ct2", ChunkOf(s.sendingCt2)))
    BY <2>1, <2>2 DEF sendCt2Chunk, Ct2Sampled
  <2>4. Encodes(Advanced(s.sendingCt2), body) /\ ChunkOf(s.sendingCt2).of = body
    BY <2>1, EncoderAdvances, Zenon
  <2>5. s.epoch = epoch
    BY <2>1 DEF Ct2Sampled
  <2> QED BY <1>4, <2>1, <2>3, <2>4, <2>5
          DEF SendStep, Message, Ct2Sampled, SendCtState, SendCtMessage, next, body
<1> QED BY <1>1, <1>2, <1>3, <1>4, SendCtStored, Zenon DEF SendCtTags

\* recv in the send_ek role: it takes in a chunk, or the last chunk of ct2 gives
\* it the epoch's secret and the send_ct role of the next epoch.
LEMMA SendEkReceives ==
    ASSUME NEW s, NEW epoch \in Nat, NEW auth, NEW k \in Nat, NEW m \in Nat, NEW msg, NEW tag,
           SendEkState(s, epoch, auth, k, m), msg.epoch = epoch,
           SendCtMessage(msg, tag, auth, k, m)
    PROVE  LET step == recv(s, msg) IN
           /\ step.err = "ok"
           /\ \/ /\ step.key = Nil /\ SendEkState(step.state, epoch, auth, k, m)
                 /\ s.tag = "KeysUnsampled" <=> step.state.tag = "KeysUnsampled"
                 /\ tag \in Unsampled => step.state = s
              \/ /\ tag = "Ct2Sampled" /\ s.tag = "EkSentCt1Received"
                 /\ step.state = NoHeaderReceived(epoch + 1, NextAuth(epoch, auth, k, m), NewDecoder(NeedHdr))
                 /\ step.key = epochSecret(epoch, EpochKey(epoch, k, m))
<1> DEFINE ct1  == Encapsulated(k, m).ct1
           body == Reply(epoch, auth, k, m)
<1>1. recv(s, msg) = recvCurrent(s, msg)
  BY SendEkStored DEF recv
<1>2. s.tag \in SendEkTags /\ s.epoch = epoch /\ s.auth = auth
  BY SendEkStored, Zenon
<1>3. CASE recvCurrent(s, msg) = RecvStep(s)
  BY <1>1, <1>3 DEF RecvStep
<1>4. CASE s.tag = "KeysSampled" /\ msg.kind = "Ct1"
  <2> DEFINE dec == AddChunk(NewDecoder(NeedCt1), msg.chunk)
             enc == NewEncoder(PublicKey2(k))
  <2>1. s = KeysSampled(epoch, auth, PublicKey2(k), SecretKey(k), s.sendingHdr)
    BY <1>4 DEF SendEkState, KeysUnsampled
  <2>2. recv(s, msg) = RecvStep(HeaderSent(epoch, auth, SecretKey(k), enc, dec))
    BY <1>1, <1>4, <2>1 DEF recvCurrent, recvCt1ChunkKeysSampled, KeysSampled
  <2>3. tag \notin Unsampled /\ msg.chunk.of = ct1
    BY <1>4, Zenon DEF SendCtMessage
  <2> HIDE DEF ct1
  <2>4. Collects(dec, NeedCt1, ct1) /\ Encodes(enc, PublicKey2(k))
    BY <2>3, DecoderNew, DecoderAdds, EncoderNew, Zenon
  <2> HIDE DEF dec, enc
  <2> QED BY <1>4, <2>2, <2>3, <2>4 DEF RecvStep, HeaderSent, SendEkState, ct1
<1>5. CASE s.tag = "HeaderSent" /\ msg.kind = "Ct1"
  <2> DEFINE dec == AddChunk(s.recvingCt1, msg.chunk)
  <2>1. /\ s = HeaderSent(epoch, auth, SecretKey(k), s.sendingEk, s.recvingCt1)
        /\ Encodes(s.sendingEk, PublicKey2(k))
        /\ Collects(s.recvingCt1, NeedCt1, ct1)
    BY <1>5 DEF SendEkState, KeysUnsampled
  <2>2. recv(s, msg) = recvCt1ChunkHeaderSent(s, msg.chunk)
    BY <1>1, <1>5, Zenon DEF recvCurrent
  <2>3. tag \notin Unsampled /\ msg.chunk.of = ct1
    BY <1>5, Zenon DEF SendCtMessage
  <2> HIDE DEF ct1
  <2>4. Collects(dec, NeedCt1, ct1)
    BY <2>1, <2>3, DecoderAdds, Zenon
  <2>5. DecodedMessage(dec) \in {Nil, ct1}
    BY <2>4, DecoderGives, V1Assumption, Zenon
  <2> HIDE DEF dec
  <2>6. \/ recv(s, msg) = RecvStep(HeaderSent(epoch, auth, SecretKey(k), s.sendingEk, dec))
        \/ recv(s, msg) = RecvStep(Ct1Received(epoch, auth, SecretKey(k), ct1, s.sendingEk))
    BY <2>1, <2>2, <2>5 DEF recvCt1ChunkHeaderSent, HeaderSent, dec
  <2>7. CASE recv(s, msg) = RecvStep(HeaderSent(epoch, auth, SecretKey(k), s.sendingEk, dec))
    BY <1>5, <2>1, <2>3, <2>4, <2>7 DEF RecvStep, HeaderSent, SendEkState, ct1
  <2>8. CASE recv(s, msg) = RecvStep(Ct1Received(epoch, auth, SecretKey(k), ct1, s.sendingEk))
    BY <1>5, <2>1, <2>3, <2>8 DEF RecvStep, Ct1Received, SendEkState, ct1
  <2> QED BY <2>6, <2>7, <2>8, Zenon
<1>6. CASE s.tag = "Ct1Received" /\ msg.kind = "Ct2"
  <2> DEFINE dec == AddChunk(NewDecoder(NeedCt2), msg.chunk)
  <2>1. s = Ct1Received(epoch, auth, SecretKey(k), ct1, s.sendingEk)
    BY <1>6 DEF SendEkState, KeysUnsampled
  <2> HIDE DEF ct1
  <2>2. recv(s, msg) = RecvStep(EkSentCt1Received(epoch, auth, SecretKey(k), ct1, dec))
    BY <1>1, <1>6, <2>1 DEF recvCurrent, recvCt2ChunkCt1Received, Ct1Received
  <2>3. tag \notin Unsampled /\ msg.chunk.of = body
    BY <1>6, Zenon DEF SendCtMessage, Unsampled
  <2> HIDE DEF body
  <2>4. Collects(dec, NeedCt2, body)
    BY <2>3, DecoderNew, DecoderAdds, Zenon
  <2> HIDE DEF dec
  <2> QED BY <1>6, <2>2, <2>3, <2>4 DEF RecvStep, EkSentCt1Received, SendEkState, ct1, body
<1>7. CASE s.tag = "EkSentCt1Received" /\ msg.kind = "Ct2"
  <2> DEFINE dec    == AddChunk(s.recvingCt2, msg.chunk)
             ct2    == Ct2Of(k, m)
             secret == EpochKey(epoch, k, m)
             next   == NextAuth(epoch, auth, k, m)
  <2>1. /\ s = EkSentCt1Received(epoch, auth, SecretKey(k), ct1, s.recvingCt2)
        /\ Collects(s.recvingCt2, NeedCt2, body)
    BY <1>7 DEF SendEkState, KeysUnsampled
  <2>2. recv(s, msg) = recvCt2ChunkEkSent(s, msg.chunk)
    BY <1>1, <1>7, Zenon DEF recvCurrent
  <2>3. tag = "Ct2Sampled" /\ tag \notin Unsampled /\ msg.chunk.of = body
    BY <1>7, Zenon DEF SendCtMessage, Unsampled
  <2>4. sckaKey(Decapsulate(SecretKey(k), ct1, ct2), epoch) = secret
    <3>1. ct2 = <<"ct2", k, k, m>> /\ ct2 # Nil
      BY NilAssumption DEF Ct2Of, Encapsulate2, Encapsulated, Encapsulate1, PublicKey1, PublicKey2
    <3>2. ct1 = <<"ct1", k, m>>
      BY Zenon DEF Encapsulated, Encapsulate1, PublicKey1
    <3>3. Decapsulate(SecretKey(k), ct1, ct2) = <<"ss", k, m>>
      BY <3>1, <3>2 DEF Decapsulate, SecretKey
    <3> QED BY <3>3, Zenon DEF EpochKey, Encapsulated, Encapsulate1, PublicKey1
  <2>5. body[1] = ct2 /\ body[2] = macCt(next, epoch, ct1, ct2) /\ next = authUpdate(auth, epoch, secret)
    BY Zenon DEF Reply, NextAuth
  <2> HIDE DEF ct1, ct2, body, secret, next
  <2>6. Collects(dec, NeedCt2, body)
    BY <2>1, <2>3, DecoderAdds, Zenon
  <2>7. DecodedMessage(dec) \in {Nil, body}
    BY <2>6, DecoderGives, V1Assumption, Zenon
  <2> HIDE DEF dec
  <2>8. s.dk = SecretKey(k) /\ s.ct1 = ct1
    BY <2>1 DEF EkSentCt1Received
  <2>9. CASE DecodedMessage(dec) = Nil
    <3>1. recv(s, msg) = RecvStep(EkSentCt1Received(epoch, auth, SecretKey(k), ct1, dec))
      BY <2>1, <2>2, <2>9 DEF recvCt2ChunkEkSent, EkSentCt1Received, dec
    <3> QED BY <1>7, <2>3, <2>6, <3>1 DEF RecvStep, EkSentCt1Received, SendEkState, ct1, body
  <2>10. CASE DecodedMessage(dec) # Nil
    <3>1. DecodedMessage(dec) = body
      BY <2>7, <2>10, Zenon
    <3>2. recv(s, msg) = [err   |-> "ok",
                          state |-> NoHeaderReceived(epoch + 1, next, NewDecoder(NeedHdr)),
                          key   |-> epochSecret(epoch, secret)]
      BY <1>2, <2>2, <2>4, <2>5, <2>8, <2>10, <3>1, Zenon DEF recvCt2ChunkEkSent, dec
    <3> QED BY <1>7, <2>3, <3>2 DEF secret, next
  <2> QED BY <2>9, <2>10, Zenon
<1> QED BY <1>2, <1>3, <1>4, <1>5, <1>6, <1>7, Zenon DEF recvCurrent, SendEkTags

\* toCt2Sampled answers with the ciphertext of the header's own key.
LEMMA ToCt2Sampled ==
    ASSUME NEW s, NEW epoch, NEW auth, NEW k, NEW m,
           s.epoch = epoch, s.auth = NextAuth(epoch, auth, k, m),
           s.es = Encapsulated(k, m).es, s.ct1 = Encapsulated(k, m).ct1
    PROVE  LET step == toCt2Sampled(s, PublicKey2(k)) IN
           /\ step.err = "ok" /\ step.key = Nil /\ step.state.tag = "Ct2Sampled"
           /\ SendCtState(step.state, epoch, auth, k, m)
<1> DEFINE next == NextAuth(epoch, auth, k, m)
           enc  == NewEncoder(Reply(epoch, auth, k, m))
<1>1. toCt2Sampled(s, PublicKey2(k)) = RecvStep(Ct2Sampled(epoch, next, enc))
  BY Zenon DEF toCt2Sampled, Reply, Ct2Of
<1>2. Encodes(enc, Reply(epoch, auth, k, m))
  BY EncoderNew, Zenon
<1> HIDE DEF next, enc
<1> QED BY <1>1, <1>2 DEF RecvStep, Ct2Sampled, SendCtState, next

\* recv in the send_ct role takes in chunks and acknowledgements of its epoch.
LEMMA SendCtReceives ==
    ASSUME NEW s, NEW epoch \in Nat, NEW auth, NEW k, NEW m, NEW msg, NEW tag,
           SendCtState(s, epoch, auth, k, m), msg.epoch = epoch,
           SendEkMessage(msg, tag, auth, k)
    PROVE  LET step == recv(s, msg) IN
           /\ step.err = "ok" /\ step.key = Nil
           /\ SendCtState(step.state, epoch, auth, k, m)
           /\ step.state.tag \in Unsampled <=> s.tag \in Unsampled
           /\ s.tag = "Ct2Sampled" => step.state.tag = "Ct2Sampled"
<1> DEFINE ct1  == Encapsulated(k, m).ct1
           es   == Encapsulated(k, m).es
           next == NextAuth(epoch, auth, k, m)
           hdr  == Header(epoch, auth, k)
<1>1. recv(s, msg) = recvCurrent(s, msg)
  BY SendCtStored DEF recv
<1>2. s.tag \in SendCtTags /\ s.epoch = epoch
  BY SendCtStored, Zenon
<1>3. CASE recvCurrent(s, msg) = RecvStep(s)
  BY <1>1, <1>3 DEF RecvStep
<1>4. CASE s.tag = "NoHeaderReceived" /\ msg.kind = "Hdr"
  <2> DEFINE dec == AddChunk(s.recvingHdr, msg.chunk)
  <2>1. s = NoHeaderReceived(epoch, auth, s.recvingHdr) /\ Collects(s.recvingHdr, NeedHdr, hdr)
    BY <1>4 DEF SendCtState, HeaderReceived
  <2>2. recv(s, msg) = recvHdrChunk(s, msg.chunk)
    BY <1>1, <1>4, Zenon DEF recvCurrent
  <2>3. msg.chunk.of = hdr
    BY <1>4, Zenon DEF SendEkMessage
  <2>4. hdr[1] = PublicKey1(k) /\ hdr[2] = macHdr(auth, epoch, PublicKey1(k))
    BY Zenon DEF Header
  <2> HIDE DEF hdr
  <2>5. Collects(dec, NeedHdr, hdr)
    BY <2>1, <2>3, DecoderAdds, Zenon
  <2>6. DecodedMessage(dec) \in {Nil, hdr}
    BY <2>5, DecoderGives, V1Assumption, Zenon
  <2> HIDE DEF dec
  <2>7. \/ recv(s, msg) = RecvStep(NoHeaderReceived(epoch, auth, dec))
        \/ recv(s, msg) = RecvStep(HeaderReceived(epoch, auth, PublicKey1(k), NewDecoder(NeedEk)))
    BY <2>1, <2>2, <2>4, <2>6 DEF recvHdrChunk, NoHeaderReceived, dec
  <2>8. CASE recv(s, msg) = RecvStep(NoHeaderReceived(epoch, auth, dec))
    BY <1>4, <2>5, <2>8 DEF RecvStep, NoHeaderReceived, SendCtState, Unsampled, hdr
  <2>9. CASE recv(s, msg) = RecvStep(HeaderReceived(epoch, auth, PublicKey1(k), NewDecoder(NeedEk)))
    BY <1>4, <2>9 DEF RecvStep, HeaderReceived, SendCtState, Unsampled
  <2> QED BY <2>7, <2>8, <2>9, Zenon
<1>5. CASE s.tag = "Ct1Sampled" /\ msg.kind \in {"Ek", "EkCt1Ack"}
  <2> DEFINE dec == AddChunk(s.recvingEk, msg.chunk)
             ack == msg.kind = "EkCt1Ack"
  <2>1. /\ s = Ct1Sampled(epoch, next, PublicKey1(k), es, ct1, s.sendingCt1, s.recvingEk)
        /\ Encodes(s.sendingCt1, ct1)
        /\ Collects(s.recvingEk, NeedEk, PublicKey2(k))
    BY <1>5 DEF SendCtState, HeaderReceived
  <2>2. recv(s, msg) = recvEkChunkCt1Sampled(s, msg.chunk, ack)
    BY <1>1, <1>5, Zenon DEF recvCurrent
  <2>3. msg.chunk.of = PublicKey2(k)
    BY <1>5, Zenon DEF SendEkMessage
  <2>4. Collects(dec, NeedEk, PublicKey2(k))
    BY <2>1, <2>3, DecoderAdds, Zenon
  <2>5. DecodedMessage(dec) \in {Nil, PublicKey2(k)}
    BY <2>4, DecoderGives, V1Assumption, Zenon
  <2>6. ValidatePublicKeyParts(PublicKey1(k), PublicKey2(k))
    BY Zenon DEF ValidatePublicKeyParts, PublicKey1
  <2> HIDE DEF dec, ct1, es, next
  <2>7. /\ s.epoch = epoch /\ s.auth = next /\ s.hdr = PublicKey1(k) /\ s.es = es /\ s.ct1 = ct1
    BY <2>1 DEF Ct1Sampled
  <2>8. \/ recv(s, msg) = RecvStep([s EXCEPT !.recvingEk = dec])
        \/ recv(s, msg) = RecvStep(Ct1Acknowledged(epoch, next, PublicKey1(k), es, ct1, dec))
        \/ recv(s, msg) = RecvStep(EkReceivedCt1Sampled(epoch, next, es, PublicKey2(k), ct1, s.sendingCt1))
        \/ recv(s, msg) = toCt2Sampled(s, PublicKey2(k))
    BY <2>2, <2>5, <2>6, <2>7, Zenon DEF recvEkChunkCt1Sampled, dec
  <2>9. CASE recv(s, msg) = RecvStep([s EXCEPT !.recvingEk = dec])
    <3>1. [s EXCEPT !.recvingEk = dec] =
              Ct1Sampled(epoch, next, PublicKey1(k), es, ct1, s.sendingCt1, dec)
      BY <2>1 DEF Ct1Sampled
    <3> QED BY <1>5, <2>1, <2>4, <2>9, <3>1
            DEF RecvStep, Ct1Sampled, SendCtState, Unsampled, ct1, es, next
  <2>10. CASE recv(s, msg) = RecvStep(Ct1Acknowledged(epoch, next, PublicKey1(k), es, ct1, dec))
    BY <1>5, <2>4, <2>10 DEF RecvStep, Ct1Acknowledged, SendCtState, Unsampled, ct1, es, next
  <2>11. CASE recv(s, msg) = RecvStep(EkReceivedCt1Sampled(epoch, next, es, PublicKey2(k), ct1, s.sendingCt1))
    BY <1>5, <2>1, <2>11 DEF RecvStep, EkReceivedCt1Sampled, SendCtState, Unsampled, ct1, es, next
  <2>12. CASE recv(s, msg) = toCt2Sampled(s, PublicKey2(k))
    BY <1>5, <2>7, <2>12, ToCt2Sampled DEF Unsampled, ct1, es, next
  <2> QED BY <2>8, <2>9, <2>10, <2>11, <2>12, Zenon
<1>6. CASE s.tag = "EkReceivedCt1Sampled" /\ msg.kind \in {"EkCt1Ack", "Ct1Ack"}
  <2>1. s = EkReceivedCt1Sampled(epoch, next, es, PublicKey2(k), ct1, s.sendingCt1)
    BY <1>6 DEF SendCtState, HeaderReceived
  <2> HIDE DEF ct1, es, next
  <2>2. /\ s.auth = next /\ s.es = es /\ s.ct1 = ct1 /\ s.ek = PublicKey2(k)
    BY <2>1 DEF EkReceivedCt1Sampled
  <2>3. recv(s, msg) = toCt2Sampled(s, PublicKey2(k))
    BY <1>1, <1>6, <2>2, Zenon DEF recvCurrent, recvCt1Ack
  <2> QED BY <1>2, <1>6, <2>2, <2>3, ToCt2Sampled DEF Unsampled, ct1, es, next
<1>7. CASE s.tag = "Ct1Acknowledged" /\ msg.kind \in {"Ek", "EkCt1Ack"}
  <2> DEFINE dec == AddChunk(s.recvingEk, msg.chunk)
  <2>1. /\ s = Ct1Acknowledged(epoch, next, PublicKey1(k), es, ct1, s.recvingEk)
        /\ Collects(s.recvingEk, NeedEk, PublicKey2(k))
    BY <1>7 DEF SendCtState, HeaderReceived
  <2>2. recv(s, msg) = recvEkChunkCt1Acknowledged(s, msg.chunk)
    BY <1>1, <1>7, Zenon DEF recvCurrent
  <2>3. msg.chunk.of = PublicKey2(k)
    BY <1>7, Zenon DEF SendEkMessage
  <2>4. Collects(dec, NeedEk, PublicKey2(k))
    BY <2>1, <2>3, DecoderAdds, Zenon
  <2>5. DecodedMessage(dec) \in {Nil, PublicKey2(k)}
    BY <2>4, DecoderGives, V1Assumption, Zenon
  <2>6. ValidatePublicKeyParts(PublicKey1(k), PublicKey2(k))
    BY Zenon DEF ValidatePublicKeyParts, PublicKey1
  <2> HIDE DEF dec, ct1, es, next
  <2>7. /\ s.auth = next /\ s.hdr = PublicKey1(k) /\ s.es = es /\ s.ct1 = ct1
    BY <2>1 DEF Ct1Acknowledged
  <2>8. \/ recv(s, msg) = RecvStep([s EXCEPT !.recvingEk = dec])
        \/ recv(s, msg) = toCt2Sampled(s, PublicKey2(k))
    BY <2>2, <2>5, <2>6, <2>7, Zenon DEF recvEkChunkCt1Acknowledged, dec
  <2>9. CASE recv(s, msg) = RecvStep([s EXCEPT !.recvingEk = dec])
    <3>1. [s EXCEPT !.recvingEk = dec] = Ct1Acknowledged(epoch, next, PublicKey1(k), es, ct1, dec)
      BY <2>1 DEF Ct1Acknowledged
    <3> QED BY <1>7, <2>4, <2>9, <3>1
            DEF RecvStep, Ct1Acknowledged, SendCtState, Unsampled, ct1, es, next
  <2>10. CASE recv(s, msg) = toCt2Sampled(s, PublicKey2(k))
    BY <1>2, <1>7, <2>7, <2>10, ToCt2Sampled DEF Unsampled, ct1, es, next
  <2> QED BY <2>8, <2>9, <2>10, Zenon
<1> QED BY <1>2, <1>3, <1>4, <1>5, <1>6, <1>7, Zenon DEF recvCurrent, SendCtTags

\* The fields of the state in which a machine awaits the header of an epoch; they
\* survive storing.
LEMMA NoHeaderFields ==
    ASSUME NEW epoch, NEW auth, NEW dec, NEW s, s = NoHeaderReceived(epoch, auth, dec)
    PROVE  /\ v1StateToProto(s) = s /\ s.tag = "NoHeaderReceived" /\ s.epoch = epoch
           /\ s.auth = auth /\ s.recvingHdr = dec
BY DEF NoHeaderReceived, v1StateToProto, StoredFields

\* The same of the state at the end of an epoch.
LEMMA Ct2Fields ==
    ASSUME NEW epoch, NEW auth, NEW enc, NEW s, s = Ct2Sampled(epoch, auth, enc)
    PROVE  /\ v1StateToProto(s) = s /\ s.tag = "Ct2Sampled" /\ s.epoch = epoch
           /\ s.auth = auth /\ s.sendingCt2 = enc
BY DEF Ct2Sampled, v1StateToProto, StoredFields

\* A machine in Ct2Sampled sends the reply of its epoch and holds the next key.
LEMMA Ct2SampledState ==
    ASSUME NEW s, NEW epoch, NEW auth, NEW k, NEW m,
           SendCtState(s, epoch, auth, k, m), s.tag = "Ct2Sampled"
    PROVE  /\ s = Ct2Sampled(epoch, NextAuth(epoch, auth, k, m), s.sendingCt2)
           /\ Encodes(s.sendingCt2, Reply(epoch, auth, k, m))
BY DEF SendCtState, HeaderReceived

\* A machine that sends a ciphertext refuses no message of its peer.
LEMMA SendCtAccepts ==
    ASSUME NEW s, NEW epoch \in Nat, NEW auth, NEW k, NEW m, NEW msg, NEW tag,
           SendCtState(s, epoch, auth, k, m), msg.epoch = epoch,
           SendEkMessage(msg, tag, auth, k)
    PROVE  recv(s, msg).err = "ok"
BY SendCtReceives, SMTT(20)

-----------------------------------------------------------------------------
\* The exchange: what a step does to the secrets, and that it keeps ExchangeInv.

\* The two parties are each other's peer.
LEMMA Peers ==
    ASSUME NEW p \in Parties
    PROVE  /\ Peer(p) \in Parties /\ Peer(p) # p /\ Peer(Peer(p)) = p
           /\ \A q \in Parties : q = p \/ q = Peer(p)
BY ExchangeAssumption DEF Parties, Peer

\* The send_ct role alternates.
LEMMA Alternates ==
    ASSUME NEW p \in Parties, NEW epoch \in Nat, p = Drawer(epoch)
    PROVE  Peer(p) = Drawer(epoch + 1)
BY ExchangeAssumption DEF Parties, Peer, Drawer

\* p, whose turn it is, appends a secret from the randomness that it just drew.
DrawnBy(p) ==
    /\ secrets[p] \in Seq(DrawnSecrets) /\ secrets[Peer(p)] = secrets[p]
    /\ p = Drawer(Len(secrets[p]) + 1)
    /\ \E epoch \in Nat, k \in Nat :
          secrets' = [secrets EXCEPT ![p] = Append(@, epochSecret(epoch, EpochKey(epoch, k, fresh + 1)))]

\* p appends the one secret that its peer has and it has not.
ObtainedBy(p) ==
    /\ secrets[p] \in Seq(DrawnSecrets)
    /\ \E epoch \in Nat, k \in Nat, m \in Nat :
          LET key == epochSecret(epoch, EpochKey(epoch, k, m)) IN
          /\ secrets[Peer(p)] = Append(secrets[p], key)
          /\ secrets' = [secrets EXCEPT ![p] = Append(@, key)]

SecretsStep == \/ UNCHANGED secrets
               \/ \E p \in Parties : DrawnBy(p) \/ ObtainedBy(p)

\* More randomness does not undo what was made from less.
LEMMA DrawnSecretsGrow ==
    ASSUME NEW m \in Nat, NEW n \in Nat, m <= n,
           NEW q \in Seq([epoch : Nat, secret : ({"ss"} \X (0 .. m) \X (0 .. m)) \X Nat])
    PROVE  q \in Seq([epoch : Nat, secret : ({"ss"} \X (0 .. n) \X (0 .. n)) \X Nat])
<1> DEFINE S == [epoch : Nat, secret : ({"ss"} \X (0 .. m) \X (0 .. m)) \X Nat]
           T == [epoch : Nat, secret : ({"ss"} \X (0 .. n) \X (0 .. n)) \X Nat]
<1>1. S \subseteq T
  BY SMT
<1>2. q \in Seq(S)
  BY Zenon
<1> HIDE DEF S, T
<1>3. q \in Seq(T)
  BY <1>1, <1>2
<1> QED BY <1>3, Zenon DEF T

\* The secret of an epoch is one of them, and is not Nil.
LEMMA EpochSecretDrawn ==
    ASSUME NEW n \in Nat, NEW epoch \in Nat, NEW k \in 0 .. n, NEW m \in 0 .. n
    PROVE  epochSecret(epoch, EpochKey(epoch, k, m))
               \in [epoch : Nat, secret : ({"ss"} \X (0 .. n) \X (0 .. n)) \X Nat]
<1>1. epochSecret(epoch, EpochKey(epoch, k, m)) = [epoch |-> epoch, secret |-> <<<<"ss", k, m>>, epoch>>]
  BY Zenon DEF epochSecret, EpochKey, sckaKey, Encapsulated, Encapsulate1, PublicKey1
<1> QED BY <1>1

\* So Learn (the chain's addEpoch) never mistakes a secret for none.
LEMMA EpochSecretNotNil ==
    ASSUME NEW epoch \in Nat, NEW k \in Nat, NEW m \in Nat
    PROVE  epochSecret(epoch, EpochKey(epoch, k, m)) # Nil
<1>1. epochSecret(epoch, EpochKey(epoch, k, m)) = [epoch |-> epoch, secret |-> <<<<"ss", k, m>>, epoch>>]
  BY Zenon DEF epochSecret, EpochKey, sckaKey, Encapsulated, Encapsulate1, PublicKey1
<1>2. epochSecret(epoch, EpochKey(epoch, k, m)) \in [epoch : Nat, secret : ({"ss"} \X Nat \X Nat) \X Nat]
  BY <1>1
<1> QED BY <1>2, NilAssumption, Zenon

\* A message of the send_ct role stays one as its sender goes on.
LEMMA SendCtMessageStays ==
    ASSUME NEW msg, NEW tag, NEW later, NEW auth, NEW k, NEW m,
           SendCtMessage(msg, tag, auth, k, m),
           tag \notin Unsampled => later \notin Unsampled,
           tag = "Ct2Sampled" => later = "Ct2Sampled"
    PROVE  SendCtMessage(msg, later, auth, k, m)
BY Zenon DEF SendCtMessage

\* Before the send_ct party has sampled it has sent nothing but "None".
LEMMA SendCtMessageNone ==
    ASSUME NEW msg, NEW tag, NEW later, NEW auth, NEW k, NEW m, NEW l, NEW n,
           SendCtMessage(msg, tag, auth, k, m), tag \in Unsampled
    PROVE  SendCtMessage(msg, later, auth, l, n)
BY Zenon DEF SendCtMessage, Unsampled

\* What a Send does to the variables, whatever the state is.
LEMMA SendEffect ==
    ASSUME ExchangeInv, NEW p \in Parties, Send(p)
    PROVE  LET step == send(state[p], fresh + 1) IN
           /\ state'[p] = v1StateToProto(step.state) /\ state'[Peer(p)] = state[Peer(p)]
           /\ \A x \in net' : x \in net \/ x = [to |-> Peer(p), msg |-> step.msg]
           /\ fresh \in Nat /\ fresh' \in Nat /\ fresh <= fresh'
           /\ step.key = Nil => secrets' = secrets
           /\ step.key # Nil => /\ secrets'[p] = Append(secrets[p], step.key)
                                /\ secrets'[Peer(p)] = secrets[Peer(p)]
                                /\ secrets' = [secrets EXCEPT ![p] = Append(@, step.key)]
<1> DEFINE step == send(state[p], fresh + 1)
<1> HIDE DEF step
<1>1. /\ state' = [state EXCEPT ![p] = v1StateToProto(step.state)]
      /\ net' = Relevant(net \cup {[to |-> Peer(p), msg |-> step.msg]}, state')
      /\ fresh' = IF state[p].tag \in {"KeysUnsampled", "HeaderReceived"} THEN fresh + 1 ELSE fresh
      /\ secrets' = IF step.key = Nil THEN secrets ELSE [secrets EXCEPT ![p] = Append(@, step.key)]
  BY Zenon DEF Send, Learn, step
<1>2. /\ fresh \in Nat /\ state = [q \in Parties |-> state[q]]
      /\ secrets = [q \in Parties |-> secrets[q]]
  BY Zenon DEF ExchangeInv
<1>3. \A x \in net' : x \in net \/ x = [to |-> Peer(p), msg |-> step.msg]
  BY <1>1, Zenon DEF Relevant
<1>4. fresh' \in Nat /\ fresh <= fresh'
  BY <1>1, <1>2
<1>5. state'[p] = v1StateToProto(step.state) /\ state'[Peer(p)] = state[Peer(p)]
  BY <1>1, <1>2, Peers, Zenon
<1>6. step.key # Nil => /\ secrets'[p] = Append(secrets[p], step.key)
                        /\ secrets'[Peer(p)] = secrets[Peer(p)]
                        /\ secrets' = [secrets EXCEPT ![p] = Append(@, step.key)]
  BY <1>1, <1>2, Peers, Zenon
<1>7. step.key = Nil => secrets' = secrets
  BY <1>1, Zenon
<1> QED BY <1>2, <1>3, <1>4, <1>5, <1>6, <1>7, Zenon DEF step

\* The send_ek party sends (v1Send), drawing its key pair if it has none yet.
LEMMA SendByEk ==
    ASSUME ExchangeInv, NEW p \in Parties, Send(p),
           NEW k \in 0 .. fresh, NEW m \in 0 .. fresh, SameEpoch(p, k, m)
    PROVE  /\ \E l, n \in 0 .. fresh' : SameEpoch(p, l, n)'
           /\ UNCHANGED secrets
<1> DEFINE step  == send(state[p], fresh + 1)
           q     == Peer(p)
           epoch == state[p].epoch
           auth  == state[p].auth
           draws == state[p].tag = "KeysUnsampled"
<1> HIDE DEF step
<1>1. /\ state'[p] = v1StateToProto(step.state) /\ state'[q] = state[q]
      /\ \A x \in net' : x \in net \/ x = [to |-> q, msg |-> step.msg]
      /\ fresh \in Nat /\ fresh' \in Nat /\ fresh <= fresh'
      /\ step.key = Nil => secrets' = secrets
  BY SendEffect, Zenon DEF step
<1>2. /\ epoch \in Nat \ {0} /\ q = Drawer(epoch)
      /\ SameStates(p, k, m) /\ SameMessages(p, k, m) /\ SameSecrets(p, k, m)
  BY Zenon DEF SameEpoch
<1>3. /\ SendEkState(state[p], epoch, auth, k, m)
      /\ SendCtState(state[q], epoch, auth, k, m)
      /\ draws => state[q] = NoHeaderReceived(epoch, auth, NewDecoder(NeedHdr))
      /\ state[q].tag \in Unsampled => state[p].tag \in {"KeysUnsampled", "KeysSampled"}
  BY <1>2, Zenon DEF SameStates
<1>4. PICK l : l = IF draws THEN fresh + 1 ELSE k
  BY Zenon
<1>5. /\ SendEkState(step.state, epoch, auth, l, m) /\ step.key = Nil /\ step.msg.epoch = epoch
      /\ SendEkMessage(step.msg, step.state.tag, auth, l) /\ step.state.tag # "KeysUnsampled"
      /\ step.state.tag = IF draws THEN "KeysSampled" ELSE state[p].tag
  <2>1. CASE draws
    <3>1. state[p] = KeysUnsampled(epoch, auth)
      BY <1>3, <2>1, ZenonT(40) DEF SendEkState
    <3> QED BY <1>4, <2>1, <3>1, SendEkDraws DEF step
  <2>2. CASE ~draws
    BY <1>3, <1>4, <2>2, SendEkSends DEF step
  <2> QED BY <2>1, <2>2, Zenon
<1>6. state'[p] = step.state /\ state'[p].epoch = epoch /\ state'[p].auth = auth
  BY <1>1, <1>5, SendEkStored
<1>7. l \in 0 .. fresh' /\ m \in 0 .. fresh' /\ secrets' = secrets
  <2>1. draws => fresh' = fresh + 1
    BY Zenon DEF Send
  <2> QED BY <1>1, <1>4, <1>5, <2>1
<1>8. draws => state[q].tag = "NoHeaderReceived" /\ state[q].tag \in Unsampled
  BY <1>3 DEF NoHeaderReceived, Unsampled
<1>9. SameStates(p, l, m)'
  <2>1. SendCtState(state[q], epoch, auth, l, m)
    <3>1. CASE draws
      <4>1. NewDecoder(NeedHdr) = state[q].recvingHdr
        BY <1>3, <3>1 DEF NoHeaderReceived
      <4>2. Collects(state[q].recvingHdr, NeedHdr, Header(epoch, auth, l))
        BY <4>1, DecoderNew, Zenon
      <4> QED BY <1>3, <1>8, <3>1, <4>1, <4>2, Zenon DEF SendCtState
    <3>2. CASE ~draws
      BY <1>3, <1>4, <3>2, Zenon
    <3> QED BY <3>1, <3>2, Zenon
  <2>2. state[q].tag \in Unsampled => step.state.tag \in {"KeysUnsampled", "KeysSampled"}
    BY <1>3, <1>5, Zenon
  <2> QED BY <1>1, <1>5, <1>6, <2>1, <2>2, Zenon DEF SameStates
<1>10. SameMessages(p, l, m)'
  <2> SUFFICES ASSUME NEW x \in net'
               PROVE  /\ x.msg.epoch \in Nat /\ x.msg.epoch <= epoch
                      /\ x.msg.epoch = epoch /\ x.to = q => SendEkMessage(x.msg, step.state.tag, auth, l)
                      /\ x.msg.epoch = epoch /\ x.to = p => SendCtMessage(x.msg, state[q].tag, auth, l, m)
    BY <1>1, <1>6, ZenonT(40) DEF SameMessages
  <2>1. CASE x = [to |-> q, msg |-> step.msg]
    BY <1>2, <1>5, <2>1, Peers
  <2>2. CASE x \in net
    <3>1. /\ x.msg.epoch \in Nat /\ x.msg.epoch <= epoch
          /\ x.msg.epoch = epoch /\ x.to = q => SendEkMessage(x.msg, state[p].tag, auth, k)
          /\ x.msg.epoch = epoch /\ x.to = p => SendCtMessage(x.msg, state[q].tag, auth, k, m)
      BY <1>2, <2>2, Zenon DEF SameMessages
    <3>2. CASE draws
      <4>1. ~SendEkMessage(x.msg, state[p].tag, auth, k)
        BY <3>2, Zenon DEF SendEkMessage
      <4> QED BY <1>8, <3>1, <3>2, <4>1, SendCtMessageNone
    <3>3. CASE ~draws
      BY <1>4, <1>5, <3>1, <3>3, Zenon
    <3> QED BY <3>2, <3>3, Zenon
  <2> QED BY <1>1, <2>1, <2>2, Zenon
<1>11. SameSecrets(p, l, m)'
  <2>1. /\ secrets[p] \in Seq(DrawnSecrets) /\ Len(secrets[p]) = epoch - 1
        /\ secrets[q] = IF state[q].tag \in Unsampled THEN secrets[p]
                        ELSE Append(secrets[p], epochSecret(epoch, EpochKey(epoch, k, m)))
    BY <1>2, Zenon DEF SameSecrets
  <2>2. secrets[p] \in Seq(DrawnSecrets')
    BY <1>1, <2>1, DrawnSecretsGrow, Zenon DEF DrawnSecrets
  <2>3. secrets[q] = IF state[q].tag \in Unsampled THEN secrets[p]
                     ELSE Append(secrets[p], epochSecret(epoch, EpochKey(epoch, l, m)))
    BY <1>4, <1>8, <2>1, Zenon
  <2> QED BY <1>1, <1>6, <1>7, <2>1, <2>2, <2>3, Zenon DEF SameSecrets
<1>12. SameEpoch(p, l, m)'
  BY <1>2, <1>6, <1>9, <1>10, <1>11, Zenon DEF SameEpoch
<1> QED BY <1>7, <1>12, Zenon

\* The send_ct party sends (v1Send), drawing the encapsulation once it has a header.
LEMMA SendByCt ==
    ASSUME ExchangeInv, NEW p \in Parties, NEW q \in Parties, q = Peer(p), Send(q),
           NEW k \in 0 .. fresh, NEW m \in 0 .. fresh, SameEpoch(p, k, m)
    PROVE  /\ \E l, n \in 0 .. fresh' : SameEpoch(p, l, n)'
           /\ UNCHANGED secrets \/ DrawnBy(q)
<1> DEFINE step  == send(state[q], fresh + 1)
           epoch == state[p].epoch
           auth  == state[p].auth
           draws == state[q].tag = "HeaderReceived"
<1> HIDE DEF step
<1>0. p = Peer(q) /\ q # p
  BY Peers, Zenon
<1>1. /\ state'[q] = v1StateToProto(step.state) /\ state'[p] = state[p]
      /\ \A x \in net' : x \in net \/ x = [to |-> p, msg |-> step.msg]
      /\ fresh \in Nat /\ fresh' \in Nat /\ fresh <= fresh'
      /\ step.key = Nil => secrets' = secrets
      /\ step.key # Nil => /\ secrets'[q] = Append(secrets[q], step.key)
                           /\ secrets'[p] = secrets[p]
                           /\ secrets' = [secrets EXCEPT ![q] = Append(@, step.key)]
  BY <1>0, SendEffect, Zenon DEF step
<1>2. /\ epoch \in Nat \ {0} /\ q = Drawer(epoch)
      /\ SameStates(p, k, m) /\ SameMessages(p, k, m) /\ SameSecrets(p, k, m)
  BY Zenon DEF SameEpoch
<1>3. /\ SendEkState(state[p], epoch, auth, k, m)
      /\ SendCtState(state[q], epoch, auth, k, m)
      /\ state[p].tag = "KeysUnsampled" => state[q] = NoHeaderReceived(epoch, auth, NewDecoder(NeedHdr))
      /\ state[q].tag \in Unsampled => state[p].tag \in {"KeysUnsampled", "KeysSampled"}
  BY <1>2, Zenon DEF SameStates
<1>4. PICK n : n = IF draws THEN fresh + 1 ELSE m
  BY Zenon
<1>5. /\ SendCtState(step.state, epoch, auth, k, n) /\ step.msg.epoch = epoch
      /\ SendCtMessage(step.msg, step.state.tag, auth, k, n)
      /\ step.state.tag = IF draws THEN "Ct1Sampled" ELSE state[q].tag
      /\ step.key = IF draws THEN epochSecret(epoch, EpochKey(epoch, k, n)) ELSE Nil
      /\ state[q].tag = "NoHeaderReceived" => step.state = state[q]
  <2>1. CASE draws
    <3>1. state[q] = HeaderReceived(epoch, auth, PublicKey1(k), NewDecoder(NeedEk))
      BY <1>3, <2>1, ZenonT(40) DEF SendCtState
    <3> QED BY <1>4, <2>1, <3>1, SendCtDraws DEF step
  <2>2. CASE ~draws
    BY <1>3, <1>4, <2>2, SendCtSends DEF step
  <2> QED BY <2>1, <2>2, ZenonT(40)
<1>6. state'[q] = step.state
  BY <1>1, <1>5, SendCtStored, Zenon
<1>7. n \in 0 .. fresh' /\ k \in 0 .. fresh'
  <2>1. draws => fresh' = fresh + 1
    BY Zenon DEF Send
  <2> QED BY <1>1, <1>4, <2>1
<1>8. draws => state[q].tag \in Unsampled
  BY Zenon DEF Unsampled
<1>9. SameStates(p, k, n)'
  <2>1. SendEkState(state[p], epoch, auth, k, n)
    <3>1. CASE draws
      BY <1>3, <1>8, <3>1, Zenon DEF SendEkState
    <3>2. CASE ~draws
      BY <1>3, <1>4, <3>2, ZenonT(40)
    <3> QED BY <3>1, <3>2, ZenonT(40)
  <2>2. state[p].tag = "KeysUnsampled" => step.state = NoHeaderReceived(epoch, auth, NewDecoder(NeedHdr))
    BY <1>3, <1>5 DEF NoHeaderReceived
  <2>3. step.state.tag \in Unsampled => state[p].tag \in {"KeysUnsampled", "KeysSampled"}
    BY <1>3, <1>5, Zenon DEF Unsampled
  <2> QED BY <1>1, <1>5, <1>6, <2>1, <2>2, <2>3, Zenon DEF SameStates
<1>10. SameMessages(p, k, n)'
  <2> SUFFICES ASSUME NEW x \in net'
               PROVE  /\ x.msg.epoch \in Nat /\ x.msg.epoch <= epoch
                      /\ x.msg.epoch = epoch /\ x.to = q => SendEkMessage(x.msg, state[p].tag, auth, k)
                      /\ x.msg.epoch = epoch /\ x.to = p => SendCtMessage(x.msg, step.state.tag, auth, k, n)
    BY <1>1, <1>6, ZenonT(40) DEF SameMessages
  <2>1. CASE x = [to |-> p, msg |-> step.msg]
    <3>1. x.to = p /\ x.msg = step.msg
      BY <2>1, Zenon
    <3>2. x.to # q /\ epoch \in Nat
      BY <1>0, <1>2, <3>1, Zenon
    <3> QED BY <1>5, <3>1, <3>2
  <2>2. CASE x \in net
    <3>1. /\ x.msg.epoch \in Nat /\ x.msg.epoch <= epoch
          /\ x.msg.epoch = epoch /\ x.to = q => SendEkMessage(x.msg, state[p].tag, auth, k)
          /\ x.msg.epoch = epoch /\ x.to = p => SendCtMessage(x.msg, state[q].tag, auth, k, m)
      BY <1>2, <2>2, Zenon DEF SameMessages
    <3>2. CASE draws
      BY <1>8, <3>1, <3>2, SendCtMessageNone
    <3>3. CASE ~draws
      BY <1>4, <1>5, <3>1, <3>3, Zenon
    <3> QED BY <3>2, <3>3, Zenon
  <2> QED BY <1>1, <2>1, <2>2, Zenon
<1>11. /\ secrets[p] \in Seq(DrawnSecrets) /\ Len(secrets[p]) = epoch - 1
       /\ secrets[q] = IF state[q].tag \in Unsampled THEN secrets[p]
                       ELSE Append(secrets[p], epochSecret(epoch, EpochKey(epoch, k, m)))
  BY <1>2, Zenon DEF SameSecrets
<1>12. SameSecrets(p, k, n)' /\ (UNCHANGED secrets \/ DrawnBy(q))
  <2>1. secrets[p] \in Seq(DrawnSecrets')
    BY <1>1, <1>11, DrawnSecretsGrow, Zenon DEF DrawnSecrets
  <2>2. CASE draws
    <3> DEFINE key == epochSecret(epoch, EpochKey(epoch, k, n))
    <3>1. key # Nil
      <4>1. k \in Nat /\ n \in Nat
        BY <1>1, <1>7
      <4>2. epoch \in Nat
        BY <1>2, Zenon
      <4> QED BY <4>1, <4>2, EpochSecretNotNil, Zenon
    <3>2. step.key = key /\ step.state.tag = "Ct1Sampled" /\ secrets[q] = secrets[p]
      BY <1>5, <1>8, <1>11, <2>2, Zenon
    <3> HIDE DEF key
    <3>3. /\ secrets'[q] = Append(secrets[p], key) /\ secrets'[p] = secrets[p]
          /\ secrets' = [secrets EXCEPT ![q] = Append(@, key)]
      BY <1>1, <3>1, <3>2, Zenon
    <3>4. k \in Nat /\ Len(secrets[q]) + 1 = epoch
      <4>1. fresh \in Nat /\ epoch \in Nat /\ Len(secrets[q]) = epoch - 1
        BY <1>1, <1>2, <1>11, <3>2, Zenon
      <4> QED BY <4>1
    <3>5. DrawnBy(q)
      BY <1>0, <1>2, <1>4, <1>11, <2>2, <3>2, <3>3, <3>4, Zenon DEF DrawnBy, key
    <3>6. step.state.tag \notin Unsampled
      BY <3>2, Zenon DEF Unsampled
    <3>7. SameSecrets(p, k, n)'
      BY <1>1, <1>6, <1>11, <2>1, <3>3, <3>6, Zenon DEF SameSecrets, key
    <3> QED BY <3>5, <3>7, Zenon
  <2>3. CASE ~draws
    <3>1. secrets' = secrets /\ n = m /\ step.state.tag = state[q].tag
      BY <1>1, <1>4, <1>5, <2>3, Zenon
    <3>2. SameSecrets(p, k, n)'
      BY <1>1, <1>6, <1>11, <2>1, <3>1, Zenon DEF SameSecrets
    <3> QED BY <3>1, <3>2, Zenon
  <2> QED BY <2>2, <2>3, Zenon
<1>13. SameEpoch(p, k, n)'
  BY <1>1, <1>2, <1>9, <1>10, <1>12, Zenon DEF SameEpoch
<1> QED BY <1>7, <1>12, <1>13, Zenon

\* With one party an epoch ahead, a send (v1Send) only adds a message: the one
\* ahead has no chunk to send, the other repeats those of ct2.
LEMMA SendWhenAhead ==
    ASSUME ExchangeInv, NEW p \in Parties, NEW r \in Parties, Send(r), OneAhead(p)
    PROVE  OneAhead(p)' /\ UNCHANGED secrets
<1> DEFINE step  == send(state[r], fresh + 1)
           q     == Peer(p)
           epoch == state[q].epoch
           auth  == state[q].auth
<1> HIDE DEF step
<1>0. q \in Parties /\ p = Peer(q) /\ q # p /\ (r = p \/ r = q)
  BY Peers, Zenon
<1>1. /\ state'[r] = v1StateToProto(step.state) /\ state'[Peer(r)] = state[Peer(r)]
      /\ \A x \in net' : x \in net \/ x = [to |-> Peer(r), msg |-> step.msg]
      /\ fresh \in Nat /\ fresh' \in Nat /\ fresh <= fresh'
      /\ step.key = Nil => secrets' = secrets
  BY SendEffect, Zenon DEF step
<1>2. /\ epoch \in Nat \ {0} /\ q = Drawer(epoch)
      /\ state[p] = NoHeaderReceived(epoch + 1, auth, NewDecoder(NeedHdr))
      /\ state[q].tag = "Ct2Sampled"
      /\ state[q] = Ct2Sampled(epoch, auth, state[q].sendingCt2)
      /\ Encodes(state[q].sendingCt2, state[q].sendingCt2.msg)
      /\ \A x \in net : /\ x.msg.epoch \in Nat /\ x.msg.epoch <= epoch + 1
                        /\ x.msg.epoch = epoch + 1 => x.to = q /\ x.msg.kind = "None"
      /\ secrets[p] \in Seq(DrawnSecrets) /\ Len(secrets[p]) = epoch
      /\ secrets[q] = secrets[p]
  BY Zenon DEF OneAhead
<1>3. secrets[p] \in Seq(DrawnSecrets')
  BY <1>1, <1>2, DrawnSecretsGrow, Zenon DEF DrawnSecrets
<1>4. CASE r = p
  <2>1. state[p].tag = "NoHeaderReceived" /\ state[p].epoch = epoch + 1
    BY <1>2, NoHeaderFields
  <2>2. step = SendStep(state[p], Message(state[p], "None", Nil))
    BY <1>4, <2>1, ZenonT(40) DEF send, step
  <2>3. v1StateToProto(state[p]) = state[p]
    BY <1>2, NoHeaderFields
  <2>4. step.state = state[p] /\ step.key = Nil /\ step.msg.kind = "None" /\ step.msg.epoch = epoch + 1
    BY <2>1, <2>2, Zenon DEF SendStep, Message
  <2>5. state'[p] = state[p] /\ state'[q] = state[q] /\ secrets' = secrets
    BY <1>1, <1>4, <2>3, <2>4, ZenonT(40)
  <2>6. \A x \in net' : /\ x.msg.epoch \in Nat /\ x.msg.epoch <= epoch + 1
                        /\ x.msg.epoch = epoch + 1 => x.to = q /\ x.msg.kind = "None"
    BY <1>1, <1>2, <1>4, <2>4
  <2> QED BY <1>2, <1>3, <2>5, <2>6, ZenonT(40) DEF OneAhead
<1>5. CASE r = q
  <2> DEFINE enc == state[q].sendingCt2
  <2>1. step = sendCt2Chunk(state[q])
    BY <1>2, <1>5, Zenon DEF send, step
  <2> HIDE DEF enc
  <2>2. step = SendStep(Ct2Sampled(epoch, auth, Advanced(enc)), Message(state[q], "Ct2", ChunkOf(enc)))
    BY <1>2, <2>1 DEF sendCt2Chunk, Ct2Sampled, enc
  <2>3. v1StateToProto(Ct2Sampled(epoch, auth, Advanced(enc))) = Ct2Sampled(epoch, auth, Advanced(enc))
    BY Zenon DEF v1StateToProto, StoredFields, Ct2Sampled
  <2>4. step.state = Ct2Sampled(epoch, auth, Advanced(enc)) /\ step.key = Nil /\ step.msg.epoch = epoch
    BY <2>2, Zenon DEF SendStep, Message
  <2>5. /\ state'[q] = Ct2Sampled(epoch, auth, Advanced(enc)) /\ state'[p] = state[p]
        /\ secrets' = secrets
    BY <1>0, <1>1, <1>5, <2>3, <2>4, Zenon
  <2>6. Encodes(Advanced(enc), Advanced(enc).msg)
    <3>1. Encodes(Advanced(enc), enc.msg)
      BY <1>2, EncoderAdvances, Zenon DEF enc
    <3> QED BY <3>1, Zenon DEF Encodes
  <2>7. /\ state'[q].epoch = epoch /\ state'[q].auth = auth /\ state'[q].tag = "Ct2Sampled"
        /\ state'[q].sendingCt2 = Advanced(enc)
    BY <2>5, Ct2Fields
  <2>8. \A x \in net' : /\ x.msg.epoch \in Nat /\ x.msg.epoch <= epoch + 1
                        /\ x.msg.epoch = epoch + 1 => x.to = q /\ x.msg.kind = "None"
    BY <1>1, <1>2, <1>5, <2>4
  <2> QED BY <1>2, <1>3, <2>5, <2>6, <2>7, <2>8, Zenon DEF OneAhead
<1> QED BY <1>0, <1>4, <1>5, Zenon

\* What a Receive does to the variables, whatever the state is.
LEMMA ReceiveEffect ==
    ASSUME ExchangeInv, NEW p \in Parties, NEW x \in net, Receive(p, x)
    PROVE  LET step == recv(state[p], x.msg) IN
           /\ x.to = p
           /\ state'[p] = v1StateToProto(step.state) /\ state'[Peer(p)] = state[Peer(p)]
           /\ net' \subseteq net /\ fresh \in Nat /\ fresh' = fresh
           /\ step.key = Nil => secrets' = secrets
           /\ step.key # Nil => /\ secrets'[p] = Append(secrets[p], step.key)
                                /\ secrets'[Peer(p)] = secrets[Peer(p)]
                                /\ secrets' = [secrets EXCEPT ![p] = Append(@, step.key)]
<1> DEFINE step == recv(state[p], x.msg)
<1> HIDE DEF step
<1>1. /\ x.to = p
      /\ state' = [state EXCEPT ![p] = v1StateToProto(step.state)]
      /\ net' = Relevant(net, state') /\ fresh' = fresh
      /\ secrets' = IF step.key = Nil THEN secrets ELSE [secrets EXCEPT ![p] = Append(@, step.key)]
  BY Zenon DEF Receive, Learn, step
<1>2. /\ fresh \in Nat /\ state = [q \in Parties |-> state[q]]
      /\ secrets = [q \in Parties |-> secrets[q]]
  BY Zenon DEF ExchangeInv
<1>3. net' \subseteq net
  BY <1>1, Zenon DEF Relevant
<1>4. state'[p] = v1StateToProto(step.state) /\ state'[Peer(p)] = state[Peer(p)]
  BY <1>1, <1>2, Peers, Zenon
<1>5. step.key # Nil => /\ secrets'[p] = Append(secrets[p], step.key)
                        /\ secrets'[Peer(p)] = secrets[Peer(p)]
                        /\ secrets' = [secrets EXCEPT ![p] = Append(@, step.key)]
  BY <1>1, <1>2, Peers, Zenon
<1>6. step.key = Nil => secrets' = secrets
  BY <1>1, Zenon
<1> QED BY <1>1, <1>2, <1>3, <1>4, <1>5, <1>6, Zenon DEF step

\* recv ignores a message of an epoch its receiver has left.
LEMMA LateIgnored ==
    ASSUME NEW s, NEW msg, s.epoch \in Nat, msg.epoch \in Nat, msg.epoch < s.epoch
    PROVE  recv(s, msg) = RecvStep(s)
BY DEF recv

\* Nothing moves when a step leaves both machines as they were.
LEMMA SameEpochStays ==
    ASSUME NEW p, NEW k, NEW m, SameEpoch(p, k, m),
           state'[p] = state[p], state'[Peer(p)] = state[Peer(p)],
           net' \subseteq net, fresh' = fresh, secrets' = secrets
    PROVE  SameEpoch(p, k, m)'
<1>1. SameStates(p, k, m)'
  BY Zenon DEF SameEpoch, SameStates
<1>2. SameMessages(p, k, m)'
  BY Zenon DEF SameEpoch, SameMessages
<1>3. SameSecrets(p, k, m)'
  BY Zenon DEF SameEpoch, SameSecrets, DrawnSecrets
<1> QED BY <1>1, <1>2, <1>3, Zenon DEF SameEpoch

\* The same with one party an epoch ahead.
LEMMA OneAheadStays ==
    ASSUME NEW p, OneAhead(p),
           state'[p] = state[p], state'[Peer(p)] = state[Peer(p)],
           net' \subseteq net, fresh' = fresh, secrets' = secrets
    PROVE  OneAhead(p)'
BY Zenon DEF OneAhead, DrawnSecrets

\* The send_ek party receives (v1Recv): a chunk, or the epoch's end.
LEMMA ReceiveByEk ==
    ASSUME ExchangeInv, NEW p \in Parties, NEW x \in net, Receive(p, x),
           NEW k \in 0 .. fresh, NEW m \in 0 .. fresh, SameEpoch(p, k, m)
    PROVE  /\ SameEpoch(p, k, m)' \/ OneAhead(p)'
           /\ UNCHANGED secrets \/ ObtainedBy(p)
<1> DEFINE step  == recv(state[p], x.msg)
           q     == Peer(p)
           epoch == state[p].epoch
           auth  == state[p].auth
<1> HIDE DEF step
<1>1. /\ x.to = p
      /\ state'[p] = v1StateToProto(step.state) /\ state'[q] = state[q]
      /\ net' \subseteq net /\ fresh \in Nat /\ fresh' = fresh
      /\ step.key = Nil => secrets' = secrets
      /\ step.key # Nil => /\ secrets'[p] = Append(secrets[p], step.key)
                           /\ secrets'[q] = secrets[q]
                           /\ secrets' = [secrets EXCEPT ![p] = Append(@, step.key)]
  BY ReceiveEffect, Zenon DEF step
<1>2. /\ epoch \in Nat \ {0} /\ q = Drawer(epoch)
      /\ SameStates(p, k, m) /\ SameMessages(p, k, m) /\ SameSecrets(p, k, m)
  BY Zenon DEF SameEpoch
<1>3. /\ SendEkState(state[p], epoch, auth, k, m)
      /\ SendCtState(state[q], epoch, auth, k, m)
      /\ state[p].tag = "KeysUnsampled" => state[q] = NoHeaderReceived(epoch, auth, NewDecoder(NeedHdr))
      /\ state[q].tag \in Unsampled => state[p].tag \in {"KeysUnsampled", "KeysSampled"}
  BY <1>2, Zenon DEF SameStates
<1>4. \A y \in net :
          /\ y.msg.epoch \in Nat /\ y.msg.epoch <= epoch
          /\ y.msg.epoch = epoch /\ y.to = q => SendEkMessage(y.msg, state[p].tag, auth, k)
          /\ y.msg.epoch = epoch /\ y.to = p => SendCtMessage(y.msg, state[q].tag, auth, k, m)
  BY <1>2, Zenon DEF SameMessages
<1>5. /\ secrets[p] \in Seq(DrawnSecrets) /\ Len(secrets[p]) = epoch - 1
      /\ secrets[q] = IF state[q].tag \in Unsampled THEN secrets[p]
                      ELSE Append(secrets[p], epochSecret(epoch, EpochKey(epoch, k, m)))
  BY <1>2, Zenon DEF SameSecrets
<1>6. epoch \in Nat /\ k \in Nat /\ m \in Nat
  BY <1>1, <1>2
<1>7. v1StateToProto(state[p]) = state[p]
  BY <1>3, SendEkStored, ZenonT(40)
<1>8. CASE x.msg.epoch < epoch
  <2>1. step = RecvStep(state[p])
    BY <1>4, <1>6, <1>8, LateIgnored, Zenon DEF step
  <2>2. step.state = state[p] /\ step.key = Nil
    BY <2>1, Zenon DEF RecvStep
  <2>3. state'[p] = state[p] /\ secrets' = secrets
    BY <1>1, <1>7, <2>2, Zenon
  <2> QED BY <1>1, <2>3, SameEpochStays, Zenon
<1>9. CASE x.msg.epoch = epoch
  <2>1. SendCtMessage(x.msg, state[q].tag, auth, k, m)
    BY <1>1, <1>4, <1>9, Zenon
  <2>2. \/ /\ step.key = Nil /\ SendEkState(step.state, epoch, auth, k, m)
           /\ state[p].tag = "KeysUnsampled" <=> step.state.tag = "KeysUnsampled"
           /\ state[q].tag \in Unsampled => step.state = state[p]
        \/ /\ state[q].tag = "Ct2Sampled" /\ state[p].tag = "EkSentCt1Received"
           /\ step.state = NoHeaderReceived(epoch + 1, NextAuth(epoch, auth, k, m), NewDecoder(NeedHdr))
           /\ step.key = epochSecret(epoch, EpochKey(epoch, k, m))
    BY <1>3, <1>6, <1>9, <2>1, SendEkReceives DEF step
  <2>3. CASE /\ step.key = Nil /\ SendEkState(step.state, epoch, auth, k, m)
             /\ state[p].tag = "KeysUnsampled" <=> step.state.tag = "KeysUnsampled"
             /\ state[q].tag \in Unsampled => step.state = state[p]
    <3>1. v1StateToProto(step.state) = step.state /\ step.state.epoch = epoch /\ step.state.auth = auth
      BY <2>3, SendEkStored, Zenon
    <3>2. state'[p] = step.state /\ secrets' = secrets
      BY <1>1, <2>3, <3>1, Zenon
    <3>3. SameStates(p, k, m)'
      <4>1. state[q].tag \in Unsampled => step.state.tag \in {"KeysUnsampled", "KeysSampled"}
        BY <1>3, <2>3, Zenon
      <4>2. step.state.tag = "KeysUnsampled" => state[q] = NoHeaderReceived(epoch, auth, NewDecoder(NeedHdr))
        BY <1>3, <2>3, Zenon
      <4> QED BY <1>1, <1>3, <2>3, <3>1, <3>2, <4>1, <4>2, Zenon DEF SameStates
    <3>4. SameMessages(p, k, m)'
      <4>1. \A y \in net : SendEkMessage(y.msg, state[p].tag, auth, k)
                               => SendEkMessage(y.msg, step.state.tag, auth, k)
        BY <2>3, Zenon DEF SendEkMessage
      <4> QED BY <1>1, <1>4, <3>1, <3>2, <4>1, ZenonT(40) DEF SameMessages
    <3>5. SameSecrets(p, k, m)'
      BY <1>1, <1>5, <3>1, <3>2, Zenon DEF SameSecrets, DrawnSecrets
    <3>6. SameEpoch(p, k, m)'
      BY <1>2, <3>1, <3>2, <3>3, <3>4, <3>5, Zenon DEF SameEpoch
    <3> QED BY <3>2, <3>6, Zenon
  <2>4. CASE /\ state[q].tag = "Ct2Sampled" /\ state[p].tag = "EkSentCt1Received"
             /\ step.state = NoHeaderReceived(epoch + 1, NextAuth(epoch, auth, k, m), NewDecoder(NeedHdr))
             /\ step.key = epochSecret(epoch, EpochKey(epoch, k, m))
    <3> DEFINE next == NextAuth(epoch, auth, k, m)
               key  == epochSecret(epoch, EpochKey(epoch, k, m))
    <3>1. state[q] = Ct2Sampled(epoch, next, state[q].sendingCt2) /\ Encodes(state[q].sendingCt2, Reply(epoch, auth, k, m))
      BY <1>3, <2>4, Ct2SampledState, Zenon
    <3>2. key # Nil
      BY <1>6, EpochSecretNotNil, Zenon
    <3>3. key \in DrawnSecrets
      BY <1>1, <1>6, EpochSecretDrawn, Zenon DEF DrawnSecrets
    <3>4. secrets[q] = Append(secrets[p], key)
      BY <1>5, <2>4, Zenon DEF Unsampled
    <3> HIDE DEF next, key
    <3>5. /\ secrets'[p] = Append(secrets[p], key) /\ secrets'[q] = Append(secrets[p], key)
          /\ secrets' = [secrets EXCEPT ![p] = Append(@, key)]
      BY <1>1, <2>4, <3>2, <3>4, Zenon DEF key
    <3>6. Append(secrets[p], key) \in Seq(DrawnSecrets) /\ Len(Append(secrets[p], key)) = epoch
      BY <1>5, <1>6, <3>3
    <3>7. ObtainedBy(p)
      BY <1>5, <1>6, <3>4, <3>5, Zenon DEF ObtainedBy, key
    <3>8. state'[p] = NoHeaderReceived(epoch + 1, next, NewDecoder(NeedHdr))
      <4>1. v1StateToProto(NoHeaderReceived(epoch + 1, next, NewDecoder(NeedHdr)))
                = NoHeaderReceived(epoch + 1, next, NewDecoder(NeedHdr))
        BY ZenonT(40) DEF v1StateToProto, StoredFields, NoHeaderReceived
      <4> QED BY <1>1, <2>4, <4>1, ZenonT(40) DEF next
    <3>9. state[q].epoch = epoch /\ state[q].auth = next
      BY <3>1 DEF Ct2Sampled
    <3>10. Encodes(state[q].sendingCt2, state[q].sendingCt2.msg)
      BY <3>1, ZenonT(40) DEF Encodes
    <3>11. \A y \in net' : /\ y.msg.epoch \in Nat /\ y.msg.epoch <= epoch + 1
                           /\ y.msg.epoch = epoch + 1 => y.to = q /\ y.msg.kind = "None"
      BY <1>1, <1>4, <1>6
    <3>12. OneAhead(p)'
      <4>1. state'[q] = state[q] /\ DrawnSecrets' = DrawnSecrets
        BY <1>1, <2>4, Zenon DEF DrawnSecrets
      <4>2. secrets'[p] \in Seq(DrawnSecrets') /\ Len(secrets'[p]) = epoch /\ secrets'[q] = secrets'[p]
        BY <3>5, <3>6, <4>1, Zenon
      <4> QED BY <1>2, <2>4, <3>1, <3>8, <3>9, <3>10, <3>11, <4>1, <4>2, Zenon DEF OneAhead
    <3> QED BY <3>7, <3>12, Zenon
  <2> QED BY <2>2, <2>3, <2>4, Zenon
<1> QED BY <1>4, <1>6, <1>8, <1>9

\* The send_ct party receives (v1Recv): a chunk or an acknowledgement.
LEMMA ReceiveByCt ==
    ASSUME ExchangeInv, NEW p \in Parties, NEW q \in Parties, q = Peer(p),
           NEW x \in net, Receive(q, x),
           NEW k \in 0 .. fresh, NEW m \in 0 .. fresh, SameEpoch(p, k, m)
    PROVE  SameEpoch(p, k, m)' /\ UNCHANGED secrets
<1> DEFINE step  == recv(state[q], x.msg)
           epoch == state[p].epoch
           auth  == state[p].auth
<1> HIDE DEF step
<1>0. p = Peer(q)
  BY Peers, Zenon
<1>1. /\ x.to = q
      /\ state'[q] = v1StateToProto(step.state) /\ state'[p] = state[p]
      /\ net' \subseteq net /\ fresh \in Nat /\ fresh' = fresh
      /\ step.key = Nil => secrets' = secrets
  BY <1>0, ReceiveEffect, Zenon DEF step
<1>2. /\ epoch \in Nat \ {0} /\ q = Drawer(epoch)
      /\ SameStates(p, k, m) /\ SameMessages(p, k, m) /\ SameSecrets(p, k, m)
  BY Zenon DEF SameEpoch
<1>3. /\ SendEkState(state[p], epoch, auth, k, m)
      /\ SendCtState(state[q], epoch, auth, k, m)
      /\ state[p].tag = "KeysUnsampled" => state[q] = NoHeaderReceived(epoch, auth, NewDecoder(NeedHdr))
      /\ state[q].tag \in Unsampled => state[p].tag \in {"KeysUnsampled", "KeysSampled"}
  BY <1>2, Zenon DEF SameStates
<1>4. \A y \in net :
          /\ y.msg.epoch \in Nat /\ y.msg.epoch <= epoch
          /\ y.msg.epoch = epoch /\ y.to = q => SendEkMessage(y.msg, state[p].tag, auth, k)
          /\ y.msg.epoch = epoch /\ y.to = p => SendCtMessage(y.msg, state[q].tag, auth, k, m)
  BY <1>2, Zenon DEF SameMessages
<1>5. epoch \in Nat
  BY <1>2, Zenon
<1>6. v1StateToProto(state[q]) = state[q] /\ state[q].epoch = epoch
  BY <1>3, SendCtStored, Zenon
<1>7. CASE x.msg.epoch < epoch
  <2>1. step = RecvStep(state[q])
    BY <1>4, <1>5, <1>6, <1>7, LateIgnored, Zenon DEF step
  <2>2. step.state = state[q] /\ step.key = Nil
    BY <2>1, Zenon DEF RecvStep
  <2>3. state'[q] = state[q] /\ secrets' = secrets
    BY <1>1, <1>6, <2>2, Zenon
  <2> QED BY <1>1, <2>3, SameEpochStays, Zenon
<1>8. CASE x.msg.epoch = epoch
  <2>1. SendEkMessage(x.msg, state[p].tag, auth, k)
    BY <1>1, <1>4, <1>8, Zenon
  <2>2. /\ step.key = Nil /\ SendCtState(step.state, epoch, auth, k, m)
        /\ step.state.tag \in Unsampled <=> state[q].tag \in Unsampled
        /\ state[q].tag = "Ct2Sampled" => step.state.tag = "Ct2Sampled"
    <3>1. SendCtState(state[q], epoch, auth, k, m)
      BY <1>3, Zenon
    <3> QED BY <1>5, <1>8, <2>1, <3>1, SendCtReceives DEF step
  <2>3. state[p].tag # "KeysUnsampled"
    BY <2>1, Zenon DEF SendEkMessage
  <2>4. state'[q] = step.state /\ secrets' = secrets
    BY <1>1, <2>2, SendCtStored, Zenon
  <2>5. SameStates(p, k, m)'
    BY <1>1, <1>3, <2>2, <2>3, <2>4, Zenon DEF SameStates
  <2>6. SameMessages(p, k, m)'
    <3>1. \A y \in net : SendCtMessage(y.msg, state[q].tag, auth, k, m)
                             => SendCtMessage(y.msg, step.state.tag, auth, k, m)
      BY <2>2, SendCtMessageStays, Zenon
    <3> QED BY <1>1, <1>4, <2>4, <3>1, Zenon DEF SameMessages
  <2>7. SameSecrets(p, k, m)'
    BY <1>1, <1>2, <2>2, <2>4, Zenon DEF SameSecrets, DrawnSecrets
  <2> QED BY <1>1, <1>2, <2>4, <2>5, <2>6, <2>7, Zenon DEF SameEpoch
<1> QED BY <1>4, <1>5, <1>7, <1>8

\* With one party an epoch ahead: it ignores what its peer sent in the old epoch,
\* and the peer follows on the first message of the new one (recvNextEpoch).
LEMMA ReceiveWhenAhead ==
    ASSUME ExchangeInv, NEW p \in Parties, NEW r \in Parties, NEW x \in net, Receive(r, x),
           OneAhead(p)
    PROVE  /\ OneAhead(p)' \/ SameEpoch(Peer(p), 0, 0)'
           /\ UNCHANGED secrets
<1> DEFINE step  == recv(state[r], x.msg)
           q     == Peer(p)
           epoch == state[q].epoch
           auth  == state[q].auth
<1> HIDE DEF step
<1>0. q \in Parties /\ p = Peer(q) /\ q # p /\ (r = p \/ r = q)
  BY Peers, Zenon
<1>1. /\ x.to = r
      /\ state'[r] = v1StateToProto(step.state) /\ state'[Peer(r)] = state[Peer(r)]
      /\ net' \subseteq net /\ fresh \in Nat /\ fresh' = fresh
      /\ step.key = Nil => secrets' = secrets
  BY ReceiveEffect, ZenonT(40) DEF step
<1>2. /\ epoch \in Nat \ {0} /\ q = Drawer(epoch)
      /\ state[p] = NoHeaderReceived(epoch + 1, auth, NewDecoder(NeedHdr))
      /\ state[q].tag = "Ct2Sampled"
      /\ state[q] = Ct2Sampled(epoch, auth, state[q].sendingCt2)
      /\ \A y \in net : /\ y.msg.epoch \in Nat /\ y.msg.epoch <= epoch + 1
                        /\ y.msg.epoch = epoch + 1 => y.to = q /\ y.msg.kind = "None"
      /\ secrets[p] \in Seq(DrawnSecrets) /\ Len(secrets[p]) = epoch
      /\ secrets[q] = secrets[p]
  BY Zenon DEF OneAhead
<1>3. epoch \in Nat
  BY <1>2, Zenon
<1>4. state[p].epoch = epoch + 1 /\ v1StateToProto(state[p]) = state[p]
  BY <1>2, NoHeaderFields
<1>5. v1StateToProto(state[q]) = state[q]
  BY <1>2, Ct2Fields
<1>6. x.msg.epoch \in Nat /\ x.msg.epoch <= epoch + 1 /\ (x.msg.epoch = epoch + 1 => x.to = q)
  BY <1>2, Zenon
<1>7. CASE r = p
  <2>1. x.msg.epoch < epoch + 1
    BY <1>0, <1>1, <1>3, <1>6, <1>7
  <2>2. step = RecvStep(state[p])
    BY <1>3, <1>4, <1>6, <1>7, <2>1, LateIgnored DEF step
  <2>3. step.state = state[p] /\ step.key = Nil
    BY <2>2, Zenon DEF RecvStep
  <2> QED BY <1>1, <1>4, <1>7, <2>3, OneAheadStays, Zenon
<1>8. CASE r = q /\ x.msg.epoch # epoch + 1
  <2>1. step = RecvStep(state[q])
    <3>1. CASE x.msg.epoch < epoch
      BY <1>3, <1>6, <1>8, <3>1, LateIgnored, Zenon DEF step
    <3>2. CASE x.msg.epoch = epoch
      BY <1>2, <1>3, <1>8, <3>2 DEF step, recv, recvCurrent
    <3> QED BY <1>3, <1>6, <1>8, <3>1, <3>2
  <2>2. step.state = state[q] /\ step.key = Nil
    BY <2>1, Zenon DEF RecvStep
  <2> QED BY <1>0, <1>1, <1>5, <1>8, <2>2, OneAheadStays, Zenon
<1>9. CASE r = q /\ x.msg.epoch = epoch + 1
  <2> DEFINE s == KeysUnsampled(epoch + 1, auth)
  <2>1. step = RecvStep(s)
    BY <1>2, <1>3, <1>9 DEF step, recv, recvNextEpoch
  <2>2. v1StateToProto(s) = s /\ s.tag = "KeysUnsampled" /\ s.epoch = epoch + 1 /\ s.auth = auth
    BY Zenon DEF v1StateToProto, StoredFields, KeysUnsampled
  <2>3. step.state = s /\ step.key = Nil
    BY <2>1, Zenon DEF RecvStep
  <2> HIDE DEF s
  <2>4. state'[q] = s /\ state'[p] = state[p] /\ secrets' = secrets
    BY <1>0, <1>1, <1>9, <2>2, <2>3, ZenonT(40)
  <2>5. state[p].tag = "NoHeaderReceived" /\ state[p].recvingHdr = NewDecoder(NeedHdr) /\ state[p].tag \in Unsampled
    BY <1>2 DEF NoHeaderReceived, Unsampled
  <2>6. SameStates(q, 0, 0)'
    <3>1. SendEkState(s, epoch + 1, auth, 0, 0)
      BY Zenon DEF SendEkState, s
    <3>2. Collects(NewDecoder(NeedHdr), NeedHdr, Header(epoch + 1, auth, 0))
      BY DecoderNew, Zenon
    <3>3. SendCtState(state[p], epoch + 1, auth, 0, 0)
      BY <1>2, <2>5, <3>2, Zenon DEF SendCtState
    <3> QED BY <1>0, <1>2, <2>2, <2>4, <2>5, <3>1, <3>3, Zenon DEF SameStates
  <2>7. SameMessages(q, 0, 0)'
    <3>1. \A y \in net' : /\ y.msg.epoch \in Nat /\ y.msg.epoch <= epoch + 1
                          /\ y.msg.epoch = epoch + 1 => y.to = q /\ y.msg.kind = "None"
      BY <1>1, <1>2, Zenon
    <3>2. \A y \in net' : y.msg.epoch = epoch + 1 => y.to # p /\ SendCtMessage(y.msg, state[p].tag, auth, 0, 0)
      BY <1>0, <3>1, ZenonT(40) DEF SendCtMessage
    <3> QED BY <1>0, <2>2, <2>4, <3>1, <3>2, ZenonT(40) DEF SameMessages
  <2>8. SameSecrets(q, 0, 0)'
    BY <1>0, <1>1, <1>2, <1>3, <2>2, <2>4, <2>5 DEF SameSecrets, DrawnSecrets
  <2>9. p = Drawer(epoch + 1) /\ epoch + 1 \in Nat \ {0}
    BY <1>0, <1>2, <1>3, Alternates
  <2> QED BY <1>0, <2>2, <2>4, <2>6, <2>7, <2>8, <2>9, Zenon DEF SameEpoch
<1> QED BY <1>0, <1>7, <1>8, <1>9, Zenon

\* A function changed at one place is one over the same set.
LEMMA ExceptKept ==
    ASSUME NEW S, NEW f, f = [x \in S |-> f[x]], NEW p, NEW v
    PROVE  [f EXCEPT ![p] = v] = [x \in S |-> [f EXCEPT ![p] = v][x]]
BY Zenon

\* A step keeps the variables functions over the parties, and messages addressed.
LEMMA FrameKept ==
    ASSUME ExchangeInv, NEW p \in Parties, Send(p) \/ \E x \in net : Receive(p, x)
    PROVE  /\ fresh' \in Nat
           /\ state' = [q \in Parties |-> state'[q]] /\ secrets' = [q \in Parties |-> secrets'[q]]
           /\ \A x \in net' : x.to \in Parties
<1>1. /\ fresh \in Nat /\ state = [q \in Parties |-> state[q]]
      /\ secrets = [q \in Parties |-> secrets[q]] /\ \A x \in net : x.to \in Parties
  BY Zenon DEF ExchangeInv
<1>2. PICK s, key : state' = [state EXCEPT ![p] = s] /\ Learn(p, key)
  BY Zenon DEF Send, Receive
<1>3. state' = [q \in Parties |-> state'[q]]
  BY <1>1, <1>2, Zenon
<1>4. secrets' = [q \in Parties |-> secrets'[q]]
  <2>1. secrets' = secrets \/ secrets' = [secrets EXCEPT ![p] = Append(@, key)]
    BY <1>2, Zenon DEF Learn
  <2>2. CASE secrets' = secrets
    BY <1>1, <2>2, Zenon
  <2>3. CASE secrets' = [secrets EXCEPT ![p] = Append(@, key)]
    BY <1>1, <2>3, ExceptKept, Zenon
  <2> QED BY <2>1, <2>2, <2>3, Zenon
<1>5. CASE Send(p)
  <2>1. PICK msg : net' = Relevant(net \cup {[to |-> Peer(p), msg |-> msg]}, state')
    BY <1>5, Zenon DEF Send
  <2>2. \A x \in net' : x.to \in Parties
    BY <1>1, <2>1, Peers DEF Relevant
  <2>3. fresh' \in Nat
    BY <1>1, <1>5 DEF Send
  <2> QED BY <1>3, <1>4, <2>2, <2>3, Zenon
<1>6. CASE \E x \in net : Receive(p, x)
  <2>1. net' = Relevant(net, state') /\ fresh' = fresh
    BY <1>6, Zenon DEF Receive
  <2>2. \A x \in net' : x.to \in Parties
    BY <1>1, <2>1, Zenon DEF Relevant
  <2> QED BY <1>1, <1>3, <1>4, <2>1, <2>2, Zenon
<1> QED BY <1>5, <1>6, Zenon

\* A step of the exchange keeps ExchangeInv, and adds to the secrets by turns.
LEMMA ExchangeStep ==
    ASSUME ExchangeInv, Next
    PROVE  ExchangeInv' /\ SecretsStep
<1>1. PICK r \in Parties : Send(r) \/ \E x \in net : Receive(r, x)
  BY Zenon DEF Next
<1>2. PICK p \in Parties : (\E k, m \in 0 .. fresh : SameEpoch(p, k, m)) \/ OneAhead(p)
  BY Zenon DEF ExchangeInv
<1>3. r = p \/ r = Peer(p)
  BY Peers, Zenon
<1>4. fresh' \in Nat
  BY <1>1, FrameKept, Zenon
<1>5. /\ \/ \E o \in Parties : \E k, m \in 0 .. fresh' : SameEpoch(o, k, m)'
         \/ \E o \in Parties : OneAhead(o)'
      /\ SecretsStep
  <2>1. CASE \E k, m \in 0 .. fresh : SameEpoch(p, k, m)
    <3>1. PICK k \in 0 .. fresh, m \in 0 .. fresh : SameEpoch(p, k, m)
      BY <2>1, Zenon
    <3>2. CASE Send(r)
      <4>1. CASE r = p
        BY <3>1, <3>2, <4>1, SendByEk, Zenon DEF SecretsStep
      <4>2. CASE r = Peer(p)
        BY <3>1, <3>2, <4>2, SendByCt, Zenon DEF SecretsStep
      <4> QED BY <1>3, <4>1, <4>2, Zenon
    <3>3. CASE \E x \in net : Receive(r, x)
      <4>1. PICK x \in net : Receive(r, x)
        BY <3>3, Zenon
      <4>2. fresh' = fresh
        BY <4>1, Zenon DEF Receive
      <4>3. CASE r = p
        BY <3>1, <4>1, <4>2, <4>3, ReceiveByEk, Zenon DEF SecretsStep
      <4>4. CASE r = Peer(p)
        BY <3>1, <4>1, <4>2, <4>4, ReceiveByCt, Zenon DEF SecretsStep
      <4> QED BY <1>3, <4>3, <4>4, Zenon
    <3> QED BY <1>1, <3>2, <3>3, Zenon
  <2>2. CASE OneAhead(p)
    <3>1. CASE Send(r)
      BY <2>2, <3>1, SendWhenAhead, Zenon DEF SecretsStep
    <3>2. CASE \E x \in net : Receive(r, x)
      <4>1. OneAhead(p)' \/ SameEpoch(Peer(p), 0, 0)'
        BY <2>2, <3>2, ReceiveWhenAhead, Zenon
      <4>2. UNCHANGED secrets
        BY <2>2, <3>2, ReceiveWhenAhead, Zenon
      <4>3. 0 \in 0 .. fresh' /\ Peer(p) \in Parties
        BY <1>4, Peers
      <4> QED BY <4>1, <4>2, <4>3, Zenon DEF SecretsStep
    <3> QED BY <1>1, <3>1, <3>2, Zenon
  <2> QED BY <1>2, <2>1, <2>2, Zenon
<1>6. /\ state' = [q \in Parties |-> state'[q]] /\ secrets' = [q \in Parties |-> secrets'[q]]
      /\ \A x \in net' : x.to \in Parties
  BY <1>1, FrameKept, Zenon
<1>7. ExchangeInv'
  BY <1>4, <1>5, <1>6, Zenon DEF ExchangeInv
<1> QED BY <1>5, <1>7, Zenon

\* newSendEkState and newSendCtState start the machines in the invariant.
LEMMA ExchangeStarts == Init => ExchangeInv
<1> SUFFICES ASSUME Init PROVE ExchangeInv
  BY Zenon
<1> DEFINE auth == newAuthenticator(AuthKey, 1)
<1>0. Alice \in Parties /\ Bob \in Parties /\ Peer(Alice) = Bob /\ Alice # Bob
  BY ExchangeAssumption, Zenon DEF Parties, Peer
<1>1. /\ state[Alice] = KeysUnsampled(1, auth)
      /\ state[Bob] = NoHeaderReceived(1, auth, NewDecoder(NeedHdr))
      /\ secrets[Alice] = <<>> /\ secrets[Bob] = <<>> /\ net = {} /\ fresh = 0
      /\ state = [q \in Parties |-> state[q]] /\ secrets = [q \in Parties |-> secrets[q]]
  BY <1>0, Zenon DEF Init, newSendEkState, newSendCtState
<1> HIDE DEF auth
<1>2. /\ state[Alice].epoch = 1 /\ state[Alice].auth = auth /\ state[Alice].tag = "KeysUnsampled"
      /\ state[Bob].tag = "NoHeaderReceived" /\ state[Bob].recvingHdr = NewDecoder(NeedHdr)
      /\ state[Bob].tag \in Unsampled
  BY <1>1 DEF KeysUnsampled, NoHeaderReceived, Unsampled
<1>3. SameStates(Alice, 0, 0)
  <2>1. SendEkState(state[Alice], 1, auth, 0, 0)
    BY <1>1, Zenon DEF SendEkState
  <2>2. Collects(state[Bob].recvingHdr, NeedHdr, Header(1, auth, 0))
    BY <1>2, DecoderNew, Zenon
  <2>3. SendCtState(state[Bob], 1, auth, 0, 0)
    BY <1>1, <1>2, <2>2, Zenon DEF SendCtState
  <2> QED BY <1>0, <1>1, <1>2, <2>1, <2>3, Zenon DEF SameStates
<1>4. SameMessages(Alice, 0, 0)
  BY <1>1, Zenon DEF SameMessages
<1>5. SameSecrets(Alice, 0, 0)
  BY <1>0, <1>1, <1>2 DEF SameSecrets
<1>6. Bob = Drawer(1) /\ 1 \in Nat \ {0}
  BY DEF Drawer
<1>7. SameEpoch(Alice, 0, 0)
  BY <1>0, <1>2, <1>3, <1>4, <1>5, <1>6, Zenon DEF SameEpoch
<1>8. 0 \in 0 .. fresh /\ fresh \in Nat
  BY <1>1
<1> QED BY <1>0, <1>1, <1>7, <1>8, Zenon DEF ExchangeInv

-----------------------------------------------------------------------------
\* The theorems.

\* ExchangeInv holds in every reachable state of the exchange, whatever send and
\* recv (v1Send, v1Recv) are called with and in whatever order.
THEOREM ExchangeInductive == Spec => []ExchangeInv
<1>1. ExchangeInv /\ [Next]_vars => ExchangeInv'
  <2> SUFFICES ASSUME ExchangeInv, [Next]_vars PROVE ExchangeInv'
    BY Zenon
  <2>1. CASE Next
    BY <2>1, ExchangeStep, Zenon
  <2>2. CASE UNCHANGED vars
    <3>1. state' = state /\ net' = net /\ fresh' = fresh /\ secrets' = secrets
      BY <2>2, Zenon DEF vars
    <3>2. PICK p \in Parties : (\E k, m \in 0 .. fresh : SameEpoch(p, k, m)) \/ OneAhead(p)
      BY Zenon DEF ExchangeInv
    <3>3. (\E k, m \in 0 .. fresh' : SameEpoch(p, k, m)') \/ OneAhead(p)'
      <4>1. ASSUME NEW k, NEW m, SameEpoch(p, k, m) PROVE SameEpoch(p, k, m)'
        BY <3>1, <4>1, SameEpochStays, Zenon
      <4>2. OneAhead(p) => OneAhead(p)'
        BY <3>1, OneAheadStays, Zenon
      <4> QED BY <3>1, <3>2, <4>1, <4>2, Zenon
    <3> QED BY <3>1, <3>3, Zenon DEF ExchangeInv
  <2> QED BY <2>1, <2>2, Zenon
<1> QED BY <1>1, ExchangeStarts, PTL DEF Spec

\* The two machines are in the same epoch in different roles, or one apart with
\* nothing of the new epoch exchanged, for any sizes of the parts and any loss,
\* repetition and reordering (v1Send, v1Recv).
THEOREM EpochsStayInStep == Spec => []EpochsInStep
<1>1. ExchangeInv => EpochsInStep
  <2> SUFFICES ASSUME ExchangeInv PROVE EpochsInStep
    BY Zenon
  <2>1. PICK p \in Parties : (\E k, m \in 0 .. fresh : SameEpoch(p, k, m)) \/ OneAhead(p)
    BY Zenon DEF ExchangeInv
  <2>2. CASE \E k, m \in 0 .. fresh : SameEpoch(p, k, m)
    <3>1. PICK k, m : SameStates(p, k, m)
      BY <2>2, Zenon DEF SameEpoch
    <3>2. /\ SendEkState(state[p], state[p].epoch, state[p].auth, k, m)
          /\ SendCtState(state[Peer(p)], state[p].epoch, state[p].auth, k, m)
      BY <3>1, Zenon DEF SameStates
    <3>3. state[p].tag \in SendEkTags
      BY <3>2, SendEkStored, Zenon
    <3>4. state[Peer(p)].epoch = state[p].epoch /\ state[Peer(p)].tag \in SendCtTags
      BY <3>2, SendCtStored, Zenon
    <3>5. Roles(p) = "send_ek" /\ Roles(Peer(p)) = "send_ct"
      BY <3>3, <3>4, Zenon DEF Roles, SendEkTags, SendCtTags
    <3> QED BY <3>4, <3>5, Zenon DEF EpochsInStep, Parties, Peer
  <2>3. CASE OneAhead(p)
    <3>1. /\ state[Peer(p)].tag = "Ct2Sampled"
          /\ state[p] = NoHeaderReceived(state[Peer(p)].epoch + 1, state[Peer(p)].auth, NewDecoder(NeedHdr))
      BY <2>3, Zenon DEF OneAhead
    <3>2. /\ state[p].epoch = state[Peer(p)].epoch + 1 /\ state[p].tag = "NoHeaderReceived"
          /\ state[p].recvingHdr.pts = {}
      BY <3>1 DEF NoHeaderReceived, NewDecoder
    <3> QED BY <3>1, <3>2, Zenon DEF EpochsInStep
  <2> QED BY <2>1, <2>2, <2>3, Zenon
<1> QED BY <1>1, ExchangeInductive, PTL

\* No message that is under way is refused by recv, for its epoch, its MAC or a
\* key that does not match its header (ErrEpochOutOfRangeV1, ErrInvalidHdrMac,
\* ErrInvalidCtMac, ErrErroneousData).
THEOREM ExchangeRefusesNothing == Spec => []NothingRefused
<1>1. ExchangeInv => NothingRefused
  <2> SUFFICES ASSUME ExchangeInv, NEW x \in net PROVE recv(state[x.to], x.msg).err = "ok"
    BY Zenon DEF NothingRefused
  <2>0. x.to \in Parties /\ fresh \in Nat
    BY Zenon DEF ExchangeInv
  <2>1. PICK p \in Parties : (\E k, m \in 0 .. fresh : SameEpoch(p, k, m)) \/ OneAhead(p)
    BY Zenon DEF ExchangeInv
  <2>2. x.to = p \/ x.to = Peer(p)
    BY <2>0, Peers, Zenon
  <2>3. CASE \E k, m \in 0 .. fresh : SameEpoch(p, k, m)
    <3> DEFINE q     == Peer(p)
               epoch == state[p].epoch
               auth  == state[p].auth
    <3>1. PICK k \in 0 .. fresh, m \in 0 .. fresh : SameEpoch(p, k, m)
      BY <2>3, Zenon
    <3>2. k \in Nat /\ m \in Nat
      BY <2>0
    <3>3. epoch \in Nat /\ SameStates(p, k, m) /\ SameMessages(p, k, m)
      BY <3>1, Zenon DEF SameEpoch
    <3>4. SendEkState(state[p], epoch, auth, k, m) /\ SendCtState(state[q], epoch, auth, k, m)
      BY <3>3, Zenon DEF SameStates
    <3>5. /\ x.msg.epoch \in Nat /\ x.msg.epoch <= epoch
          /\ x.msg.epoch = epoch /\ x.to = q => SendEkMessage(x.msg, state[p].tag, auth, k)
          /\ x.msg.epoch = epoch /\ x.to = p => SendCtMessage(x.msg, state[q].tag, auth, k, m)
      BY <3>3, Zenon DEF SameMessages
    <3>6. state[q].epoch = epoch
      BY <3>4, SendCtStored, Zenon
    <3>7. state[x.to].epoch = epoch
      BY <2>2, <3>6, Zenon
    <3>8. CASE x.msg.epoch < epoch
      <4>1. recv(state[x.to], x.msg) = RecvStep(state[x.to])
        BY <3>3, <3>5, <3>7, <3>8, LateIgnored, Zenon
      <4> QED BY <4>1 DEF RecvStep
    <3>9. CASE x.msg.epoch = epoch /\ x.to = p
      <4>1. SendEkState(state[p], epoch, auth, k, m) /\ SendCtMessage(x.msg, state[q].tag, auth, k, m)
        BY <3>4, <3>5, <3>9, Zenon
      <4>2. PICK s, msg, e, a, t : /\ s = state[p] /\ msg = x.msg /\ e = epoch /\ a = auth
                                   /\ t = state[q].tag
        BY Zenon
      <4>3. /\ e \in Nat /\ msg.epoch = e /\ SendEkState(s, e, a, k, m)
            /\ SendCtMessage(msg, t, a, k, m)
        BY <3>3, <3>9, <4>1, <4>2, ZenonT(40)
      <4>4. recv(s, msg).err = "ok"
        BY <3>2, <4>3, SendEkReceives
      <4> QED BY <3>9, <4>2, <4>4, Zenon
    <3>10. CASE x.msg.epoch = epoch /\ x.to = q
      <4>1. SendCtState(state[q], epoch, auth, k, m) /\ SendEkMessage(x.msg, state[p].tag, auth, k)
        BY <3>4, <3>5, <3>10, Zenon
      <4>2. PICK s, msg, e, a, t : /\ s = state[q] /\ msg = x.msg /\ e = epoch /\ a = auth
                                   /\ t = state[p].tag
        BY Zenon
      <4>3. /\ e \in Nat /\ msg.epoch = e /\ SendCtState(s, e, a, k, m)
            /\ SendEkMessage(msg, t, a, k)
        BY <3>3, <3>10, <4>1, <4>2, Zenon
      <4>4. recv(s, msg).err = "ok"
        BY <4>3, SendCtAccepts, Zenon
      <4> QED BY <3>10, <4>2, <4>4, Zenon
    <3>11. x.msg.epoch < epoch \/ x.msg.epoch = epoch
      BY <3>3, <3>5
    <3> QED BY <2>2, <3>8, <3>9, <3>10, <3>11, Zenon
  <2>4. CASE OneAhead(p)
    <3> DEFINE q     == Peer(p)
               epoch == state[q].epoch
    <3>1. /\ epoch \in Nat /\ state[q].tag = "Ct2Sampled"
          /\ state[p] = NoHeaderReceived(epoch + 1, state[q].auth, NewDecoder(NeedHdr))
          /\ x.msg.epoch \in Nat /\ x.msg.epoch <= epoch + 1
          /\ x.msg.epoch = epoch + 1 => x.to = q
      BY <2>4, ZenonT(40) DEF OneAhead
    <3>2. state[p].epoch = epoch + 1
      BY <3>1 DEF NoHeaderReceived
    <3>3. CASE x.msg.epoch < state[x.to].epoch
      <4>1. recv(state[x.to], x.msg) = RecvStep(state[x.to])
        <5>1. state[x.to].epoch \in Nat
          BY <2>2, <3>1, <3>2
        <5> QED BY <3>1, <3>3, <5>1, LateIgnored, Zenon
      <4> QED BY <4>1 DEF RecvStep
    <3>4. CASE x.to = q /\ x.msg.epoch = epoch
      <4>1. recv(state[q], x.msg) = RecvStep(state[q])
        BY <3>1, <3>4 DEF recv, recvCurrent
      <4> QED BY <3>4, <4>1 DEF RecvStep
    <3>5. CASE x.to = q /\ x.msg.epoch = epoch + 1
      <4>1. recv(state[q], x.msg) = RecvStep(KeysUnsampled(epoch + 1, state[q].auth))
        BY <3>1, <3>5 DEF recv, recvNextEpoch
      <4> QED BY <3>5, <4>1 DEF RecvStep
    <3>6. x.to = p => x.msg.epoch < epoch + 1
      BY <3>1, Peers
    <3>7. x.msg.epoch < epoch \/ x.msg.epoch = epoch \/ x.msg.epoch = epoch + 1
      BY <3>1
    <3> QED BY <2>2, <3>2, <3>3, <3>4, <3>5, <3>6, <3>7, Zenon
  <2> QED BY <2>1, <2>3, <2>4, Zenon
<1> QED BY <1>1, ExchangeInductive, PTL

-----------------------------------------------------------------------------
\* The refinement of continuous key agreement.

\* The KEM secrets behind a sequence of epoch secrets.
Shown(q) == [i \in DOMAIN q |-> q[i].secret[1]]
Known    == [p \in Parties |-> ShownSecrets(p)]

\* One more epoch secret is one more KEM secret.
LEMMA ShownAppend ==
    ASSUME NEW S, NEW q \in Seq(S), NEW key
    PROVE  /\ Shown(Append(q, key)) = Append(Shown(q), key.secret[1])
           /\ Shown(q) \in Seq({q[i].secret[1] : i \in DOMAIN q}) /\ Len(Shown(q)) = Len(q)
           /\ DOMAIN Shown(q) = DOMAIN q
           /\ Shown(Append(q, key))[Len(q) + 1] = key.secret[1]
           /\ Len(Shown(Append(q, key))) = Len(q) + 1
BY DEF Shown

\* What a change of one party's secrets does to what is known.
LEMMA KnownAppend ==
    ASSUME NEW p \in Parties, NEW key, secrets = [q \in Parties |-> secrets[q]],
           secrets' = [secrets EXCEPT ![p] = Append(@, key)],
           secrets[p] \in Seq(DrawnSecrets)
    PROVE  /\ Known' = [Known EXCEPT ![p] = Append(@, key.secret[1])]
           /\ Known'[p] = Append(Known[p], key.secret[1])
           /\ Known'[p][Len(Known[p]) + 1] = key.secret[1]
           /\ Len(Known[p]) = Len(secrets[p]) /\ Len(Known'[p]) = Len(secrets[p]) + 1
<1>1. \A q \in Parties : ShownSecrets(q) = Shown(secrets[q]) /\ ShownSecrets(q)' = Shown(secrets'[q])
  BY Zenon DEF ShownSecrets, Shown
<1>2. /\ secrets'[p] = Append(secrets[p], key)
      /\ \A q \in Parties : q # p => secrets'[q] = secrets[q]
  BY Zenon
<1>3. /\ Shown(Append(secrets[p], key)) = Append(Shown(secrets[p]), key.secret[1])
      /\ Len(Shown(secrets[p])) = Len(secrets[p])
      /\ Shown(Append(secrets[p], key))[Len(secrets[p]) + 1] = key.secret[1]
      /\ Len(Shown(Append(secrets[p], key))) = Len(secrets[p]) + 1
  BY ShownAppend, Zenon
<1>4. Known = [q \in Parties |-> Shown(secrets[q])] /\ Known' = [q \in Parties |-> Shown(secrets'[q])]
  BY <1>1, Zenon DEF Known
<1>5. Known[p] = Shown(secrets[p]) /\ Known'[p] = Shown(Append(secrets[p], key))
  BY <1>2, <1>4, Zenon
<1>6. Known' = [Known EXCEPT ![p] = Append(@, key.secret[1])]
  BY <1>2, <1>3, <1>4, Zenon
<1> QED BY <1>3, <1>5, <1>6, Zenon

\* sendCt1 draws the secret of the epoch, one that was never drawn before.
LEMMA DrawIsDraw ==
    ASSUME ExchangeInv, NEW p \in Parties, DrawnBy(p)
    PROVE  Agreement!Draw(p)
<1>1. /\ secrets[p] \in Seq(DrawnSecrets) /\ secrets[Peer(p)] = secrets[p]
      /\ p = Drawer(Len(secrets[p]) + 1)
  BY Zenon DEF DrawnBy
<1>2. fresh \in Nat /\ secrets = [q \in Parties |-> secrets[q]]
  BY Zenon DEF ExchangeInv
<1>3. PICK epoch \in Nat, k \in Nat :
          secrets' = [secrets EXCEPT ![p] = Append(@, epochSecret(epoch, EpochKey(epoch, k, fresh + 1)))]
  BY Zenon DEF DrawnBy
<1> DEFINE key == epochSecret(epoch, EpochKey(epoch, k, fresh + 1))
           new == key.secret[1]
<1>4. new = <<"ss", k, fresh + 1>>
  BY Zenon DEF epochSecret, EpochKey, sckaKey, Encapsulated, Encapsulate1, PublicKey1
<1>5. \A i \in DOMAIN secrets[p] : secrets[p][i].secret[1] # new
  <2> SUFFICES ASSUME NEW i \in DOMAIN secrets[p] PROVE secrets[p][i].secret[1] # new
    BY Zenon
  <2> DEFINE old == secrets[p][i]
  <2>1. old \in DrawnSecrets
    BY <1>1
  <2> HIDE DEF old, new
  <2>2. old.secret[1][3] \in 0 .. fresh
    BY <2>1, Zenon DEF DrawnSecrets
  <2>3. new[3] = fresh + 1
    BY <1>4, Zenon
  <2>4. old.secret[1] # new
    BY <1>2, <2>2, <2>3
  <2> QED BY <2>4, Zenon DEF old
<1> HIDE DEF key
<1>6. /\ Known' = [Known EXCEPT ![p] = Append(@, new)]
      /\ Known'[p][Len(Known[p]) + 1] = new
      /\ Len(Known[p]) = Len(secrets[p]) /\ Len(Known'[p]) = Len(secrets[p]) + 1
  BY <1>1, <1>2, <1>3, KnownAppend, Zenon DEF key
<1>7. Known[Peer(p)] = Known[p]
  BY <1>1, Peers, Zenon DEF Known, ShownSecrets
<1>8. \A i \in DOMAIN Known[p] : Known[p][i] # new
  <2>1. Known[p] = [i \in DOMAIN secrets[p] |-> secrets[p][i].secret[1]]
    BY Zenon DEF Known, ShownSecrets
  <2> HIDE DEF new
  <2> QED BY <1>5, <2>1, Zenon
<1>9. p = IF (Len(Known[p]) + 1) % 2 = 1 THEN Bob ELSE Alice
  BY <1>1, <1>6, Zenon DEF Drawer
<1>10. Len(Known'[p]) = Len(Known[p]) + 1
  BY <1>6, Zenon
<1> HIDE DEF new
<1> QED BY <1>6, <1>7, <1>8, <1>9, <1>10, Zenon DEF Agreement!Draw, Agreement!Peer, Agreement!Drawer, Peer, Known

\* recvCt2ChunkEkSent obtains the secret that the peer has.
LEMMA ObtainIsObtain ==
    ASSUME ExchangeInv, NEW p \in Parties, ObtainedBy(p)
    PROVE  Agreement!Obtain(p)
<1>1. secrets[p] \in Seq(DrawnSecrets)
  BY Zenon DEF ObtainedBy
<1>2. secrets = [q \in Parties |-> secrets[q]]
  BY Zenon DEF ExchangeInv
<1>3. PICK key : /\ secrets[Peer(p)] = Append(secrets[p], key)
                 /\ secrets' = [secrets EXCEPT ![p] = Append(@, key)]
  BY Zenon DEF ObtainedBy
<1> DEFINE new == key.secret[1]
<1>4. /\ Known' = [Known EXCEPT ![p] = Append(@, new)] /\ Len(Known[p]) = Len(secrets[p])
  BY <1>1, <1>2, <1>3, KnownAppend, Zenon
<1>5. Known[Peer(p)] = Shown(Append(secrets[p], key))
  BY <1>3, Peers, ZenonT(40) DEF Known, ShownSecrets, Shown
<1>6. /\ DOMAIN Shown(Append(secrets[p], key)) = 1 .. Len(secrets[p]) + 1
      /\ Shown(Append(secrets[p], key))[Len(secrets[p]) + 1] = new
      /\ Len(secrets[p]) \in Nat
  BY <1>1, ShownAppend DEF Shown
<1>7. /\ Len(Known[p]) + 1 \in DOMAIN Known[Peer(p)]
      /\ Known[Peer(p)][Len(Known[p]) + 1] = new
  BY <1>4, <1>5, <1>6
<1> HIDE DEF new
<1> QED BY <1>4, <1>7, Zenon DEF Agreement!Obtain, Agreement!Peer, Peer, Known

\* The exchange implements continuous key agreement (v1Send, v1Recv): what
\* the two machines hand to their chains is drawn in turns, never twice the same,
\* and obtained by the other before the next is drawn.
THEOREM ExchangeImplementsCka == Spec => KeyAgreement
<1>1. Init => Agreement!Init
  <2> SUFFICES ASSUME Init PROVE Known = [p \in Parties |-> <<>>]
    BY Zenon DEF Agreement!Init, Agreement!Parties, Parties, Known
  <2>1. \A p \in Parties : ShownSecrets(p) = <<>>
    BY DEF Init, ShownSecrets
  <2> QED BY <2>1, Zenon DEF Known
<1>2. ExchangeInv /\ [Next]_vars => [Agreement!Next]_Known
  <2> SUFFICES ASSUME ExchangeInv, [Next]_vars PROVE [Agreement!Next]_Known
    BY Zenon
  <2>1. SecretsStep
    BY ExchangeStep, Zenon DEF SecretsStep, vars
  <2>2. CASE UNCHANGED secrets
    BY <2>2, Zenon DEF Known, ShownSecrets
  <2>3. CASE \E p \in Parties : DrawnBy(p) \/ ObtainedBy(p)
    BY <2>3, DrawIsDraw, ObtainIsObtain, Zenon DEF Agreement!Next, Agreement!Parties, Parties
  <2> QED BY <2>1, <2>2, <2>3, Zenon DEF SecretsStep
<1> QED BY <1>1, <1>2, ExchangeInductive, PTL DEF Spec, KeyAgreement, Agreement!Spec, Known
=============================================================================
