------------------------------- MODULE SpqrV1 -------------------------------
(***************************************************************************)
(* The SPQR v1 state machine of spqr/v1.go: in every epoch the send_ek     *)
(* party transfers a KEM public key in two parts (hdr, ek), the send_ct    *)
(* party answers with a ciphertext in two parts (ct1, ct2), each part as a *)
(* stream of chunks any sufficient number of which reassembles it, and     *)
(* then the two swap roles.                                                *)
(*                                                                         *)
(* A state is the record that v1_codec.go reads: it has exactly the fields *)
(* of its variant, and of a step's result v1StateToProto keeps only those, *)
(* so a step that needed a field the codec drops would have no value here.  A chunk is its index and *)
(* the message it is a part of; the erasure code itself is ChunkCode.      *)
(***************************************************************************)
EXTENDS Integers, Sequences, FiniteSets

CONSTANTS
    Nil,
    Index16,                    \* 2^16: chunk indices wrap there
    NeedHdr, NeedEk,            \* how many chunks reassemble each part
    NeedCt1, NeedCt2

ASSUME V1Assumption ==
    /\ {Index16, NeedHdr, NeedEk, NeedCt1, NeedCt2} \subseteq Nat \ {0}

-----------------------------------------------------------------------------
\* The incremental KEM, by what its values are made from: a key pair by the
\* random seed k, an encapsulation by the header and the random message m.

PublicKey1(k) == <<"pk1", k>>
PublicKey2(k) == <<"pk2", k>>
SecretKey(k)  == <<"dk", k>>

ValidatePublicKeyParts(pk1, pk2) == pk2 = PublicKey2(pk1[2])

Encapsulate1(pk1, m) ==
    [ct1 |-> <<"ct1", pk1[2], m>>, es |-> <<"es", pk1[2], m>>, ss |-> <<"ss", pk1[2], m>>]

Encapsulate2(es, pk2) == <<"ct2", pk2[2], es[2], es[3]>>

\* Implicit rejection: a ciphertext whose parts do not fit the key and each
\* other gives an unrelated secret.
Decapsulate(dk, ct1, ct2) ==
    IF /\ ct2 # Nil
       /\ ct1 = <<"ct1", dk[2], ct2[4]>>
       /\ ct2 = <<"ct2", dk[2], dk[2], ct2[4]>>
    THEN <<"ss", dk[2], ct2[4]>>
    ELSE <<"rejected", dk, ct1, ct2>>

sckaKey(ss, epoch) == <<ss, epoch>>

-----------------------------------------------------------------------------
\* authenticator: the keys that were folded in, in order.

authUpdate(auth, ep, k) == Append(auth, <<ep, k>>)
newAuthenticator(rootKey, ep) == authUpdate(<<>>, ep, rootKey)
macHdr(auth, ep, hdr)     == <<"ekheader", auth, ep, hdr>>
macCt(auth, ep, ct1, ct2) == <<"ciphertext", auth, ep, ct1, ct2>>

-----------------------------------------------------------------------------
\* The chunk transport: chunked.Encoder and chunked.Decoder.

NewEncoder(msg) == [msg |-> msg, idx |-> 0]
ChunkOf(e)      == [index |-> e.idx, of |-> e.msg]
Advanced(e)     == [e EXCEPT !.idx = (@ + 1) % Index16]

NewDecoder(need) == [need |-> need, pts |-> {}]

\* AddChunk: one point per index; beyond the needed number only points that
\* save an interpolation are kept.
AddChunk(d, c) ==
    IF \/ \E x \in d.pts : x.index = c.index
       \/ c.index >= d.need /\ Cardinality(d.pts) >= d.need
    THEN d
    ELSE [d EXCEPT !.pts = @ \cup {c}]

\* DecodedMessage: chunks of different messages reassemble to neither.
Garbled == <<Nil, Nil, Nil, Nil>>
DecodedMessage(d) ==
    IF Cardinality(d.pts) < d.need THEN Nil
    ELSE IF \A x, y \in d.pts : x.of = y.of
         THEN (CHOOSE x \in d.pts : TRUE).of
         ELSE Garbled

-----------------------------------------------------------------------------
\* The eleven states, as v1StateFromProto reads them.

KeysUnsampled(epoch, auth) ==
    [tag |-> "KeysUnsampled", epoch |-> epoch, auth |-> auth]
KeysSampled(epoch, auth, ek, dk, sendingHdr) ==
    [tag |-> "KeysSampled", epoch |-> epoch, auth |-> auth, ek |-> ek, dk |-> dk,
     sendingHdr |-> sendingHdr]
HeaderSent(epoch, auth, dk, sendingEk, recvingCt1) ==
    [tag |-> "HeaderSent", epoch |-> epoch, auth |-> auth, dk |-> dk,
     sendingEk |-> sendingEk, recvingCt1 |-> recvingCt1]
Ct1Received(epoch, auth, dk, ct1, sendingEk) ==
    [tag |-> "Ct1Received", epoch |-> epoch, auth |-> auth, dk |-> dk, ct1 |-> ct1,
     sendingEk |-> sendingEk]
EkSentCt1Received(epoch, auth, dk, ct1, recvingCt2) ==
    [tag |-> "EkSentCt1Received", epoch |-> epoch, auth |-> auth, dk |-> dk,
     ct1 |-> ct1, recvingCt2 |-> recvingCt2]
NoHeaderReceived(epoch, auth, recvingHdr) ==
    [tag |-> "NoHeaderReceived", epoch |-> epoch, auth |-> auth, recvingHdr |-> recvingHdr]
HeaderReceived(epoch, auth, hdr, recvingEk) ==
    [tag |-> "HeaderReceived", epoch |-> epoch, auth |-> auth, hdr |-> hdr,
     recvingEk |-> recvingEk]
Ct1Sampled(epoch, auth, hdr, es, ct1, sendingCt1, recvingEk) ==
    [tag |-> "Ct1Sampled", epoch |-> epoch, auth |-> auth, hdr |-> hdr, es |-> es,
     ct1 |-> ct1, sendingCt1 |-> sendingCt1, recvingEk |-> recvingEk]
EkReceivedCt1Sampled(epoch, auth, es, ek, ct1, sendingCt1) ==
    [tag |-> "EkReceivedCt1Sampled", epoch |-> epoch, auth |-> auth, es |-> es,
     ek |-> ek, ct1 |-> ct1, sendingCt1 |-> sendingCt1]
Ct1Acknowledged(epoch, auth, hdr, es, ct1, recvingEk) ==
    [tag |-> "Ct1Acknowledged", epoch |-> epoch, auth |-> auth, hdr |-> hdr,
     es |-> es, ct1 |-> ct1, recvingEk |-> recvingEk]
Ct2Sampled(epoch, auth, sendingCt2) ==
    [tag |-> "Ct2Sampled", epoch |-> epoch, auth |-> auth, sendingCt2 |-> sendingCt2]

\* What v1StateToProto writes of a state, by its tag.
StoredFields ==
    [KeysUnsampled        |-> {},
     KeysSampled          |-> {"ek", "dk", "sendingHdr"},
     HeaderSent           |-> {"dk", "sendingEk", "recvingCt1"},
     Ct1Received          |-> {"dk", "ct1", "sendingEk"},
     EkSentCt1Received    |-> {"dk", "ct1", "recvingCt2"},
     NoHeaderReceived     |-> {"recvingHdr"},
     HeaderReceived       |-> {"hdr", "recvingEk"},
     Ct1Sampled           |-> {"hdr", "es", "ct1", "sendingCt1", "recvingEk"},
     EkReceivedCt1Sampled |-> {"es", "ek", "ct1", "sendingCt1"},
     Ct1Acknowledged      |-> {"hdr", "es", "ct1", "recvingEk"},
     Ct2Sampled           |-> {"sendingCt2"}]
v1StateToProto(s) == [f \in {"tag", "epoch", "auth"} \cup StoredFields[s.tag] |-> s[f]]

newSendEkState(authKey) == KeysUnsampled(1, newAuthenticator(authKey, 1))
newSendCtState(authKey) ==
    NoHeaderReceived(1, newAuthenticator(authKey, 1), NewDecoder(NeedHdr))

SendEkTags == {"KeysUnsampled", "KeysSampled", "HeaderSent", "Ct1Received",
               "EkSentCt1Received"}

-----------------------------------------------------------------------------
\* What send and recv return: the next state, the message, the epoch secret.

Message(s, kind, chunk) == [epoch |-> s.epoch, kind |-> kind, chunk |-> chunk]
SendStep(ns, msg)       == [state |-> ns, msg |-> msg, key |-> Nil]
RecvStep(ns)            == [err |-> "ok", state |-> ns, key |-> Nil]
RecvError(s, err)       == [err |-> err, state |-> s, key |-> Nil]
epochSecret(epoch, secret) == [epoch |-> epoch, secret |-> secret]

-----------------------------------------------------------------------------
\* The send_ek role.

sendHdrChunk(s, k) ==
    LET pk1 == PublicKey1(k)
        enc == NewEncoder(<<pk1, macHdr(s.auth, s.epoch, pk1)>>)
    IN  SendStep(KeysSampled(s.epoch, s.auth, PublicKey2(k), SecretKey(k), Advanced(enc)),
                 Message(s, "Hdr", ChunkOf(enc)))

sendHdrChunkAgain(s) ==
    SendStep([s EXCEPT !.sendingHdr = Advanced(@)], Message(s, "Hdr", ChunkOf(s.sendingHdr)))

\* HeaderSent and Ct1Received; a chunk sent in Ct1Received also acknowledges ct1.
sendEkChunk(s) ==
    SendStep([s EXCEPT !.sendingEk = Advanced(@)],
             Message(s, IF s.tag = "HeaderSent" THEN "Ek" ELSE "EkCt1Ack",
                     ChunkOf(s.sendingEk)))

recvCt1ChunkKeysSampled(s, chunk) ==
    RecvStep(HeaderSent(s.epoch, s.auth, s.dk, NewEncoder(s.ek),
                        AddChunk(NewDecoder(NeedCt1), chunk)))

recvCt1ChunkHeaderSent(s, chunk) ==
    LET dec == AddChunk(s.recvingCt1, chunk)
        ct1 == DecodedMessage(dec)
    IN  RecvStep(IF ct1 = Nil
                 THEN [s EXCEPT !.recvingCt1 = dec]
                 ELSE Ct1Received(s.epoch, s.auth, s.dk, ct1, s.sendingEk))

recvCt2ChunkCt1Received(s, chunk) ==
    RecvStep(EkSentCt1Received(s.epoch, s.auth, s.dk, s.ct1,
                               AddChunk(NewDecoder(NeedCt2), chunk)))

\* The mutant keeps the old epoch's authenticator.
recvCt2ChunkEkSentStaleAuth(s, chunk) ==
    LET dec    == AddChunk(s.recvingCt2, chunk)
        body   == DecodedMessage(dec)
        secret == sckaKey(Decapsulate(s.dk, s.ct1, body[1]), s.epoch)
        auth   == authUpdate(s.auth, s.epoch, secret)
    IN  IF body = Nil THEN RecvStep([s EXCEPT !.recvingCt2 = dec])
        ELSE IF body[2] # macCt(auth, s.epoch, s.ct1, body[1])
             THEN RecvError(s, "ErrInvalidCtMac")
             ELSE [err   |-> "ok",
                   state |-> NoHeaderReceived(s.epoch + 1, s.auth, NewDecoder(NeedHdr)),
                   key   |-> epochSecret(s.epoch, secret)]
recvCt2ChunkEkSent(s, chunk) ==
    LET dec    == AddChunk(s.recvingCt2, chunk)
        body   == DecodedMessage(dec)
        secret == sckaKey(Decapsulate(s.dk, s.ct1, body[1]), s.epoch)
        auth   == authUpdate(s.auth, s.epoch, secret)
    IN  IF body = Nil THEN RecvStep([s EXCEPT !.recvingCt2 = dec])
        ELSE IF body[2] # macCt(auth, s.epoch, s.ct1, body[1])
             THEN RecvError(s, "ErrInvalidCtMac")
             ELSE [err   |-> "ok",
                   state |-> NoHeaderReceived(s.epoch + 1, auth, NewDecoder(NeedHdr)),
                   key   |-> epochSecret(s.epoch, secret)]

-----------------------------------------------------------------------------
\* The send_ct role.

recvHdrChunk(s, chunk) ==
    LET dec  == AddChunk(s.recvingHdr, chunk)
        body == DecodedMessage(dec)
    IN  IF body = Nil THEN RecvStep([s EXCEPT !.recvingHdr = dec])
        ELSE IF body[2] # macHdr(s.auth, s.epoch, body[1])
             THEN RecvError(s, "ErrInvalidHdrMac")
             ELSE RecvStep(HeaderReceived(s.epoch, s.auth, body[1], NewDecoder(NeedEk)))

\* The mutant stays in HeaderReceived and so encapsulates again next time.
sendCt1Again(s, m) ==
    LET res    == Encapsulate1(s.hdr, m)
        secret == sckaKey(res.ss, s.epoch)
    IN  [state |-> s, msg |-> Message(s, "Ct1", ChunkOf(NewEncoder(res.ct1))),
         key   |-> epochSecret(s.epoch, secret)]
sendCt1(s, m) ==
    LET res    == Encapsulate1(s.hdr, m)
        secret == sckaKey(res.ss, s.epoch)
        enc    == NewEncoder(res.ct1)
    IN  [state |-> Ct1Sampled(s.epoch, authUpdate(s.auth, s.epoch, secret), s.hdr,
                              res.es, res.ct1, Advanced(enc), s.recvingEk),
         msg   |-> Message(s, "Ct1", ChunkOf(enc)),
         key   |-> epochSecret(s.epoch, secret)]

\* Ct1Sampled and EkReceivedCt1Sampled.
sendCt1Chunk(s) ==
    SendStep([s EXCEPT !.sendingCt1 = Advanced(@)], Message(s, "Ct1", ChunkOf(s.sendingCt1)))

toCt2Sampled(s, ek) ==
    LET ct2 == Encapsulate2(s.es, ek)
    IN  RecvStep(Ct2Sampled(s.epoch, s.auth,
                            NewEncoder(<<ct2, macCt(s.auth, s.epoch, s.ct1, ct2)>>)))

\* The mutant forgets the chunks of ek received so far when ct1 is acknowledged.
recvEkChunkCt1SampledRestart(s, chunk, ack) ==
    LET dec == AddChunk(s.recvingEk, chunk)
        ek  == DecodedMessage(dec)
    IN  CASE ek = Nil /\ ~ack -> RecvStep([s EXCEPT !.recvingEk = dec])
          [] ek = Nil /\ ack  ->
                 RecvStep(Ct1Acknowledged(s.epoch, s.auth, s.hdr, s.es, s.ct1,
                                          [dec EXCEPT !.need = @ + Index16]))
          [] ek # Nil /\ ~ValidatePublicKeyParts(s.hdr, ek) -> RecvError(s, "ErrErroneousData")
          [] ek # Nil /\ ValidatePublicKeyParts(s.hdr, ek) /\ ~ack ->
                 RecvStep(EkReceivedCt1Sampled(s.epoch, s.auth, s.es, ek, s.ct1, s.sendingCt1))
          [] OTHER -> toCt2Sampled(s, ek)
recvEkChunkCt1Sampled(s, chunk, ack) ==
    LET dec == AddChunk(s.recvingEk, chunk)
        ek  == DecodedMessage(dec)
    IN  CASE ek = Nil /\ ~ack -> RecvStep([s EXCEPT !.recvingEk = dec])
          [] ek = Nil /\ ack  ->
                 RecvStep(Ct1Acknowledged(s.epoch, s.auth, s.hdr, s.es, s.ct1, dec))
          [] ek # Nil /\ ~ValidatePublicKeyParts(s.hdr, ek) -> RecvError(s, "ErrErroneousData")
          [] ek # Nil /\ ValidatePublicKeyParts(s.hdr, ek) /\ ~ack ->
                 RecvStep(EkReceivedCt1Sampled(s.epoch, s.auth, s.es, ek, s.ct1, s.sendingCt1))
          [] OTHER -> toCt2Sampled(s, ek)

recvCt1Ack(s) == toCt2Sampled(s, s.ek)

recvEkChunkCt1Acknowledged(s, chunk) ==
    LET dec == AddChunk(s.recvingEk, chunk)
        ek  == DecodedMessage(dec)
    IN  IF ek = Nil THEN RecvStep([s EXCEPT !.recvingEk = dec])
        ELSE IF ~ValidatePublicKeyParts(s.hdr, ek)
             THEN RecvError(s, "ErrErroneousData")
             ELSE toCt2Sampled(s, ek)

sendCt2Chunk(s) ==
    SendStep([s EXCEPT !.sendingCt2 = Advanced(@)], Message(s, "Ct2", ChunkOf(s.sendingCt2)))

\* The mutant takes up the role of the next epoch in the epoch that is over.
recvNextEpochBehind(s, nextEpoch) == RecvStep(KeysUnsampled(s.epoch, s.auth))
recvNextEpoch(s, nextEpoch) == RecvStep(KeysUnsampled(nextEpoch, s.auth))

-----------------------------------------------------------------------------
\* The dispatch.  "random" is what the step draws from its source of randomness.

send(s, random) ==
    CASE s.tag = "KeysUnsampled"        -> sendHdrChunk(s, random)
      [] s.tag = "KeysSampled"          -> sendHdrChunkAgain(s)
      [] s.tag \in {"HeaderSent", "Ct1Received"} -> sendEkChunk(s)
      [] s.tag = "EkSentCt1Received"    -> SendStep(s, Message(s, "Ct1Ack", Nil))
      [] s.tag \in {"NoHeaderReceived", "Ct1Acknowledged"} ->
             SendStep(s, Message(s, "None", Nil))
      [] s.tag = "HeaderReceived"       -> sendCt1(s, random)
      [] s.tag \in {"Ct1Sampled", "EkReceivedCt1Sampled"} -> sendCt1Chunk(s)
      [] s.tag = "Ct2Sampled"           -> sendCt2Chunk(s)

\* A message of the state's own epoch; most kinds mean nothing to most states.
recvCurrent(s, m) ==
    CASE s.tag = "KeysSampled" /\ m.kind = "Ct1"       -> recvCt1ChunkKeysSampled(s, m.chunk)
      [] s.tag = "HeaderSent" /\ m.kind = "Ct1"        -> recvCt1ChunkHeaderSent(s, m.chunk)
      [] s.tag = "Ct1Received" /\ m.kind = "Ct2"       -> recvCt2ChunkCt1Received(s, m.chunk)
      [] s.tag = "EkSentCt1Received" /\ m.kind = "Ct2" -> recvCt2ChunkEkSent(s, m.chunk)
      [] s.tag = "NoHeaderReceived" /\ m.kind = "Hdr"  -> recvHdrChunk(s, m.chunk)
      [] s.tag = "Ct1Sampled" /\ m.kind \in {"Ek", "EkCt1Ack"} ->
             recvEkChunkCt1Sampled(s, m.chunk, m.kind = "EkCt1Ack")
      [] s.tag = "EkReceivedCt1Sampled" /\ m.kind \in {"EkCt1Ack", "Ct1Ack"} -> recvCt1Ack(s)
      [] s.tag = "Ct1Acknowledged" /\ m.kind \in {"Ek", "EkCt1Ack"} ->
             recvEkChunkCt1Acknowledged(s, m.chunk)
      [] OTHER -> RecvStep(s)

\* The mutant accepts the next epoch only from a message that carries a header.
recvNotByAnyKind(s, m) ==
    CASE m.epoch > s.epoch /\ s.tag = "Ct2Sampled" /\ m.epoch = s.epoch + 1
         /\ m.kind = "Hdr" -> recvNextEpoch(s, m.epoch)
      [] m.epoch > s.epoch /\ ~(s.tag = "Ct2Sampled" /\ m.epoch = s.epoch + 1
                                /\ m.kind = "Hdr") ->
             RecvError(s, "ErrEpochOutOfRangeV1")
      [] m.epoch < s.epoch -> RecvStep(s)
      [] OTHER -> recvCurrent(s, m)
recv(s, m) ==
    CASE m.epoch > s.epoch /\ s.tag = "Ct2Sampled" /\ m.epoch = s.epoch + 1 ->
             recvNextEpoch(s, m.epoch)
      [] m.epoch > s.epoch /\ ~(s.tag = "Ct2Sampled" /\ m.epoch = s.epoch + 1) ->
             RecvError(s, "ErrEpochOutOfRangeV1")
      [] m.epoch < s.epoch -> RecvStep(s)
      [] OTHER -> recvCurrent(s, m)

=============================================================================
