----------------------- MODULE SpqrExchangeProperties -----------------------
EXTENDS SpqrExchange

Roles(p) == IF state[p].tag \in SendEkTags THEN "send_ek" ELSE "send_ct"

\* The raw KEM secrets behind the epoch secrets a party handed to its chain.
ShownSecrets(p) == [i \in DOMAIN secrets[p] |-> secrets[p][i].secret[1]]

\* Two honest machines stay in step (spqr/v1.go, send and recv): in the same epoch exactly
\* one of them sends the encapsulation key; otherwise they are one epoch apart,
\* the one ahead has nothing yet from the one behind, and the one behind has
\* nothing left to do but learn that the epoch is over.
EpochsInStep ==
    \/ state[Alice].epoch = state[Bob].epoch /\ Roles(Alice) # Roles(Bob)
    \/ \E p \in Parties : /\ state[p].epoch = state[Peer(p)].epoch + 1
                          /\ state[p].tag = "NoHeaderReceived"
                          /\ state[p].recvingHdr.pts = {}
                          /\ state[Peer(p)].tag = "Ct2Sampled"

\* Whatever is under way can be delivered now: no message of the peer, however
\* late, repeated or out of order, is refused for its epoch, fails a MAC or
\* carries a key that does not match its header.
NothingRefused ==
    \A x \in net : recv(state[x.to], x.msg).err = "ok"

\* The exchange implements continuous key agreement: the secrets the two machines
\* hand to their chains (the keys of v1Send and v1Recv) are drawn in turns, one
\* per epoch and never one twice, and each is obtained by the other party, the
\* same, before the next is drawn.
Agreement    == INSTANCE Cka WITH known <- [p \in Parties |-> ShownSecrets(p)]
KeyAgreement == Agreement!Spec

\* While both users keep writing and not everything is lost, the epochs go on.
EpochsAdvance == <>(\A p \in Parties : state[p].epoch = MaxEpoch)

-----------------------------------------------------------------------------
(***************************************************************************)
(* The inductive invariant behind them.  In an epoch everything the two    *)
(* machines hold and send is made from the authenticator, the key pair k   *)
(* of one party and the encapsulation m of the other.                      *)
(***************************************************************************)
Header(epoch, auth, k)  == <<PublicKey1(k), macHdr(auth, epoch, PublicKey1(k))>>
Encapsulated(k, m)      == Encapsulate1(PublicKey1(k), m)
EpochKey(epoch, k, m)   == sckaKey(Encapsulated(k, m).ss, epoch)
NextAuth(epoch, auth, k, m) == authUpdate(auth, epoch, EpochKey(epoch, k, m))
Ct2Of(k, m)             == Encapsulate2(Encapsulated(k, m).es, PublicKey2(k))
Reply(epoch, auth, k, m) ==
    <<Ct2Of(k, m), macCt(NextAuth(epoch, auth, k, m), epoch, Encapsulated(k, m).ct1, Ct2Of(k, m))>>

\* An encoder of msg, and a decoder that has only chunks of msg.
Encodes(enc, msg)       == enc = [msg |-> msg, idx |-> enc.idx]
Collects(dec, need, msg) ==
    /\ dec = [need |-> need, pts |-> dec.pts]
    /\ \A x \in dec.pts : x.of = msg

\* The states of the two roles in an epoch.
SendEkState(s, epoch, auth, k, m) ==
    \/ s = KeysUnsampled(epoch, auth)
    \/ /\ s.tag = "KeysSampled"
       /\ s = KeysSampled(epoch, auth, PublicKey2(k), SecretKey(k), s.sendingHdr)
       /\ Encodes(s.sendingHdr, Header(epoch, auth, k))
    \/ /\ s.tag = "HeaderSent"
       /\ s = HeaderSent(epoch, auth, SecretKey(k), s.sendingEk, s.recvingCt1)
       /\ Encodes(s.sendingEk, PublicKey2(k))
       /\ Collects(s.recvingCt1, NeedCt1, Encapsulated(k, m).ct1)
    \/ /\ s.tag = "Ct1Received"
       /\ s = Ct1Received(epoch, auth, SecretKey(k), Encapsulated(k, m).ct1, s.sendingEk)
       /\ Encodes(s.sendingEk, PublicKey2(k))
    \/ /\ s.tag = "EkSentCt1Received"
       /\ s = EkSentCt1Received(epoch, auth, SecretKey(k), Encapsulated(k, m).ct1, s.recvingCt2)
       /\ Collects(s.recvingCt2, NeedCt2, Reply(epoch, auth, k, m))

SendCtState(s, epoch, auth, k, m) ==
    LET enc  == Encapsulated(k, m)
        next == NextAuth(epoch, auth, k, m)
    IN  \/ /\ s.tag = "NoHeaderReceived"
           /\ s = NoHeaderReceived(epoch, auth, s.recvingHdr)
           /\ Collects(s.recvingHdr, NeedHdr, Header(epoch, auth, k))
        \/ s = HeaderReceived(epoch, auth, PublicKey1(k), NewDecoder(NeedEk))
        \/ /\ s.tag = "Ct1Sampled"
           /\ s = Ct1Sampled(epoch, next, PublicKey1(k), enc.es, enc.ct1, s.sendingCt1, s.recvingEk)
           /\ Encodes(s.sendingCt1, enc.ct1)
           /\ Collects(s.recvingEk, NeedEk, PublicKey2(k))
        \/ /\ s.tag = "EkReceivedCt1Sampled"
           /\ s = EkReceivedCt1Sampled(epoch, next, enc.es, PublicKey2(k), enc.ct1, s.sendingCt1)
           /\ Encodes(s.sendingCt1, enc.ct1)
        \/ /\ s.tag = "Ct1Acknowledged"
           /\ s = Ct1Acknowledged(epoch, next, PublicKey1(k), enc.es, enc.ct1, s.recvingEk)
           /\ Collects(s.recvingEk, NeedEk, PublicKey2(k))
        \/ /\ s.tag = "Ct2Sampled"
           /\ s = Ct2Sampled(epoch, next, s.sendingCt2)
           /\ Encodes(s.sendingCt2, Reply(epoch, auth, k, m))

\* Before m is drawn the send_ct party is in one of these.
Unsampled == {"NoHeaderReceived", "HeaderReceived"}

\* What the two roles send in an epoch, by the state they have come to.
SendEkMessage(msg, tag, auth, k) ==
    /\ tag # "KeysUnsampled"
    /\ \/ msg.kind = "Hdr" /\ msg.chunk.of = Header(msg.epoch, auth, k)
       \/ msg.kind \in {"Ek", "EkCt1Ack"} /\ msg.chunk.of = PublicKey2(k)
       \/ msg.kind = "Ct1Ack"

SendCtMessage(msg, tag, auth, k, m) ==
    \/ msg.kind = "None"
    \/ msg.kind = "Ct1" /\ tag \notin Unsampled /\ msg.chunk.of = Encapsulated(k, m).ct1
    \/ msg.kind = "Ct2" /\ tag = "Ct2Sampled" /\ msg.chunk.of = Reply(msg.epoch, auth, k, m)

\* The epoch secrets that can have been made from the randomness drawn so far.
DrawnSecrets == [epoch : Nat, secret : ({"ss"} \X (0 .. fresh) \X (0 .. fresh)) \X Nat]

Drawer(epoch) == IF epoch % 2 = 1 THEN Bob ELSE Alice

\* p sends the encapsulation key of an epoch that both are in, with key pair k
\* and encapsulation m where they were drawn: the two states, what is under way,
\* and the secrets.
SameStates(p, k, m) ==
    LET q     == Peer(p)
        epoch == state[p].epoch
        auth  == state[p].auth
    IN  /\ SendEkState(state[p], epoch, auth, k, m)
        /\ SendCtState(state[q], epoch, auth, k, m)
        /\ state[p].tag = "KeysUnsampled" =>
               state[q] = NoHeaderReceived(epoch, auth, NewDecoder(NeedHdr))
        /\ state[q].tag \in Unsampled => state[p].tag \in {"KeysUnsampled", "KeysSampled"}

SameMessages(p, k, m) ==
    LET q     == Peer(p)
        epoch == state[p].epoch
        auth  == state[p].auth
    IN  \A x \in net :
            /\ x.msg.epoch \in Nat /\ x.msg.epoch <= epoch
            /\ x.msg.epoch = epoch /\ x.to = q => SendEkMessage(x.msg, state[p].tag, auth, k)
            /\ x.msg.epoch = epoch /\ x.to = p => SendCtMessage(x.msg, state[q].tag, auth, k, m)

SameSecrets(p, k, m) ==
    LET q     == Peer(p)
        epoch == state[p].epoch
    IN  /\ secrets[p] \in Seq(DrawnSecrets) /\ Len(secrets[p]) = epoch - 1
        /\ secrets[q] = IF state[q].tag \in Unsampled THEN secrets[p]
                        ELSE Append(secrets[p], epochSecret(epoch, EpochKey(epoch, k, m)))

SameEpoch(p, k, m) ==
    /\ state[p].epoch \in Nat \ {0} /\ Peer(p) = Drawer(state[p].epoch)
    /\ SameStates(p, k, m) /\ SameMessages(p, k, m) /\ SameSecrets(p, k, m)

\* p has obtained the secret of the epoch that its peer is still in.
OneAhead(p) ==
    LET q     == Peer(p)
        epoch == state[q].epoch
    IN  /\ epoch \in Nat \ {0} /\ q = Drawer(epoch)
        /\ state[p] = NoHeaderReceived(epoch + 1, state[q].auth, NewDecoder(NeedHdr))
        /\ state[q].tag = "Ct2Sampled"
        /\ state[q] = Ct2Sampled(epoch, state[q].auth, state[q].sendingCt2)
        /\ Encodes(state[q].sendingCt2, state[q].sendingCt2.msg)
        /\ \A x \in net : /\ x.msg.epoch \in Nat /\ x.msg.epoch <= epoch + 1
                          /\ x.msg.epoch = epoch + 1 => x.to = q /\ x.msg.kind = "None"
        /\ secrets[p] \in Seq(DrawnSecrets) /\ Len(secrets[p]) = epoch
        /\ secrets[q] = secrets[p]

\* What send and recv keep true of two machines and all that is under way.
ExchangeInv ==
    /\ fresh \in Nat
    /\ state = [p \in Parties |-> state[p]] /\ secrets = [p \in Parties |-> secrets[p]]
    /\ \A x \in net : x.to \in Parties
    /\ \E p \in Parties : \/ \E k, m \in 0 .. fresh : SameEpoch(p, k, m)
                          \/ OneAhead(p)
=============================================================================
