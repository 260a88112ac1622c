-------------------------- MODULE SessionProperties --------------------------
(***************************************************************************)
(* What two parties that use the session package may rely on.              *)
(***************************************************************************)
EXTENDS Session

-----------------------------------------------------------------------------
\* Types

Keys == {"identity", "signed", "kyber", "onetime", "ephemeral"}
            \X Parties \X Nat \X Nat
Ciphertexts == [to : Keys, by : Keys]
Handshakes == [dh1 : SUBSET Keys, dh2 : SUBSET Keys, dh3 : SUBSET Keys,
               dh4 : SUBSET Keys, ss : [key : Keys, ct : Ciphertexts]]
Roots == [hs : Handshakes, dh : Seq(SUBSET Keys)]
ChainKeys == [root : Roots, n : Nat]
Chains == [ratchet : Keys, ck : ChainKeys, keys : Seq(ChainKeys)]
Pendings == [id : PreKeyIDs \cup {Nil}, ct : Ciphertexts, at : Nat]
PQStates == [dir : {"A2B", "B2A"}, send : Directions, recv : Directions]
SessionStates ==
    [base : Keys, local : Keys, remote : Keys, root : Roots, ratchet : Keys,
     ck : ChainKeys, previousCounter : Nat, recv : Seq(Chains),
     pq : PQStates,
     pending : Pendings \cup {Nil}]
Records == [current : SessionStates \cup {Nil}, previous : Seq(SessionStates)]
Macs == [gen : ChainKeys,
         pq : [hs : Handshakes, dir : {"A2B", "B2A", "none"}, pos : Nat],
         sender : Keys, receiver : Keys]
PreParts == [id : PreKeyIDs \cup {Nil}, base : Keys, identity : Keys, ct : Ciphertexts]
Bundles == [identity : Keys, signed : Keys, kyber : Keys, oneTime : Keys \cup {Nil}]
Messages ==
    [to : Parties, num : 1 .. MaxSent, ratchet : Keys, counter : Nat,
     previousCounter : Nat, pqIndex : Nat, mac : Macs, pre : PreParts \cup {Nil}]

\* Nil stands for an absent pending pre-key message.
ASSUME PendingAssumption == Nil \notin Pendings

Handlers == {"none", "ProcessPreKeyBundle", "Encrypt", "Decrypt", "DecryptPreKey",
             "ArchiveCurrentState", "Reset", "Reinstall"}
Errors == {"ok", "store", "ErrUntrustedIdentity", "ErrSessionNotFound", "ErrInvalidMessage",
           "ErrDuplicateMessage", "ErrInvalidPreKeyID", "ErrReusedBaseKey",
           "ErrKeyJump", "ErrKeyTrimmed", "ErrKeyAlreadyRequested"}

\* Every variable has the type the Go declarations give it.
TypeOK ==
    /\ record \in [Parties -> Records]
    /\ known \in [Parties -> Keys \cup {Nil}]
    /\ preKeys \in [Parties -> SUBSET PreKeyIDs]
    /\ baseKeysSeen \in [Parties -> SUBSET Keys]
    /\ installation \in [Parties -> Nat]
    /\ issued \in [Parties -> SUBSET PreKeyIDs]
    /\ fresh \in [Parties -> Nat]
    /\ net \subseteq Messages
    /\ sent \in [Parties -> 0 .. MaxSent]
    /\ delivered \in [Parties -> [1 .. MaxSent -> Nat]]
    /\ clock \in Nat
    /\ budget \in [Parties -> [Moves -> Nat]]
    /\ out \in [op : Handlers, err : Errors]

-----------------------------------------------------------------------------
\* The sessions a record holds, the current one and the archived ones.
LiveStates(r) ==
    (IF r.current = Nil THEN {} ELSE {r.current})
        \cup {r.previous[i] : i \in 1 .. Len(r.previous)}

Live(p) == LiveStates(record[p])

\* A party initiated the sessions that have a base key of its own.
Initiated(p, st) == st.base[2] = p

\* A receiver chain still holds the message key g: it is cached, or it lies
\* ahead on the chain.
ChainHolds(c, g) ==
    /\ c.ck.root = g.root
    /\ c.ck.n <= g.n \/ \E j \in 1 .. Len(c.keys) : c.keys[j] = g

\* A session state can still compute g as receiver: a chain holds it, or its
\* chain lies ahead of the root key.
CanDerive(st, g) ==
    /\ st.root.hs = g.root.hs
    /\ \/ Len(st.root.dh) < Len(g.root.dh)
       \/ \E i \in 1 .. Len(st.recv) : ChainHolds(st.recv[i], g)

\* No plaintext is returned to the application twice, whatever the network
\* replays, whichever sessions were archived, promoted or evicted in between,
\* and wherever a store write failed (Decrypt, DecryptPreKey).
AtMostOnce == \A p \in Parties : \A k \in 1 .. MaxSent : delivered[p][k] <= 1

\* Once a message was decrypted, no session its receiver holds, current or
\* archived, can compute its key again: chains move past it, the cache entry
\* is taken, the root key advances (getOrCreateMessageKeys, TakeMessageKeys).
ForwardSecrecy ==
    \A m \in net : delivered[m.to][m.num] > 0 =>
        \A st \in Live(m.to) : ~CanDerive(st, m.mac.gen)

\* Two messages never use the same Double Ratchet key or the same SPQR key,
\* also when sessions are archived and resumed or Encrypt failed half-way.
NoKeyReuse ==
    \A m1, m2 \in net : m1 # m2 => /\ m1.mac.gen # m2.mac.gen
                                   /\ m1.mac.pq # m2.mac.pq

\* Where both parties hold the session of one base key they derived the same
\* handshake secret, and their root keys are one Diffie-Hellman step apart.
RatchetsInStep ==
    \A a \in Live(Alice), b \in Live(Bob) : a.base = b.base =>
        LET s == a.root.dh
            t == b.root.dh
        IN  /\ a.root.hs = b.root.hs
            /\ \/ Len(t) = Len(s) + 1 /\ SubSeq(t, 1, Len(s)) = s
               \/ Len(s) = Len(t) + 1 /\ SubSeq(s, 1, Len(t)) = t

\* A record never holds two sessions of one base key: a pre-key message resumes
\* the session it belongs to instead of building another one.
DistinctBases(r) ==
    /\ \A i, j \in 1 .. Len(r.previous) :
          r.previous[i].base = r.previous[j].base => i = j
    /\ r.current # Nil =>
          \A i \in 1 .. Len(r.previous) : r.previous[i].base # r.current.base

OneSessionPerBaseKey == \A p \in Parties : DistinctBases(record[p])

\* A session a party accepted has used up its pre-keys: its base key is in the
\* Kyber store's list and its one-time pre-key is gone, wherever the commit of
\* DecryptPreKey stopped.
AcceptedKeysSpent ==
    \A p \in Parties : \A st \in Live(p) : ~Initiated(p, st) =>
        /\ st.base \in baseKeysSeen[p]
        /\ \A id \in preKeys[p] : PreKey(p, id) \notin st.root.hs.dh4

\* An initiator stops sending pre-key messages only after this installation of
\* the peer accepted the handshake.
AcknowledgedByPeer ==
    \A p \in Parties :
        LET st == record[p].current
        IN  (st # Nil /\ Initiated(p, st) /\ st.pending = Nil
                      /\ st.remote = IdentityKey(Peer(p)))
                => st.base \in baseKeysSeen[Peer(p)]

WithinCaps(st) ==
    /\ Len(st.recv) <= MaxReceiverChains
    /\ \A i \in 1 .. Len(st.recv) : Len(st.recv[i].keys) <= MaxMessageKeys

RecordWithinCaps(r) ==
    /\ Len(r.previous) <= ArchivedStatesMaxLength
    /\ \A i \in 1 .. Len(r.previous) : r.previous[i].pending = Nil
    /\ \A st \in LiveStates(r) : WithinCaps(st)

\* The caps of session/state.go and session/record.go hold, and an archived
\* session carries no pending pre-key message.
RecordBounded == \A p \in Parties : RecordWithinCaps(record[p])

\* What Decrypt or DecryptPreKey would answer to m now.
Answer(m) ==
    IF m.pre = Nil THEN DecryptResult(m.to, m).err ELSE PreKeyResult(m.to, m).err

\* Below the caps, a message of the receiver's current session that was not
\* delivered yet is accepted, in whatever order the others arrived.
CurrentSessionAccepts ==
    \A m \in net :
        LET st == record[m.to].current
        IN  (st # Nil /\ st.root.hs = m.mac.gen.root.hs /\ delivered[m.to][m.num] = 0)
                => Answer(m) = "ok"

\* While no store write fails, the identity of the current session is the
\* recorded one.
CurrentIdentityKnown ==
    \A p \in Parties :
        (record[p].current # Nil /\ known[p] # Nil) => record[p].current.remote = known[p]

\* A recorded identity is never replaced by another one; only Reset and a new
\* installation clear it.
TrustOnFirstUse ==
    [][\A p \in Parties : known[p] # Nil => known'[p] \in {Nil, known[p]}]_vars

\* A message that Decrypt or DecryptPreKey rejects leaves every store as it
\* was, also when LoadSession returns the stored object itself.  A write that
\* fails and the replay that the Kyber store reports come later, in the commit,
\* and are excepted (RejectedReplayChangesNothing is about the latter).
RejectionChangesNothing ==
    [][(/\ out'.op \in {"Decrypt", "DecryptPreKey"}
        /\ out'.err \notin {"ok", "store", "ErrReusedBaseKey"}) => UNCHANGED stores]_vars

\* Encrypt, Decrypt and DecryptPreKey implement a secure channel: what happens to
\* records, pre-keys and identities in between, every failed call included, is
\* nothing the two applications see.
Channel == INSTANCE SecureChannel
               WITH Parties <- Parties, MaxSent <- MaxSent,
                    sent <- sent, delivered <- delivered
ImplementsChannel == Channel!Spec

-----------------------------------------------------------------------------
(***************************************************************************)
(* The inductive invariant behind AtMostOnce and ForwardSecrecy.           *)
(***************************************************************************)
\* A chain holds keys it has moved past, newest first.
WellFormedChain(c) ==
    /\ \A i \in 1 .. Len(c.keys) : c.keys[i].root = c.ck.root /\ c.keys[i].n < c.ck.n
    /\ \A i, j \in 1 .. Len(c.keys) : i < j => c.keys[j].n < c.keys[i].n

\* The receiver chains descend from ever longer root keys, none longer than the
\* current one.
WellFormed(st) ==
    /\ \A i \in 1 .. Len(st.recv) :
          /\ WellFormedChain(st.recv[i])
          /\ st.recv[i].ck.root.hs = st.root.hs
          /\ Len(st.recv[i].ck.root.dh) <= Len(st.root.dh)
    /\ \A i, j \in 1 .. Len(st.recv) :
          i < j => Len(st.recv[i].ck.root.dh) < Len(st.recv[j].ck.root.dh)

\* The base key and the recipient's Kyber key of a handshake secret.
BaseOf(hs)  == hs.ss.ct.by
KyberOf(hs) == hs.ss.key

Generated(p, key) == \E n \in 0 .. fresh[p] - 1 : key = KeyPair(p, n)
PeersKey(p, key)  == key[2] = Peer(p)

\* Where a session of p comes from: p initiated it with a key it generated, or
\* this installation of p accepted it and the Kyber store remembers that.
Accounted(p, st) ==
    \/ Generated(p, st.base)
    \/ /\ PeersKey(p, st.base)
       /\ st.base \in baseKeysSeen[p]
       /\ KyberOf(st.root.hs) = KyberPreKey(p)

SoundState(p, st) ==
    /\ WellFormed(st)
    /\ BaseOf(st.root.hs) = st.base
    /\ Accounted(p, st)
    /\ st.pending # Nil => st.pending.ct.by = st.base /\ Generated(p, st.base)

\* No session p can still create has the handshake secret hs.
Exhausted(p, hs) ==
    \/ Generated(p, BaseOf(hs))
    \/ BaseOf(hs) \in baseKeysSeen[p] /\ KyberOf(hs) = KyberPreKey(p)
    \/ \E i \in 0 .. installation[p] - 1 : KyberOf(hs) = <<"kyber", p, i, 0>>

SoundMessage(m) ==
    /\ m.num <= sent[Peer(m.to)]
    /\ m.pre # Nil => m.pre.ct.by = m.pre.base /\ PeersKey(m.to, m.pre.base)

\* What Decrypt and DecryptPreKey leave behind: no plaintext was returned twice,
\* the key of a returned message is in no session and no session to come can
\* have its handshake, and a record has one session per base key, each sound and
\* accounted for.
SessionInv ==
    /\ \A p \in Parties : \A st \in Live(p) : SoundState(p, st)
    /\ OneSessionPerBaseKey
    /\ \A m \in net : SoundMessage(m)
    /\ \A m1, m2 \in net : m1.to = m2.to /\ m1.num = m2.num => m1 = m2
    /\ \A p \in Parties : \A k \in 1 .. MaxSent : delivered[p][k] > 0 => k <= sent[Peer(p)]
    /\ ForwardSecrecy
    /\ \A m \in net : delivered[m.to][m.num] > 0 => Exhausted(m.to, m.mac.gen.root.hs)
    /\ AtMostOnce

-----------------------------------------------------------------------------
(***************************************************************************)
(* The inductive invariant behind NoKeyReuse.                              *)
(***************************************************************************)
\* The end of a session that p holds, the initiator's or the recipient's, shows
\* in its SPQR direction and in the parity of its Diffie-Hellman steps.
EndDirection(p, base) == IF base[2] = p THEN "A2B" ELSE "B2A"
EndParity(p, base)    == IF base[2] = p THEN 1 ELSE 0

\* The sender chain is the one of the root key.
SendingEnd(p, st) ==
    /\ st.ck.root = st.root
    /\ st.pq.dir = EndDirection(p, st.base)
    /\ Len(st.root.dh) % 2 = EndParity(p, st.base)

\* Both keys of m lie behind the ones the session st uses next.
SentBefore(m, st) ==
    /\ m.mac.pq.pos <= st.pq.send.ctr
    /\ \/ Len(m.mac.gen.root.dh) < Len(st.root.dh)
       \/ Len(m.mac.gen.root.dh) = Len(st.root.dh) /\ m.mac.gen.n < st.ck.n

\* m was sent by p, on a session that p still holds or cannot create again.
SentFrom(p, m) ==
    LET hs == m.mac.gen.root.hs
    IN  /\ m.mac.pq.hs = hs
        /\ m.mac.pq.dir = EndDirection(p, BaseOf(hs))
        /\ Len(m.mac.gen.root.dh) % 2 = EndParity(p, BaseOf(hs))
        /\ Exhausted(p, hs)
        /\ \A st \in Live(p) : st.root.hs = hs => SentBefore(m, st)

\* What Encrypt leaves behind: no key was used twice, and every message lies
\* behind the sending chain and the SPQR counter of whatever session its sender
\* could go on with.
SendingInv ==
    /\ \A p \in Parties : \A st \in Live(p) : SendingEnd(p, st)
    /\ \A m \in net : SentFrom(Peer(m.to), m)
    /\ NoKeyReuse

-----------------------------------------------------------------------------
(***************************************************************************)
(* The inductive invariant behind RatchetsInStep and AcknowledgedByPeer.   *)
(***************************************************************************)
\* The Diffie-Hellman outputs t go on from s, and by one output only.
Extends(t, s)   == Len(s) <= Len(t) /\ \A i \in 1 .. Len(s) : t[i] = s[i]
OneFurther(t, s) == Extends(t, s) /\ Len(t) = Len(s) + 1

\* The handshake secrets of the messages sent and of the sessions held.
Secrets == {m.mac.gen.root.hs : m \in net}
               \cup UNION {{st.root.hs : st \in Live(p)} : p \in Parties}

\* A base key is generated for one handshake.
OneSecretPerBaseKey ==
    /\ \A hs \in Secrets : \E p \in Parties : Generated(p, BaseOf(hs))
    /\ \A hs1, hs2 \in Secrets : BaseOf(hs1) = BaseOf(hs2) => hs1 = hs2

\* Messages carry a root key that the sender's session has come past.
RootsSent ==
    \A m \in net : \A st \in Live(Peer(m.to)) :
        st.root.hs = m.mac.gen.root.hs => Extends(st.root.dh, m.mac.gen.root.dh)

\* Two ends of one handshake are one Diffie-Hellman step apart.
EndsInStep ==
    \A a \in Live(Alice), b \in Live(Bob) : a.root.hs = b.root.hs =>
        OneFurther(a.root.dh, b.root.dh) \/ OneFurther(b.root.dh, a.root.dh)

\* The peer of an initiator has accepted the handshake, or its installation is
\* gone, when the root key moved on and when no pre-key message is pending.
Answered(p, st) == Exhausted(Peer(p), st.root.hs)

InitiatorsAnswered ==
    \A p \in Parties :
        /\ \A st \in Live(p) : Initiated(p, st) => Len(st.root.dh) = 1 \/ Answered(p, st)
        /\ LET st == record[p].current
           IN  st # Nil /\ Initiated(p, st) /\ st.pending = Nil => Answered(p, st)

\* The identity and the Kyber key of an initiator's session are those of one
\* installation of the peer.
OfInstallation(p, st, i) ==
    /\ st.remote = <<"identity", Peer(p), i, 0>>
    /\ KyberOf(st.root.hs) = <<"kyber", Peer(p), i, 0>>

BundlesWhole ==
    \A p \in Parties : \A st \in Live(p) :
        Initiated(p, st) => \E i \in Nat : OfInstallation(p, st, i)

\* What the DH ratchet leaves behind: a base key names one handshake, the roots
\* of its two ends are one step apart and ahead of the messages, and no end
\* moved on before the other had the handshake.
RatchetInv ==
    /\ OneSecretPerBaseKey
    /\ RootsSent
    /\ EndsInStep
    /\ InitiatorsAnswered
    /\ BundlesWhole

-----------------------------------------------------------------------------
\* With one session, every plaintext that Encrypt accepted is returned by the
\* peer in the end, however late and out of order its message comes.
EventuallyDelivered ==
    \A p \in Parties : \A k \in 1 .. MaxSent :
        sent[p] >= k ~> delivered[Peer(p)][k] > 0

\* The initiator's pending pre-key message is acknowledged in the end.
HandshakeCompletes ==
    \A p \in Parties :
        (record[p].current # Nil /\ record[p].current.pending # Nil)
            ~> (record[p].current # Nil /\ record[p].current.pending = Nil)

-----------------------------------------------------------------------------
\* README.md on DecryptPreKey: "rejected messages leave all stores unchanged".
\* A replay that MarkKyberPreKeyUsed rejects is such a message.
RejectedReplayChangesNothing ==
    [][out'.err = "ErrReusedBaseKey" => UNCHANGED stores]_vars

=============================================================================
