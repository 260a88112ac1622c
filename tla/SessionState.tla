---------------------------- MODULE SessionState ----------------------------
(***************************************************************************)
(* The Double Ratchet state of one session and the operations on it:       *)
(* session/state.go, the key schedule of ratchet/keys.go, the PQXDH        *)
(* agreements of session/builder.go and decryptWithState of                *)
(* session/cipher.go.                                                      *)
(*                                                                         *)
(* Keys are symbolic and the key derivations injective.  A key pair is     *)
(* <<kind, owner, installation, number>>; a Diffie-Hellman output is the   *)
(* set of the two keys; a root key is the handshake secret with the        *)
(* sequence of Diffie-Hellman outputs mixed into it; a chain key is the    *)
(* root it came from with the number of steps taken since; the message     *)
(* key generator of a chain step is that chain key.  A MAC verifies when   *)
(* sender and receiver derived the same keys and name the same identities. *)
(*                                                                         *)
(* A session to one's own identity (unlimited SPQR jump) is not modelled.  *)
(***************************************************************************)
EXTENDS KeyHistory, Sequences

CONSTANTS
    Nil,                  \* the Go nil of an optional field
    MaxForwardJumps,      \* 25000 in the code
    MaxMessageKeys,       \* 2000
    MaxReceiverChains     \* 5

ASSUME BoundsAssumption ==
    /\ MaxForwardJumps \in Nat
    /\ MaxMessageKeys \in Nat \ {0}
    /\ MaxReceiverChains \in Nat \ {0}

-----------------------------------------------------------------------------
\* ratchet/keys.go

DH(a, b) == {a, b}

\* DeriveInitialKeys: the PQXDH secret seeds the root key, the first chain key
\* and the SPQR state, all three named by it.
DeriveInitialKeys(dh1, dh2, dh3, dh4, ss) ==
    [hs |-> [dh1 |-> dh1, dh2 |-> dh2, dh3 |-> dh3, dh4 |-> dh4, ss |-> ss], dh |-> <<>>]

NewChainKey(root) == [root |-> root, n |-> 0]
Index(ck)         == Wire(ck.n)

\* k steps of ChainKey.Next.
Advance(ck, k) == [root |-> ck.root, n |-> ck.n + k]

NextChainKey(ck) == Advance(ck, 1)

CreateChain(root, theirs, ours) == [root EXCEPT !.dh = Append(@, DH(theirs, ours))]

\* kem: decapsulation with another key than the one encapsulated to yields an
\* unrelated secret (implicit rejection), never an error.
Encapsulate(kyber, base)    == [to |-> kyber, by |-> base]
Decapsulate(kyber, ct)      == [key |-> kyber, ct |-> ct]

-----------------------------------------------------------------------------
\* The SPQR half of the ratchet, as a session sees it: the key chain of the
\* first epoch.  (The KEM exchange that opens the next epoch is far longer than
\* the message bounds of the runs; spqr/v1.go is a component of its own.)

ChainParams == [maxJump |-> MaxForwardJumps, maxOOO |-> MaxMessageKeys]

pqrInitialState(dir) ==
    [dir |-> dir, send |-> newChainEpochDirection, recv |-> newChainEpochDirection]

switchDirection(dir) == IF dir = "A2B" THEN "B2A" ELSE "A2B"

PQKey(st, dir, pos) == [hs |-> st.root.hs, dir |-> dir, pos |-> pos]

\* Mutant: sending counts as the acknowledgement.
PQRatchetSendAcknowledges(st) ==
    [st EXCEPT !.pq = [@ EXCEPT !.send = DirectionNextKey(st.pq.send)], !.pending = Nil]

PQRatchetSend(st) == [st EXCEPT !.pq = [@ EXCEPT !.send = DirectionNextKey(st.pq.send)]]

\* recvKey answers (epoch 0, index 0) with the empty key and no state change.
PQRatchetRecv(st, index) ==
    IF index = 0
    THEN [err |-> "ok", key |-> PQKey(st, "none", 0), st |-> st]
    ELSE LET k == DirectionKey(st.pq.recv, index, ChainParams)
         IN  [err |-> k.err,
              key |-> PQKey(st, switchDirection(st.pq.dir), k.pos),
              st  |-> [st EXCEPT !.pq = [@ EXCEPT !.recv = k.d]]]

-----------------------------------------------------------------------------
\* session/state.go

\* Mutant: the pending pre-key message is never cleared.
KeepUnacknowledgedPreKeyMessage(st) == st

ClearUnacknowledgedPreKeyMessage(st) == [st EXCEPT !.pending = Nil]

AddReceiverChain(chains, ratchet, ck) ==
    LET grown == Append(chains, [ratchet |-> ratchet, ck |-> ck, keys |-> <<>>])
    IN  IF Len(grown) > MaxReceiverChains THEN Tail(grown) ELSE grown

\* The first chain of a ratchet key; 0 when there is none.
receiverChainIndex(st, ratchet) ==
    LET found == {i \in 1 .. Len(st.recv) : st.recv[i].ratchet = ratchet}
    IN  IF found = {} THEN 0 ELSE CHOOSE i \in found : \A j \in found : i <= j

\* Mutant: the first skipped key is not cached.
CacheMessageKeysShort(keys, ck, k) ==
    LET all == [i \in 1 .. k - 1 |-> Advance(ck, k - i)] \o keys
    IN  SubSeq(all, 1, IF Len(all) > MaxMessageKeys THEN MaxMessageKeys ELSE Len(all))

\* CacheMessageKeys, once per chain step from n up to n + k - 1: each key goes
\* to the front and the tail beyond MaxMessageKeys is dropped.
CacheMessageKeys(keys, ck, k) ==
    LET all == [i \in 1 .. k |-> Advance(ck, k - i)] \o keys
    IN  SubSeq(all, 1, IF Len(all) > MaxMessageKeys THEN MaxMessageKeys ELSE Len(all))

\* The first cached entry of an index; 0 when there is none.
CachedAt(keys, counter) ==
    LET found == {i \in 1 .. Len(keys) : Index(keys[i]) = counter}
    IN  IF found = {} THEN 0 ELSE CHOOSE i \in found : \A j \in found : i <= j

Without(s, i) == SubSeq(s, 1, i - 1) \o SubSeq(s, i + 1, Len(s))

TakeMessageKeys(keys, i) == Without(keys, i)

-----------------------------------------------------------------------------
\* session/builder.go

\* The initiator's half of the PQXDH agreement.  b is the recipient's bundle,
\* b.oneTime being Nil when it carries no one-time pre-key.
initializeAliceSession(identity, base, ratchet, b) ==
    LET ct      == Encapsulate(b.kyber, base)
        initial == DeriveInitialKeys(DH(identity, b.signed), DH(base, b.identity),
                                     DH(base, b.signed),
                                     IF b.oneTime = Nil THEN {} ELSE DH(base, b.oneTime),
                                     Decapsulate(b.kyber, ct))
        root    == CreateChain(initial, b.signed, ratchet)
    IN  [base |-> base, local |-> identity, remote |-> b.identity,
         root |-> root, ratchet |-> ratchet, ck |-> NewChainKey(root),
         previousCounter |-> 0,
         recv |-> AddReceiverChain(<<>>, b.signed, NewChainKey(initial)),
         pq |-> pqrInitialState("A2B"),
         pending |-> Nil]

\* The recipient's half.  Its sending chain starts on the PQXDH chain key under
\* its own signed pre-key, and it has no receiver chain yet.
InitializeBobSession(identity, signed, oneTime, kyber, pre) ==
    LET initial == DeriveInitialKeys(DH(signed, pre.identity), DH(identity, pre.base),
                                     DH(signed, pre.base),
                                     IF oneTime = Nil THEN {} ELSE DH(oneTime, pre.base),
                                     Decapsulate(kyber, pre.ct))
    IN  [base |-> pre.base, local |-> identity, remote |-> pre.identity,
         root |-> initial, ratchet |-> signed, ck |-> NewChainKey(initial),
         previousCounter |-> 0,
         recv |-> <<>>,
         pq |-> pqrInitialState("B2A"),
         pending |-> Nil]

\* SetUnacknowledgedPreKeyMessage with SetKyberCiphertext and
\* SetUnacknowledgedKyberPreKeyID: the handshake the initiator repeats until
\* the first reply.  id is Nil when no one-time pre-key was used.
SetUnacknowledgedPreKeyMessage(st, id, ct, now) ==
    [st EXCEPT !.pending = [id |-> id, ct |-> ct, at |-> now]]

-----------------------------------------------------------------------------
\* session/cipher.go

\* Mutant: the guard against underflow is missing.
PreviousCounterUnguarded(sent) == sent - 1

PreviousCounter(sent) == IF sent > 0 THEN sent - 1 ELSE 0

\* Mutant: the root key keeps the receiving half of the step only.
getOrCreateChainKeyHalf(st, theirs, ourNew) ==
    LET receiverRoot == CreateChain(st.root, theirs, st.ratchet)
    IN  IF receiverChainIndex(st, theirs) # 0
        THEN st
        ELSE [st EXCEPT
                !.root    = receiverRoot,
                !.recv    = AddReceiverChain(@, theirs, NewChainKey(receiverRoot)),
                !.ratchet = ourNew,
                !.ck      = NewChainKey(CreateChain(receiverRoot, theirs, ourNew))]

\* The DH ratchet step for an unseen ratchet key; ourNew is the key pair that
\* GenerateKeyPair returns.
getOrCreateChainKey(st, theirs, ourNew) ==
    LET receiverRoot == CreateChain(st.root, theirs, st.ratchet)
        senderRoot   == CreateChain(receiverRoot, theirs, ourNew)
    IN  IF receiverChainIndex(st, theirs) # 0
        THEN st
        ELSE [st EXCEPT
                !.root            = senderRoot,
                !.recv            = AddReceiverChain(@, theirs, NewChainKey(receiverRoot)),
                !.previousCounter = PreviousCounter(Index(st.ck)),
                !.ratchet         = ourNew,
                !.ck              = NewChainKey(senderRoot)]

\* The key of "counter" on receiver chain c, and the chain afterwards.
getOrCreateMessageKeys(c, counter) ==
    LET at   == CachedAt(c.keys, counter)
        jump == counter - Index(c.ck)
    IN  CASE jump < 0 /\ at = 0 ->
                 [err |-> "ErrDuplicateMessage", gen |-> c.ck, chain |-> c]
          [] jump < 0 /\ at # 0 ->
                 [err |-> "ok", gen |-> c.keys[at],
                  chain |-> [ratchet |-> c.ratchet, ck |-> c.ck,
                             keys |-> TakeMessageKeys(c.keys, at)]]
          [] jump > MaxForwardJumps ->
                 [err |-> "ErrInvalidMessage", gen |-> c.ck, chain |-> c]
          [] OTHER ->
                 [err |-> "ok", gen |-> Advance(c.ck, jump),
                  chain |-> [ratchet |-> c.ratchet, ck |-> Advance(c.ck, jump + 1),
                             keys |-> CacheMessageKeys(c.keys, c.ck, jump)]]

\* What the MAC of a message binds: the Double Ratchet key, the SPQR key and
\* the two identities.
MacOf(gen, pq, sender, receiver) ==
    [gen |-> gen, pq |-> pq, sender |-> sender, receiver |-> receiver]

\* decryptWithState: the error and the state the clone is left in.  The callers
\* discard that state on every error.
decryptWithState(st, m, ourNew) ==
    LET st1 == getOrCreateChainKey(st, m.ratchet, ourNew)
        i   == receiverChainIndex(st1, m.ratchet)
        mk  == getOrCreateMessageKeys(st1.recv[i], m.counter)
        st2 == [st1 EXCEPT !.recv = [@ EXCEPT ![i] = mk.chain]]
        pq  == PQRatchetRecv(st2, m.pqIndex)
        mac == MacOf(mk.gen, pq.key, st.remote, st.local)
        err == CASE mk.err # "ok" -> mk.err
                 [] mk.err = "ok" /\ pq.err # "ok" -> pq.err
                 [] mk.err = "ok" /\ pq.err = "ok" /\ mac # m.mac -> "ErrInvalidMessage"
                 [] OTHER -> "ok"
    IN  [err |-> err, st |-> ClearUnacknowledgedPreKeyMessage(pq.st)]

=============================================================================
