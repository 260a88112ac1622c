------------------------------- MODULE Session -------------------------------
(***************************************************************************)
(* Two parties that run the session package against each other over a     *)
(* network that loses, duplicates and reorders: ProcessPreKeyBundle,       *)
(* Encrypt, Decrypt and DecryptPreKey with the stores they write.          *)
(*                                                                         *)
(* Each handler is one atomic action: the hosts must serialize operations  *)
(* per peer (README.md, session/prekey_decrypt.go).  A handler writes      *)
(* several stores, and each write may fail or the process may stop there,  *)
(* leaving the earlier writes in place.                                    *)
(*                                                                         *)
(* A message stays in net for ever and may be received at any time, any    *)
(* number of times or never.                                               *)
(***************************************************************************)
EXTENDS SessionRecord

CONSTANTS
    Alice, Bob,
    PreKeyIDs,                     \* one-time pre-keys each installation publishes
    MaxUnacknowledgedSessionAge,   \* 30 days in the code
    StoreAliases,                  \* the parties whose LoadSession returns the stored object itself
    MaxSent,                       \* bound: plaintexts a party sends
    MaxSendKeys,                   \* bound: SPQR send keys drawn in a session
    MaxClock,                      \* bound: the clock
    Budgets                        \* bound: how often a party makes each of Moves, in each scenario

Parties == {Alice, Bob}
Peer(p) == IF p = Alice THEN Bob ELSE Alice

\* What a party does only finitely often: start a session, archive one on the
\* host's request, meet a failing store write, forget the known identities,
\* reinstall.
Moves == {"init", "archive", "fault", "reset", "reinstall"}

ASSUME SessionAssumption ==
    /\ Alice # Bob
    /\ PreKeyIDs \subseteq Nat
    /\ StoreAliases \subseteq Parties
    /\ MaxSent \in Nat
    /\ MaxUnacknowledgedSessionAge \in Nat
    /\ Budgets \subseteq [Parties -> [Moves -> Nat]]

\* Nil stands for the absent pre-key id of a message or a bundle.
ASSUME NilAssumption == Nil \notin PreKeyIDs

VARIABLES
    record,         \* SessionStore: the record for the peer
    known,          \* IdentityKeyStore.knownKeys for the peer, or Nil
    preKeys,        \* PreKeyStore: ids still held
    baseKeysSeen,   \* KyberPreKeyStore.baseKeysSeen of the one (kyber, ec) pair
    installation,   \* which installation of the party this is
    issued,         \* one-time pre-key ids the server has handed out
    fresh,          \* the next number GenerateKeyPair uses
    net,            \* every message ever sent
    sent,           \* plaintexts sent so far
    delivered,      \* how often each plaintext of the peer was returned
    clock,          \* days
    budget,         \* what is left of the scenario's budget
    out             \* the handler that ran last and its error

stores == <<record, known, preKeys, baseKeysSeen>>
vars   == <<stores, installation, issued, fresh, net, sent, delivered, clock,
            budget, out>>

-----------------------------------------------------------------------------
\* Keys

IdentityKey(p)    == <<"identity", p, installation[p], 0>>
SignedPreKey(p)   == <<"signed", p, installation[p], 0>>
KyberPreKey(p)    == <<"kyber", p, installation[p], 0>>
PreKey(p, id)     == IF id = Nil THEN Nil ELSE <<"onetime", p, installation[p], id>>
KeyPair(p, n)     == <<"ephemeral", p, 0, n>>

\* session/bundle.go; the server hands out a one-time pre-key once and keeps
\* offering bundles when it has none left.
Bundle(q, id) ==
    [identity |-> IdentityKey(q), signed |-> SignedPreKey(q),
     kyber |-> KyberPreKey(q), oneTime |-> PreKey(q, id)]

-----------------------------------------------------------------------------
Init ==
    /\ record       = [p \in Parties |-> NewFreshSessionRecord]
    /\ known        = [p \in Parties |-> Nil]
    /\ preKeys      = [p \in Parties |-> PreKeyIDs]
    /\ baseKeysSeen = [p \in Parties |-> {}]
    /\ installation = [p \in Parties |-> 0]
    /\ issued       = [p \in Parties |-> {}]
    /\ fresh        = [p \in Parties |-> 0]
    /\ net          = {}
    /\ sent         = [p \in Parties |-> 0]
    /\ delivered    = [p \in Parties |-> [k \in 1 .. MaxSent |-> 0]]
    /\ clock        = 0
    /\ budget       \in Budgets
    /\ out          = [op |-> "none", err |-> "ok"]

Spend(p, moves) ==
    /\ \A m \in moves : budget[p][m] > 0
    /\ budget' = [budget EXCEPT ![p] =
                    [m \in Moves |-> IF m \in moves THEN @[m] - 1 ELSE @[m]]]

Return(op, err) == out' = [op |-> op, err |-> err]

\* The writes of a handler, in the order every handler makes them.  "last" is
\* the last one that takes effect: Stored when none fails.
Nothing == 0
Saved   == 1       \* SaveIdentity
Marked  == 2       \* MarkKyberPreKeyUsed
Removed == 3       \* RemovePreKey
Stored  == 4       \* StoreSession

\* The handler returns its result when every write took effect; and a mutant
\* that returns it although StoreSession failed.
CompletedEarly(last) == last >= Removed
Completed(last)      == last = Stored

Faults(last) == IF last = Stored THEN {} ELSE {"fault"}

\* The record left when the handler changed the loaded record to r and then
\* failed.
Mutated(p, r) ==
    IF p \in StoreAliases /\ record[p] # NewFreshSessionRecord THEN r ELSE record[p]

\* stores/inmem, with a mutant each: every identity is trusted, a replayed base
\* key is not noticed, the one-time pre-key stays.
IsTrustedAlways(p, identity) == TRUE
IsTrustedIdentity(p, identity) == known[p] \in {Nil, identity}

BaseKeyNeverReused(p, base) == FALSE
BaseKeyReused(p, base) == base \in baseKeysSeen[p]

RemovePreKeyForgotten(ids, id) == ids
RemovePreKey(ids, id) == ids \ {id}

-----------------------------------------------------------------------------
(***************************************************************************)
(* ProcessPreKeyBundle: the initiator's side of session establishment.     *)
(***************************************************************************)
ProcessRejected(p, id) ==
    /\ ~IsTrustedIdentity(p, IdentityKey(Peer(p)))
    /\ Spend(p, {"init"})
    /\ issued' = [issued EXCEPT ![Peer(p)] = @ \cup ({id} \ {Nil})]
    /\ Return("ProcessPreKeyBundle", "ErrUntrustedIdentity")
    /\ UNCHANGED <<stores, installation, fresh, net, sent, delivered, clock>>

ProcessAccepted(p, id, last) ==
    LET b    == Bundle(Peer(p), id)
        base == KeyPair(p, fresh[p])
        st   == SetUnacknowledgedPreKeyMessage(
                    initializeAliceSession(IdentityKey(p), base, KeyPair(p, fresh[p] + 1), b),
                    id, Encapsulate(b.kyber, base), clock)
        r    == PromoteState(record[p], st)
    IN  /\ IsTrustedIdentity(p, b.identity)
        /\ Spend(p, {"init"} \cup Faults(last))
        /\ issued' = [issued EXCEPT ![Peer(p)] = @ \cup ({id} \ {Nil})]
        /\ fresh' = [fresh EXCEPT ![p] = @ + 2]
        /\ known' = [known EXCEPT ![p] = IF last >= Saved THEN b.identity ELSE @]
        /\ record' = [record EXCEPT ![p] = CASE last = Stored -> r
                                             [] last = Removed -> Mutated(p, r)
                                             [] OTHER -> @]
        /\ Return("ProcessPreKeyBundle", IF last = Stored THEN "ok" ELSE "store")
        /\ UNCHANGED <<preKeys, baseKeysSeen, installation, net, sent, delivered, clock>>

ProcessPreKeyBundle(p) ==
    \E id \in (PreKeyIDs \ issued[Peer(p)]) \cup {Nil} :
        \/ ProcessRejected(p, id)
        \/ \E last \in {Nothing, Removed, Stored} : ProcessAccepted(p, id, last)

-----------------------------------------------------------------------------
(***************************************************************************)
(* Encrypt.  PQRatchetSend has changed the loaded state before the checks  *)
(* on staleness and trust.                                                 *)
(***************************************************************************)
isStaleUnacked(st) ==
    st.pending # Nil /\ st.pending.at + MaxUnacknowledgedSessionAge < clock

MessageOf(p, st) ==
    [to |-> Peer(p), num |-> sent[p] + 1,
     ratchet |-> st.ratchet, counter |-> Index(st.ck),
     previousCounter |-> st.previousCounter,
     pqIndex |-> Wire(st.pq.send.ctr + 1),
     mac |-> MacOf(st.ck, PQKey(st, st.pq.dir, st.pq.send.ctr + 1), st.local, st.remote),
     pre |-> IF st.pending = Nil THEN Nil
             ELSE [id |-> st.pending.id, base |-> st.base, identity |-> st.local,
                   ct |-> st.pending.ct]]

EncryptNoSession(p) ==
    /\ record[p].current = Nil
    /\ Return("Encrypt", "ErrSessionNotFound")
    /\ UNCHANGED <<stores, installation, issued, fresh, net, sent, delivered, clock, budget>>

EncryptRejected(p) ==
    LET st == record[p].current
    IN  /\ st # Nil
        /\ st.pq.send.ctr < MaxSendKeys
        /\ isStaleUnacked(st) \/ ~IsTrustedIdentity(p, st.remote)
        /\ record' = [record EXCEPT ![p] =
                        Mutated(p, SetCurrentState(@, PQRatchetSend(st)))]
        /\ Return("Encrypt", IF isStaleUnacked(st) THEN "ErrSessionNotFound"
                                                   ELSE "ErrUntrustedIdentity")
        /\ UNCHANGED <<known, preKeys, baseKeysSeen, installation, issued, fresh, net,
                       sent, delivered, clock, budget>>

EncryptAccepted(p, last) ==
    LET st   == record[p].current
        half == SetCurrentState(record[p], PQRatchetSend(st))
        full == SetCurrentState(half, [half.current EXCEPT !.ck = NextChainKey(@)])
    IN  /\ st # Nil
        /\ st.pq.send.ctr < MaxSendKeys
        /\ sent[p] < MaxSent
        /\ ~isStaleUnacked(st)
        /\ IsTrustedIdentity(p, st.remote)
        /\ Spend(p, Faults(last))
        /\ known' = [known EXCEPT ![p] = IF last >= Saved THEN st.remote ELSE @]
        /\ record' = [record EXCEPT ![p] = CASE last = Stored  -> full
                                             [] last = Removed -> Mutated(p, full)
                                             [] OTHER          -> Mutated(p, half)]
        /\ net' = IF Completed(last) THEN net \cup {MessageOf(p, st)} ELSE net
        /\ sent' = IF Completed(last) THEN [sent EXCEPT ![p] = @ + 1] ELSE sent
        /\ Return("Encrypt", IF last = Stored THEN "ok" ELSE "store")
        /\ UNCHANGED <<preKeys, baseKeysSeen, installation, issued, fresh, delivered, clock>>

Encrypt(p) ==
    \/ EncryptNoSession(p)
    \/ EncryptRejected(p)
    \/ \E last \in {Nothing, Removed, Stored} : EncryptAccepted(p, last)

-----------------------------------------------------------------------------
(***************************************************************************)
(* Decrypt: a SignalMessage, against the current session only.             *)
(***************************************************************************)
\* The key pair a DH ratchet step would generate; it is used up when one took
\* place.
NewRatchet(p) == KeyPair(p, fresh[p])
UseRatchet(p, st) == fresh' = [fresh EXCEPT ![p] = IF st.ratchet = NewRatchet(p) THEN @ + 1 ELSE @]

DecryptResult(p, m) ==
    IF record[p].current = Nil
    THEN [err |-> "ErrSessionNotFound", st |-> Nil]
    ELSE decryptWithState(record[p].current, m, NewRatchet(p))

Deliver(p, m) ==
    delivered' = [delivered EXCEPT ![p] = [@ EXCEPT ![m.num] = delivered[p][m.num] + 1]]

Decrypt(p, m) ==
    LET d == DecryptResult(p, m)
        r == SetCurrentState(record[p], d.st)
    IN  /\ m.to = p /\ m.pre = Nil
        /\ \/ /\ d.err # "ok"
              /\ Return("Decrypt", d.err)
              /\ UNCHANGED <<record, fresh, delivered, budget>>
           \/ /\ d.err = "ok"
              /\ record' = [record EXCEPT ![p] = r]
              /\ UseRatchet(p, d.st)
              /\ Deliver(p, m)
              /\ Return("Decrypt", "ok")
              /\ UNCHANGED budget
           \/ /\ d.err = "ok"
              /\ Spend(p, {"fault"})
              /\ record' = [record EXCEPT ![p] = Mutated(p, r)]
              /\ UseRatchet(p, d.st)
              /\ Return("Decrypt", "store")
              /\ UNCHANGED delivered
        /\ UNCHANGED <<known, preKeys, baseKeysSeen, installation, issued, net, sent, clock>>

-----------------------------------------------------------------------------
(***************************************************************************)
(* DecryptPreKey: establishes or resumes the session of a pre-key message  *)
(* on a copy of the record, then commits store by store.                   *)
(***************************************************************************)
\* recipientPreKeyState.  The signed and the Kyber pre-key are always held.
recipientPreKeyState(p, pre) ==
    InitializeBobSession(IdentityKey(p), SignedPreKey(p), PreKey(p, pre.id),
                         KyberPreKey(p), pre)

\* The working record, up to decryptWithState.
Working(p, m) ==
    LET found == promoteMatchingPreKeySession(record[p], m.pre.base)
    IN  CASE ~IsTrustedIdentity(p, m.pre.identity) ->
                 [err |-> "ErrUntrustedIdentity", matched |-> FALSE, r |-> record[p]]
          [] /\ IsTrustedIdentity(p, m.pre.identity)
             /\ found.matched /\ found.r.current.remote # m.pre.identity ->
                 [err |-> "ErrInvalidMessage", matched |-> TRUE, r |-> record[p]]
          [] /\ IsTrustedIdentity(p, m.pre.identity)
             /\ ~found.matched /\ m.pre.id # Nil /\ m.pre.id \notin preKeys[p] ->
                 [err |-> "ErrInvalidPreKeyID", matched |-> FALSE, r |-> record[p]]
          [] OTHER ->
                 [err |-> "ok", matched |-> found.matched,
                  r |-> IF found.matched THEN found.r
                        ELSE PromoteState(record[p], recipientPreKeyState(p, m.pre))]

PreKeyResult(p, m) ==
    LET w == Working(p, m)
        d == decryptWithState(w.r.current, m, NewRatchet(p))
    IN  IF w.err # "ok"
        THEN w
        ELSE [err |-> d.err, matched |-> w.matched, r |-> SetCurrentState(w.r, d.st)]

\* Mutant: the promotion is made on the stored record.
DecryptPreKeyRejectedInPlace(p, m) ==
    /\ PreKeyResult(p, m).err # "ok"
    /\ Return("DecryptPreKey", PreKeyResult(p, m).err)
    /\ record' = [record EXCEPT ![p] = Working(p, m).r]
    /\ UNCHANGED <<known, preKeys, baseKeysSeen, fresh, delivered, budget>>

DecryptPreKeyRejected(p, m) ==
    /\ PreKeyResult(p, m).err # "ok"
    /\ Return("DecryptPreKey", PreKeyResult(p, m).err)
    /\ UNCHANGED <<stores, fresh, delivered, budget>>

\* The message authenticates, but MarkKyberPreKeyUsed has seen its base key.
DecryptPreKeyReused(p, m) ==
    LET w == PreKeyResult(p, m)
    IN  /\ w.err = "ok" /\ ~w.matched
        /\ BaseKeyReused(p, m.pre.base)
        /\ known' = [known EXCEPT ![p] = m.pre.identity]
        /\ Return("DecryptPreKey", "ErrReusedBaseKey")
        /\ UNCHANGED <<record, preKeys, baseKeysSeen, fresh, delivered, budget>>

\* The writes that may be the last one: a resumed session makes two, and a
\* message without a one-time pre-key removes none.
LastWrites(matched, id) ==
    {Nothing, Removed, Stored}
        \cup (IF matched THEN {} ELSE {Saved})
        \cup (IF matched \/ id = Nil THEN {} ELSE {Marked})

DecryptPreKeyCommit(p, m, last) ==
    LET w == PreKeyResult(p, m)
    IN  /\ w.err = "ok"
        /\ w.matched \/ ~BaseKeyReused(p, m.pre.base)
        /\ last \in LastWrites(w.matched, m.pre.id)
        /\ Spend(p, Faults(last))
        /\ known' = [known EXCEPT ![p] = IF last >= Saved THEN m.pre.identity ELSE @]
        /\ baseKeysSeen' = [baseKeysSeen EXCEPT ![p] =
                              IF ~w.matched /\ last >= Marked THEN @ \cup {m.pre.base} ELSE @]
        /\ preKeys' = [preKeys EXCEPT ![p] =
                         IF ~w.matched /\ last >= Removed THEN RemovePreKey(@, m.pre.id) ELSE @]
        /\ record' = [record EXCEPT ![p] = IF last = Stored THEN w.r ELSE @]
        /\ UseRatchet(p, w.r.current)
        /\ IF Completed(last) THEN Deliver(p, m) ELSE UNCHANGED delivered
        /\ Return("DecryptPreKey", IF last = Stored THEN "ok" ELSE "store")

DecryptPreKey(p, m) ==
    /\ m.to = p /\ m.pre # Nil
    /\ \/ DecryptPreKeyRejected(p, m)
       \/ DecryptPreKeyReused(p, m)
       \/ \E last \in Nothing .. Stored : DecryptPreKeyCommit(p, m, last)
    /\ UNCHANGED <<installation, issued, net, sent, clock>>

-----------------------------------------------------------------------------
(***************************************************************************)
(* What the hosts do besides.                                              *)
(***************************************************************************)
\* The host archives the current session and stores the record.
ArchiveSession(p) ==
    /\ record[p].current # Nil
    /\ Spend(p, {"archive"})
    /\ record' = [record EXCEPT ![p] = ArchiveCurrentState(@)]
    /\ Return("ArchiveCurrentState", "ok")
    /\ UNCHANGED <<known, preKeys, baseKeysSeen, installation, issued, fresh, net, sent,
                   delivered, clock>>

\* IdentityKeyStore.Reset.
Reset(p) ==
    /\ known[p] # Nil
    /\ Spend(p, {"reset"})
    /\ known' = [known EXCEPT ![p] = Nil]
    /\ Return("Reset", "ok")
    /\ UNCHANGED <<record, preKeys, baseKeysSeen, installation, issued, fresh, net, sent,
                   delivered, clock>>

\* A new installation: new stores and keys, the same pre-key ids.
Reinstall(p) ==
    /\ Spend(p, {"reinstall"})
    /\ installation' = [installation EXCEPT ![p] = @ + 1]
    /\ record' = [record EXCEPT ![p] = NewFreshSessionRecord]
    /\ known' = [known EXCEPT ![p] = Nil]
    /\ preKeys' = [preKeys EXCEPT ![p] = PreKeyIDs]
    /\ baseKeysSeen' = [baseKeysSeen EXCEPT ![p] = {}]
    /\ issued' = [issued EXCEPT ![p] = {}]
    /\ Return("Reinstall", "ok")
    /\ UNCHANGED <<fresh, net, sent, delivered, clock>>

Tick ==
    /\ clock < MaxClock
    /\ clock' = clock + 1
    /\ UNCHANGED <<stores, installation, issued, fresh, net, sent, delivered, budget, out>>

Next ==
    \/ \E p \in Parties :
          \/ ProcessPreKeyBundle(p)
          \/ Encrypt(p)
          \/ \E m \in net : Decrypt(p, m) \/ DecryptPreKey(p, m)
          \/ ArchiveSession(p)
          \/ Reset(p)
          \/ Reinstall(p)
    \/ Tick

Spec == Init /\ [][Next]_vars

\* Encrypt would return a message to p, and one of the decrypting calls the
\* plaintext of a message of the peer's k-th one.
CanEncrypt(p) ==
    LET st == record[p].current
    IN  /\ st # Nil
        /\ st.pq.send.ctr < MaxSendKeys
        /\ sent[p] < MaxSent
        /\ ~isStaleUnacked(st)
        /\ IsTrustedIdentity(p, st.remote)

CanReceive(p, k) ==
    \E m \in net :
        /\ m.to = p /\ m.num = k
        /\ \/ m.pre = Nil /\ DecryptResult(p, m).err = "ok"
           \/ /\ m.pre # Nil /\ PreKeyResult(p, m).err = "ok"
              /\ PreKeyResult(p, m).matched \/ ~BaseKeyReused(p, m.pre.base)

\* An application that can send goes on sending, and a message its receiver
\* would accept is brought and passed on at some time: weak fairness of the two
\* successful calls, with what enables them written out.
FairSpec ==
    /\ Spec
    /\ \A p \in Parties : []<>~CanEncrypt(p) \/ []<><<sent'[p] # sent[p]>>_vars
    /\ \A p \in Parties : \A k \in 1 .. MaxSent :
          []<>~CanReceive(p, k) \/ []<><<delivered'[p][k] # delivered[p][k]>>_vars

=============================================================================
