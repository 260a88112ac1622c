---------------------------- MODULE SessionTypes ----------------------------
(***************************************************************************)
(* How each handler changes the record of the party that runs it, type     *)
(* correctness of Session, and the caps of its records.                    *)
(***************************************************************************)
EXTENDS SessionLemmas

-----------------------------------------------------------------------------
(***************************************************************************)
(* How the record of a party changes.  Every handler replaces it by one    *)
(* whose sessions each come from a session of the old record, or from the  *)
(* one session the handler created, and can derive no more than it.        *)
(***************************************************************************)
Descends(x, y) ==
    /\ x.base = y.base /\ x.root.hs = y.root.hs
    /\ x.pending \in {Nil, y.pending}
    /\ WellFormed(y) => /\ WellFormed(x)
                        /\ \A g \in ChainKeys : CanDerive(x, g) => CanDerive(y, g)

Evolves(p, r, new) ==
    /\ r \in Records
    /\ \A x \in LiveStates(r) : \E y \in Live(p) \cup new : Descends(x, y)
    /\ (DistinctBases(record[p]) /\ \A x \in Live(p), y \in new : x.base # y.base)
          => DistinctBases(r)
    /\ (RecordWithinCaps(record[p]) /\ \A y \in new : WithinCaps(y)) => RecordWithinCaps(r)

\* A change of the sending half of a session takes nothing away from the
\* receiving half and adds nothing to it.
LEMMA SameReceiverDescends ==
  ASSUME NEW x \in SessionStates, NEW y \in SessionStates,
         x.base = y.base, x.root = y.root, x.recv = y.recv, x.pending \in {Nil, y.pending}
  PROVE  Descends(x, y) /\ (WithinCaps(y) => WithinCaps(x))
<1>1. WellFormed(y) => WellFormed(x)
  BY DEF WellFormed
<1>2. \A g \in ChainKeys : CanDerive(x, g) => CanDerive(y, g)
  BY DEF CanDerive
<1>3. WithinCaps(y) => WithinCaps(x)
  BY DEF WithinCaps
<1> QED BY <1>1, <1>2, <1>3 DEF Descends

\* The sessions that archiving keeps.
LEMMA KeptDescends ==
  ASSUME NEW r \in Records, NEW x \in Kept(r)
  PROVE  \E y \in LiveStates(r) : Descends(x, y)
<1>1. LiveStates(r) \subseteq SessionStates
  BY RecordFields
<1>2. CASE x \in LiveStates(r)
  BY <1>1, <1>2, SameReceiverDescends
<1>3. CASE \E y \in LiveStates(r) : x = ClearUnacknowledgedPreKeyMessage(y)
  <2>1. PICK y \in LiveStates(r) : x = ClearUnacknowledgedPreKeyMessage(y)
    BY <1>3
  <2>2. y \in SessionStates
    BY <1>1
  <2>3. /\ x \in SessionStates /\ x.pending = Nil
        /\ x.base = y.base /\ x.root = y.root /\ x.recv = y.recv
    BY <2>1, <2>2, ClearProperties
  <2>4. Descends(x, y)
    BY <2>2, <2>3, SameReceiverDescends
  <2> QED BY <2>4
<1> QED BY <1>2, <1>3 DEF Kept

\* The sessions of a record are its current session and its archive.
LEMMA LiveCases ==
  ASSUME NEW r \in Records, NEW x \in LiveStates(r)
  PROVE  x \in Archived(r) \/ (r.current # Nil /\ x = r.current)
  BY DEF LiveStates, Archived

\* The record may stay as it was.
LEMMA SameEvolves ==
  ASSUME TypeOK, NEW p \in Parties, NEW new
  PROVE  Evolves(p, record[p], new)
<1>1. record[p] \in Records
  BY DEF TypeOK
<1>2. ASSUME NEW x \in LiveStates(record[p]) PROVE \E y \in Live(p) : Descends(x, y)
  BY <1>1, <1>2, RecordFields, SameReceiverDescends DEF Live
<1> QED BY <1>1, <1>2 DEF Evolves

\* A new session is put in front.
LEMMA PromoteEvolves ==
  ASSUME TypeOK, NEW p \in Parties, NEW st \in SessionStates
  PROVE  Evolves(p, PromoteState(record[p], st), {st})
<1> DEFINE n == PromoteState(record[p], st)
<1>1. record[p] \in Records
  BY DEF TypeOK
<1>2. /\ n \in Records /\ n.current = st /\ Archived(n) \subseteq Kept(record[p])
      /\ (DistinctBases(record[p]) /\ \A x \in LiveStates(record[p]) : x.base # st.base)
            => DistinctBases(n)
      /\ (RecordWithinCaps(record[p]) /\ WithinCaps(st)) => RecordWithinCaps(n)
  BY <1>1, PromoteProperties
<1> HIDE DEF n
<1>3. ASSUME NEW x \in LiveStates(n) PROVE \E y \in Live(p) \cup {st} : Descends(x, y)
  <2>1. CASE x = st
    BY <2>1, SameReceiverDescends
  <2>2. CASE x \in Archived(n)
    BY <1>1, <1>2, <2>2, KeptDescends DEF Live
  <2> QED BY <1>2, <1>3, <2>1, <2>2, LiveCases
<1> QED BY <1>2, <1>3 DEF Evolves, n, Live

\* The host archives the current session.
LEMMA ArchiveEvolves ==
  ASSUME TypeOK, NEW p \in Parties
  PROVE  Evolves(p, ArchiveCurrentState(record[p]), {})
<1> DEFINE n == ArchiveCurrentState(record[p])
<1>1. record[p] \in Records
  BY DEF TypeOK
<1>2. /\ n \in Records /\ n.current = Nil /\ Archived(n) \subseteq Kept(record[p])
      /\ DistinctBases(record[p]) => DistinctBases(n)
      /\ RecordWithinCaps(record[p]) => RecordWithinCaps(n)
  BY <1>1, ArchiveProperties
<1> HIDE DEF n
<1>3. ASSUME NEW x \in LiveStates(n) PROVE \E y \in Live(p) : Descends(x, y)
  BY <1>1, <1>2, <1>3, KeptDescends, LiveCases DEF Live
<1> QED BY <1>2, <1>3 DEF Evolves, n

\* The current session moves on.
LEMMA SetCurrentEvolves ==
  ASSUME TypeOK, NEW p \in Parties, record[p].current # Nil, NEW st \in SessionStates,
         Descends(st, record[p].current),
         WithinCaps(record[p].current) => WithinCaps(st)
  PROVE  Evolves(p, SetCurrentState(record[p], st), {})
<1> DEFINE n == SetCurrentState(record[p], st)
<1>1. /\ record[p] \in Records
      /\ record[p].current \in Live(p)
  BY RecordFields DEF TypeOK, Live
<1>2. /\ n \in Records /\ n.current = st /\ Archived(n) = Archived(record[p])
      /\ (DistinctBases(record[p]) /\ \A x \in Archived(record[p]) : x.base # st.base)
            => DistinctBases(n)
      /\ (RecordWithinCaps(record[p]) /\ WithinCaps(st)) => RecordWithinCaps(n)
  BY <1>1, SetCurrentProperties
<1> HIDE DEF n
<1>3. ASSUME NEW x \in LiveStates(n) PROVE \E y \in Live(p) : Descends(x, y)
  <2>1. CASE x = st
    BY <1>1, <2>1
  <2>2. CASE x \in Archived(n)
    <3>1. x \in Kept(record[p])
      BY <1>2, <2>2, Zenon DEF Archived, Kept, LiveStates
    <3> QED BY <1>1, <3>1, KeptDescends DEF Live
  <2> QED BY <1>2, <1>3, <2>1, <2>2, LiveCases
<1>4. DistinctBases(record[p]) => \A x \in Archived(record[p]) : x.base # st.base
  BY DEF DistinctBases, Archived, Descends
<1>5. RecordWithinCaps(record[p]) => WithinCaps(st)
  BY <1>1 DEF RecordWithinCaps, Live
<1> QED BY <1>2, <1>3, <1>4, <1>5 DEF Evolves, n


\* decryptWithState leads to a descendant.
LEMMA DecryptDescends ==
  ASSUME NEW st \in SessionStates, NEW m \in Messages, NEW ourNew \in Keys,
         decryptWithState(st, m, ourNew).err = "ok"
  PROVE  LET d == decryptWithState(st, m, ourNew)
         IN  Descends(d.st, st) /\ (WithinCaps(st) => WithinCaps(d.st))
<1> DEFINE d == decryptWithState(st, m, ourNew)
<1>1. /\ d.st.base = st.base /\ d.st.root.hs = st.root.hs /\ d.st.pending = Nil
      /\ WithinCaps(st) => WithinCaps(d.st)
  BY DecryptType
<1>2. WellFormed(st) => /\ WellFormed(d.st)
                        /\ \A g \in ChainKeys : CanDerive(d.st, g) => CanDerive(st, g)
  BY DecryptSpent
<1> HIDE DEF d
<1> QED BY <1>1, <1>2 DEF Descends, d

\* Encrypt changes the SPQR state and the sender chain.
LEMMA SendDescends ==
  ASSUME NEW st \in SessionStates
  PROVE  LET half == PQRatchetSend(st)
             full == [half EXCEPT !.ck = NextChainKey(@)]
         IN  /\ half \in SessionStates /\ Descends(half, st)
             /\ WithinCaps(st) => WithinCaps(half)
             /\ full \in SessionStates /\ Descends(full, st)
             /\ WithinCaps(st) => WithinCaps(full)
<1> DEFINE half == PQRatchetSend(st)
           full == [half EXCEPT !.ck = NextChainKey(@)]
<1>1. PICK pq \in PQStates : half = [st EXCEPT !.pq = pq]
  <2>1. 0 \in Nat
    OBVIOUS
  <2> QED BY <2>1, PQRatchetType
<1> HIDE DEF half
<1>2. /\ half \in SessionStates
      /\ half.base = st.base /\ half.root = st.root /\ half.recv = st.recv
      /\ half.pending = st.pending /\ half.ck = st.ck
  BY <1>1 DEF SessionStates
<1>3. st.ck \in ChainKeys
  BY DEF SessionStates
<1>4. NextChainKey(half.ck) \in ChainKeys
  BY <1>2, <1>3 DEF NextChainKey, Advance, ChainKeys
<1>5. /\ full \in SessionStates
      /\ full.base = st.base /\ full.root = st.root /\ full.recv = st.recv
      /\ full.pending = st.pending
  BY <1>2, <1>4 DEF SessionStates
<1> HIDE DEF full
<1>6. Descends(half, st) /\ (WithinCaps(st) => WithinCaps(half))
  BY <1>2, SameReceiverDescends
<1>7. Descends(full, st) /\ (WithinCaps(st) => WithinCaps(full))
  BY <1>5, SameReceiverDescends
<1> QED BY <1>2, <1>5, <1>6, <1>7 DEF half, full

-----------------------------------------------------------------------------
(***************************************************************************)
(* What each handler does to the record of the party that runs it.         *)
(***************************************************************************)
NewSession(p, id) ==
    LET b == Bundle(Peer(p), id)
        base == KeyPair(p, fresh[p])
    IN  SetUnacknowledgedPreKeyMessage(
            initializeAliceSession(IdentityKey(p), base, KeyPair(p, fresh[p] + 1), b),
            id, Encapsulate(b.kyber, base), clock)

\* The session ProcessPreKeyBundle creates.
LEMMA NewSessionProperties ==
  ASSUME TypeOK, NEW p \in Parties, NEW id \in PreKeyIDs \cup {Nil}
  PROVE  LET st == NewSession(p, id)
         IN  /\ st \in SessionStates /\ st.base = KeyPair(p, fresh[p])
             /\ st.pending.ct.by = st.base
             /\ BaseOf(st.root.hs) = st.base /\ KyberOf(st.root.hs) = KyberPreKey(Peer(p))
             /\ WellFormed(st) /\ WithinCaps(st)
<1> DEFINE b == Bundle(Peer(p), id)
           base == KeyPair(p, fresh[p])
           next == KeyPair(p, fresh[p] + 1)
<1>1. fresh[p] \in Nat /\ fresh[p] + 1 \in Nat /\ clock \in Nat
  BY DEF TypeOK
<1>2. /\ b \in Bundles /\ base \in Keys /\ next \in Keys
      /\ IdentityKey(p) \in Keys
  BY <1>1, KeyTypes
<1>3. b.kyber = KyberPreKey(Peer(p))
  BY DEF Bundle
<1>4. NewSession(p, id) = SetUnacknowledgedPreKeyMessage(
            initializeAliceSession(IdentityKey(p), base, next, b),
            id, Encapsulate(b.kyber, base), clock)
  BY ZenonT(40) DEF NewSession
<1> HIDE DEF b, base, next
<1>5. LET st == NewSession(p, id)
      IN  /\ st \in SessionStates /\ st.base = base /\ st.pending.ct.by = base
          /\ BaseOf(st.root.hs) = base /\ KyberOf(st.root.hs) = b.kyber
          /\ WellFormed(st) /\ WithinCaps(st)
  BY <1>1, <1>2, <1>4, InitiatorState
<1> QED BY <1>3, <1>5 DEF base


\* ProcessPreKeyBundle.
LEMMA ProcessRecord ==
  ASSUME TypeOK, NEW p \in Parties, NEW id \in PreKeyIDs \cup {Nil},
         NEW last \in {Nothing, Removed, Stored}, ProcessAccepted(p, id, last)
  PROVE  \E r \in Records : /\ record' = [record EXCEPT ![p] = r]
                            /\ Evolves(p, r, {NewSession(p, id)})
<1> DEFINE st == NewSession(p, id)
           n == PromoteState(record[p], st)
<1>1. st \in SessionStates
  BY NewSessionProperties, Zenon
<1>2. record' = [record EXCEPT ![p] = CASE last = Stored -> n
                                        [] last = Removed -> Mutated(p, n)
                                        [] OTHER -> record[p]]
  BY DEF ProcessAccepted, NewSession
<1> HIDE DEF st
<1>3. Evolves(p, n, {st}) /\ Evolves(p, record[p], {st})
  BY <1>1, PromoteEvolves, SameEvolves
<1>4. Mutated(p, n) \in {n, record[p]}
  BY MutatedIsEither
<1> HIDE DEF n
<1>5. PICK r \in {n, record[p]} : record' = [record EXCEPT ![p] = r]
  <2> DEFINE r == CASE last = Stored -> n
                    [] last = Removed -> Mutated(p, n)
                    [] OTHER -> record[p]
  <2>1. r \in {n, record[p]}
    BY <1>4 DEF Nothing, Removed, Stored
  <2> QED BY <1>2, <2>1, Zenon
<1>6. Evolves(p, r, {st}) /\ r \in Records
  BY <1>3, <1>5 DEF Evolves
<1> QED BY <1>5, <1>6, Zenon DEF st

\* Encrypt, whether it succeeds, is rejected or meets a failing store.
LEMMA EncryptRecord ==
  ASSUME TypeOK, NEW p \in Parties,
         \/ EncryptRejected(p)
         \/ \E last \in {Nothing, Removed, Stored} : EncryptAccepted(p, last)
  PROVE  \E r \in Records : /\ record' = [record EXCEPT ![p] = r]
                            /\ Evolves(p, r, {})
<1> DEFINE st == record[p].current
           half == PQRatchetSend(st)
           full == [half EXCEPT !.ck = NextChainKey(@)]
           h == SetCurrentState(record[p], half)
           f == SetCurrentState(record[p], full)
<1>1. record[p] \in Records /\ st # Nil
  BY DEF TypeOK, EncryptRejected, EncryptAccepted
<1>2. st \in SessionStates
  BY <1>1, RecordFields
<1>3. /\ half \in SessionStates /\ Descends(half, st) /\ (WithinCaps(st) => WithinCaps(half))
      /\ full \in SessionStates /\ Descends(full, st) /\ (WithinCaps(st) => WithinCaps(full))
  <2> HIDE DEF st
  <2> QED BY <1>2, SendDescends
<1>4. h.current = half
  BY <1>1 DEF SetCurrentState, Records
<1>5. SetCurrentState(h, full) = f
  BY <1>1, Zenon DEF SetCurrentState, Records
<1>6. \/ record' = [record EXCEPT ![p] = Mutated(p, h)]
      \/ \E last \in {Nothing, Removed, Stored} :
            record' = [record EXCEPT ![p] = CASE last = Stored  -> f
                                             [] last = Removed -> Mutated(p, f)
                                             [] OTHER          -> Mutated(p, h)]
  <2>1. CASE EncryptRejected(p)
    BY <2>1 DEF EncryptRejected
  <2>2. ASSUME NEW last \in {Nothing, Removed, Stored}, EncryptAccepted(p, last)
        PROVE  record' = [record EXCEPT ![p] = CASE last = Stored  -> f
                                             [] last = Removed -> Mutated(p, f)
                                             [] OTHER          -> Mutated(p, h)]
    <3>1. SetCurrentState(h, [h.current EXCEPT !.ck = NextChainKey(@)]) = f
      BY <1>4, <1>5
    <3> QED BY <2>2, <3>1, Zenon DEF EncryptAccepted
  <2> QED BY <2>1, <2>2
<1>7. Mutated(p, f) \in {f, record[p]} /\ Mutated(p, h) \in {h, record[p]}
  BY MutatedIsEither
<1> HIDE DEF half, full
<1>8. Evolves(p, h, {}) /\ Evolves(p, f, {}) /\ Evolves(p, record[p], {})
  BY <1>1, <1>3, SetCurrentEvolves, SameEvolves
<1> HIDE DEF h, f
<1>9. PICK r \in {f, h, record[p]} : record' = [record EXCEPT ![p] = r]
  BY <1>6, <1>7 DEF Nothing, Removed, Stored
<1>10. Evolves(p, r, {}) /\ r \in Records
  BY <1>8, <1>9 DEF Evolves
<1> QED BY <1>9, <1>10, Zenon

\* Decrypt of a message the current session decrypts.
LEMMA DecryptRecord ==
  ASSUME TypeOK, NEW p \in Parties, NEW m \in net, DecryptResult(p, m).err = "ok"
  PROVE  LET r == SetCurrentState(record[p], DecryptResult(p, m).st)
         IN  /\ Evolves(p, r, {}) /\ Evolves(p, Mutated(p, r), {})
             /\ r \in Records /\ Mutated(p, r) \in Records
<1> DEFINE st == record[p].current
           d == decryptWithState(st, m, NewRatchet(p))
           r == SetCurrentState(record[p], d.st)
<1>1. st # Nil /\ st \in SessionStates /\ DecryptResult(p, m) = d /\ d.st \in SessionStates
  BY DecryptResultType, Zenon
<1>2. Descends(d.st, st) /\ (WithinCaps(st) => WithinCaps(d.st))
  BY <1>1, DecryptDescends, KeyTypes, MessageFields
<1> HIDE DEF d
<1>3. Evolves(p, r, {}) /\ Evolves(p, record[p], {})
  BY <1>1, <1>2, SetCurrentEvolves, SameEvolves
<1>4. Mutated(p, r) \in {r, record[p]}
  BY MutatedIsEither
<1> HIDE DEF r
<1>5. Evolves(p, Mutated(p, r), {})
  BY <1>3, <1>4
<1>6. r \in Records /\ Mutated(p, r) \in Records
  BY <1>3, <1>5, Zenon DEF Evolves
<1> QED BY <1>1, <1>3, <1>5, <1>6 DEF r

\* DecryptPreKey of a message that authenticates.
LEMMA PreKeyRecord ==
  ASSUME TypeOK, NEW p \in Parties, NEW m \in net, m.pre # Nil, PreKeyResult(p, m).err = "ok"
  PROVE  PreKeyResult(p, m).r \in Records /\ PreKeyResult(p, m).r.current \in SessionStates
  BY PreKeyResultProperties, Zenon DEF ResumedOrNew


\* The message Encrypt sends.
LEMMA MessageType ==
  ASSUME TypeOK, NEW p \in Parties, NEW st \in SessionStates, sent[p] < MaxSent
  PROVE  MessageOf(p, st) \in Messages
<1>1. /\ st.base \in Keys /\ st.local \in Keys /\ st.remote \in Keys /\ st.root \in Roots
      /\ st.ratchet \in Keys /\ st.ck \in ChainKeys /\ st.previousCounter \in Nat
      /\ st.pq \in PQStates /\ st.pending \in Pendings \cup {Nil}
  BY DEF SessionStates
<1>2. sent[p] + 1 \in 1 .. MaxSent
  BY SessionAssumption DEF TypeOK
<1>3. Peer(p) \in Parties
  BY KeyTypes
<1>4. st.pq.dir \in {"A2B", "B2A"} /\ st.pq.send.ctr + 1 \in Nat
  BY <1>1 DEF PQStates, Directions
<1>5. Wire(st.pq.send.ctr + 1) \in Nat
  BY <1>4, WireNat
<1>6. Index(st.ck) \in Nat
  BY <1>1, WireNat DEF Index, ChainKeys
<1>7. PQKey(st, st.pq.dir, st.pq.send.ctr + 1)
        \in [hs : Handshakes, dir : {"A2B", "B2A", "none"}, pos : Nat]
  BY <1>1, <1>4 DEF PQKey, Roots
<1>8. MacOf(st.ck, PQKey(st, st.pq.dir, st.pq.send.ctr + 1), st.local, st.remote) \in Macs
  BY <1>1, <1>7 DEF MacOf, Macs
<1> DEFINE pre == IF st.pending = Nil THEN Nil
                  ELSE [id |-> st.pending.id, base |-> st.base, identity |-> st.local,
                        ct |-> st.pending.ct]
<1>9. pre \in PreParts \cup {Nil}
  BY <1>1 DEF PreParts, Pendings
<1> HIDE DEF pre
<1> QED BY <1>1, <1>2, <1>3, <1>5, <1>6, <1>8, <1>9 DEF MessageOf, Messages, pre


-----------------------------------------------------------------------------
(***************************************************************************)
(* Type correctness, action by action.                                     *)
(***************************************************************************)
\* Returning a plaintext counts one delivery.
LEMMA DeliverType ==
  ASSUME TypeOK, NEW p \in Parties, NEW m \in net, Deliver(p, m)
  PROVE  /\ delivered' \in [Parties -> [1 .. MaxSent -> Nat]]
         /\ delivered' = [delivered EXCEPT ![p] =
                            [delivered[p] EXCEPT ![m.num] = delivered[p][m.num] + 1]]
<1> DEFINE f == [delivered[p] EXCEPT ![m.num] = delivered[p][m.num] + 1]
<1>1. /\ delivered \in [Parties -> [1 .. MaxSent -> Nat]]
      /\ delivered[p] \in [1 .. MaxSent -> Nat] /\ m.num \in 1 .. MaxSent
  BY MessageFields DEF TypeOK
<1>2. delivered[p][m.num] \in Nat
  BY <1>1
<1>3. f \in [1 .. MaxSent -> Nat]
  BY <1>1, <1>2
<1>4. delivered' = [delivered EXCEPT ![p] = f]
  BY DEF Deliver
<1> HIDE DEF f
<1>5. delivered' \in [Parties -> [1 .. MaxSent -> Nat]]
  BY <1>1, <1>3, <1>4
<1> QED BY <1>4, <1>5 DEF f

\* A DH ratchet step uses up a key pair.
LEMMA UseRatchetType ==
  ASSUME TypeOK, NEW p \in Parties, NEW st, UseRatchet(p, st)
  PROVE  /\ fresh' \in [Parties -> Nat]
         /\ \A q \in Parties : fresh[q] <= fresh'[q]
<1>1. fresh \in [Parties -> Nat]
  BY DEF TypeOK
<1> DEFINE n == IF st.ratchet = NewRatchet(p) THEN fresh[p] + 1 ELSE fresh[p]
<1>2. n \in Nat /\ fresh[p] <= n
  BY <1>1
<1>3. fresh' = [fresh EXCEPT ![p] = n]
  BY DEF UseRatchet
<1> HIDE DEF n
<1> QED BY <1>1, <1>2, <1>3

\* ProcessPreKeyBundle preserves the types.
LEMMA ProcessTypes ==
  ASSUME TypeOK, NEW p \in Parties, ProcessPreKeyBundle(p)
  PROVE  TypeOK'
<1>1. PICK id \in (PreKeyIDs \ issued[Peer(p)]) \cup {Nil} :
        \/ ProcessRejected(p, id)
        \/ \E last \in {Nothing, Removed, Stored} : ProcessAccepted(p, id, last)
  BY DEF ProcessPreKeyBundle
<1>2. id \in PreKeyIDs \cup {Nil} /\ {id} \ {Nil} \subseteq PreKeyIDs /\ Peer(p) \in Parties
  BY KeyTypes
<1>3. {"init"} \subseteq Moves /\ \A last : {"init"} \cup Faults(last) \subseteq Moves
  BY DEF Moves, Faults
<1>4. CASE ProcessRejected(p, id)
  <2>1. budget' \in [Parties -> [Moves -> Nat]]
    BY <1>3, <1>4, SpendType DEF ProcessRejected
  <2>2. issued' \in [Parties -> SUBSET PreKeyIDs]
    BY <1>2, <1>4 DEF ProcessRejected, TypeOK
  <2>3. out' \in [op : Handlers, err : Errors]
    BY <1>4 DEF ProcessRejected, Return, Handlers, Errors
  <2> QED BY <1>4, <2>1, <2>2, <2>3 DEF ProcessRejected, TypeOK, stores
<1>5. ASSUME NEW last \in {Nothing, Removed, Stored}, ProcessAccepted(p, id, last)
      PROVE  TypeOK'
  <2>1. budget' \in [Parties -> [Moves -> Nat]]
    BY <1>3, <1>5, SpendType DEF ProcessAccepted
  <2>2. issued' \in [Parties -> SUBSET PreKeyIDs]
    BY <1>2, <1>5 DEF ProcessAccepted, TypeOK
  <2>3. out' \in [op : Handlers, err : Errors]
    BY <1>5 DEF ProcessAccepted, Return, Handlers, Errors
  <2>4. record' \in [Parties -> Records]
    <3>1. PICK r \in Records : record' = [record EXCEPT ![p] = r]
      BY <1>2, <1>5, ProcessRecord, Zenon
    <3> QED BY <3>1, Zenon DEF TypeOK
  <2>5. known' \in [Parties -> Keys \cup {Nil}]
    <3>1. Bundle(Peer(p), id).identity \in Keys
      BY <1>2, KeyTypes DEF Bundle
    <3> QED BY <1>5, <3>1 DEF ProcessAccepted, TypeOK
  <2>6. fresh' \in [Parties -> Nat]
    BY <1>5 DEF ProcessAccepted, TypeOK
  <2> QED BY <1>5, <2>1, <2>2, <2>3, <2>4, <2>5, <2>6 DEF ProcessAccepted, TypeOK
<1> QED BY <1>1, <1>4, <1>5

\* Encrypt preserves the types.
LEMMA EncryptTypes ==
  ASSUME TypeOK, NEW p \in Parties, Encrypt(p)
  PROVE  TypeOK'
<1>1. CASE EncryptNoSession(p)
  <2>1. out' \in [op : Handlers, err : Errors]
    BY <1>1, ZenonT(40) DEF EncryptNoSession, Return, Handlers, Errors
  <2> QED BY <1>1, <2>1 DEF EncryptNoSession, TypeOK, stores
<1>2. CASE EncryptRejected(p)
  <2>1. record' \in [Parties -> Records]
    BY <1>2, EncryptRecord, Zenon DEF TypeOK
  <2>2. out' \in [op : Handlers, err : Errors]
    BY <1>2, Zenon DEF EncryptRejected, Return, Handlers, Errors
  <2> QED BY <1>2, <2>1, <2>2 DEF EncryptRejected, TypeOK
<1>3. ASSUME NEW last \in {Nothing, Removed, Stored}, EncryptAccepted(p, last)
      PROVE  TypeOK'
  <2> DEFINE st == record[p].current
  <2>0. st \in SessionStates /\ sent[p] < MaxSent /\ st.remote \in Keys
    <3>1. st # Nil /\ record[p] \in Records
      BY <1>3 DEF EncryptAccepted, TypeOK
    <3>2. st \in SessionStates
      BY <3>1, RecordFields
    <3>3. st.remote \in Keys
      BY <3>2, Zenon DEF SessionStates
    <3> QED BY <1>3, <3>2, <3>3 DEF EncryptAccepted
  <2>1. record' \in [Parties -> Records]
    <3>1. PICK r \in Records : record' = [record EXCEPT ![p] = r]
      BY <1>3, EncryptRecord, Zenon
    <3>2. record \in [Parties -> Records]
      BY DEF TypeOK
    <3> QED BY <3>1, <3>2, Zenon
  <2>2. out' \in [op : Handlers, err : Errors]
    BY <1>3 DEF EncryptAccepted, Return, Handlers, Errors
  <2>3. budget' \in [Parties -> [Moves -> Nat]]
    <3>1. Faults(last) \subseteq Moves
      BY DEF Moves, Faults
    <3> QED BY <1>3, <3>1, SpendType DEF EncryptAccepted
  <2>4. known' \in [Parties -> Keys \cup {Nil}]
    BY <1>3, <2>0, Zenon DEF EncryptAccepted, TypeOK
  <2>5. net' \subseteq Messages
    <3>1. MessageOf(p, st) \in Messages
      BY <2>0, MessageType
    <3> QED BY <1>3, <3>1 DEF EncryptAccepted, TypeOK
  <2>6. sent' \in [Parties -> 0 .. MaxSent]
    <3>1. sent[p] + 1 \in 0 .. MaxSent
      BY <2>0, SessionAssumption DEF TypeOK
    <3> QED BY <1>3, <3>1 DEF EncryptAccepted, TypeOK
  <2> QED BY <1>3, <2>1, <2>2, <2>3, <2>4, <2>5, <2>6 DEF EncryptAccepted, TypeOK
<1> QED BY <1>1, <1>2, <1>3 DEF Encrypt

\* Decrypt preserves the types.
LEMMA DecryptTypes ==
  ASSUME TypeOK, NEW p \in Parties, NEW m \in net, Decrypt(p, m)
  PROVE  TypeOK'
<1> DEFINE d == DecryptResult(p, m)
           r == SetCurrentState(record[p], d.st)
<1>0. d.err \in Errors /\ m.num \in 1 .. MaxSent
  BY DecryptResultType, MessageFields, Zenon
<1>1. CASE d.err # "ok"
  <2>1. out' = [op |-> "Decrypt", err |-> d.err]
        /\ UNCHANGED <<record, fresh, delivered, budget>>
    BY <1>1 DEF Decrypt, Return
  <2>2. out' \in [op : Handlers, err : Errors]
    BY <1>0, <2>1, Zenon DEF Handlers
  <2> QED BY <2>1, <2>2, Zenon DEF Decrypt, TypeOK
<1>2. CASE d.err = "ok"
  <2>1. r \in Records /\ Mutated(p, r) \in Records
    BY <1>2, DecryptRecord
  <2> HIDE DEF d, r
  <2>2. record' \in {[record EXCEPT ![p] = r], [record EXCEPT ![p] = Mutated(p, r)]}
    BY <1>2 DEF Decrypt, d, r
  <2>3. record' \in [Parties -> Records]
    BY <2>1, <2>2, Zenon DEF TypeOK
  <2>4. fresh' \in [Parties -> Nat]
    <3>1. UseRatchet(p, d.st)
      BY <1>2, Zenon DEF Decrypt, d
    <3> QED BY <3>1, UseRatchetType
  <2>5. delivered' \in [Parties -> [1 .. MaxSent -> Nat]]
    <3>1. Deliver(p, m) \/ UNCHANGED delivered
      BY <1>2, Zenon DEF Decrypt, d
    <3> QED BY <3>1, DeliverType DEF TypeOK
  <2>6. budget' \in [Parties -> [Moves -> Nat]]
    <3>1. {"fault"} \subseteq Moves
      BY Zenon DEF Moves
    <3>2. UNCHANGED budget \/ Spend(p, {"fault"})
      BY <1>2 DEF Decrypt, d
    <3> QED BY <3>1, <3>2, SpendType DEF TypeOK
  <2>7. out' \in [op : Handlers, err : Errors]
    BY <1>2 DEF Decrypt, Return, Handlers, Errors, d
  <2> QED BY <2>3, <2>4, <2>5, <2>6, <2>7 DEF Decrypt, TypeOK
<1> QED BY <1>1, <1>2


\* DecryptPreKey preserves the types.
LEMMA PreKeyTypes ==
  ASSUME TypeOK, NEW p \in Parties, NEW m \in net, DecryptPreKey(p, m)
  PROVE  TypeOK'
<1> DEFINE w == PreKeyResult(p, m)
<1>0. /\ m.pre # Nil /\ m.num \in 1 .. MaxSent
      /\ m.pre.base \in Keys /\ m.pre.identity \in Keys
      /\ UNCHANGED <<installation, issued, net, sent, clock>>
  BY MessageFields, Zenon DEF DecryptPreKey
<1>1. w.err \in Errors
  BY <1>0, PreKeyResultProperties, ZenonT(40)
<1>2. CASE DecryptPreKeyRejected(p, m)
  <2>1. out' \in [op : Handlers, err : Errors]
    BY <1>1, <1>2, ZenonT(40) DEF DecryptPreKeyRejected, Return, Handlers
  <2> QED BY <1>0, <1>2, <2>1 DEF DecryptPreKeyRejected, TypeOK, stores
<1>3. CASE DecryptPreKeyReused(p, m)
  <2>1. out' \in [op : Handlers, err : Errors]
    BY <1>3, Zenon DEF DecryptPreKeyReused, Return, Handlers, Errors
  <2>2. known' \in [Parties -> Keys \cup {Nil}]
    BY <1>0, <1>3, ZenonT(40) DEF DecryptPreKeyReused, TypeOK
  <2> QED BY <1>0, <1>3, <2>1, <2>2 DEF DecryptPreKeyReused, TypeOK
<1>4. ASSUME NEW last \in Nothing .. Stored, DecryptPreKeyCommit(p, m, last)
      PROVE  TypeOK'
  <2>1. w.r \in Records
    BY <1>0, <1>4, PreKeyRecord, ZenonT(40) DEF DecryptPreKeyCommit
  <2> HIDE DEF w
  <2>2. record' \in [Parties -> Records]
    BY <1>4, <2>1 DEF DecryptPreKeyCommit, TypeOK, w
  <2>3. known' \in [Parties -> Keys \cup {Nil}]
    BY <1>0, <1>4, Zenon DEF DecryptPreKeyCommit, TypeOK
  <2>4. baseKeysSeen' \in [Parties -> SUBSET Keys]
    BY <1>0, <1>4, Zenon DEF DecryptPreKeyCommit, TypeOK
  <2>5. preKeys' \in [Parties -> SUBSET PreKeyIDs]
    BY <1>4, Zenon DEF DecryptPreKeyCommit, TypeOK, RemovePreKey
  <2>6. fresh' \in [Parties -> Nat]
    BY <1>4, UseRatchetType, Zenon DEF DecryptPreKeyCommit
  <2>7. delivered' \in [Parties -> [1 .. MaxSent -> Nat]]
    <3>1. Deliver(p, m) \/ UNCHANGED delivered
      BY <1>4, Zenon DEF DecryptPreKeyCommit
    <3> QED BY <3>1, DeliverType, Zenon DEF TypeOK
  <2>8. budget' \in [Parties -> [Moves -> Nat]]
    <3>1. Faults(last) \subseteq Moves
      BY Zenon DEF Moves, Faults
    <3> QED BY <1>4, <3>1, SpendType DEF DecryptPreKeyCommit
  <2>9. out' \in [op : Handlers, err : Errors]
    BY <1>4 DEF DecryptPreKeyCommit, Return, Handlers, Errors
  <2> QED BY <1>0, <2>2, <2>3, <2>4, <2>5, <2>6, <2>7, <2>8, <2>9 DEF TypeOK
<1> QED BY <1>2, <1>3, <1>4, Zenon DEF DecryptPreKey

\* ArchiveSession, Reset, Reinstall and Tick preserve the types.
LEMMA HostTypes ==
  ASSUME TypeOK,
         Tick \/ \E p \in Parties : ArchiveSession(p) \/ Reset(p) \/ Reinstall(p)
  PROVE  TypeOK'
<1>1. CASE Tick
  BY <1>1 DEF Tick, TypeOK, stores
<1>2. ASSUME NEW p \in Parties, ArchiveSession(p) PROVE TypeOK'
  <2>1. record' \in [Parties -> Records]
    BY <1>2, ArchiveEvolves, Zenon DEF ArchiveSession, TypeOK, Evolves
  <2>2. budget' \in [Parties -> [Moves -> Nat]]
    BY <1>2, SpendType, Zenon DEF ArchiveSession, Moves
  <2>3. out' \in [op : Handlers, err : Errors]
    BY <1>2, Zenon DEF ArchiveSession, Return, Handlers, Errors
  <2> QED BY <1>2, <2>1, <2>2, <2>3 DEF ArchiveSession, TypeOK
<1>3. ASSUME NEW p \in Parties, Reset(p) PROVE TypeOK'
  <2>1. known' \in [Parties -> Keys \cup {Nil}]
    BY <1>3, Zenon DEF Reset, TypeOK
  <2>2. budget' \in [Parties -> [Moves -> Nat]]
    BY <1>3, SpendType, Zenon DEF Reset, Moves
  <2>3. out' \in [op : Handlers, err : Errors]
    BY <1>3, ZenonT(40) DEF Reset, Return, Handlers, Errors
  <2> QED BY <1>3, <2>1, <2>2, <2>3, Zenon DEF Reset, TypeOK
<1>4. ASSUME NEW p \in Parties, Reinstall(p) PROVE TypeOK'
  <2>1. record' \in [Parties -> Records]
    <3>1. NewFreshSessionRecord \in Records
      BY SeqEmpty, Zenon DEF NewFreshSessionRecord, Records
    <3> QED BY <1>4, <3>1, Zenon DEF Reinstall, TypeOK
  <2>2. budget' \in [Parties -> [Moves -> Nat]]
    BY <1>4, SpendType, Zenon DEF Reinstall, Moves
  <2>3. out' \in [op : Handlers, err : Errors]
    BY <1>4, Zenon DEF Reinstall, Return, Handlers, Errors
  <2>4. /\ known' \in [Parties -> Keys \cup {Nil}]
        /\ preKeys' \in [Parties -> SUBSET PreKeyIDs]
        /\ baseKeysSeen' \in [Parties -> SUBSET Keys]
        /\ issued' \in [Parties -> SUBSET PreKeyIDs]
        /\ installation' \in [Parties -> Nat]
    BY <1>4 DEF Reinstall, TypeOK
  <2> QED BY <1>4, <2>1, <2>2, <2>3, <2>4 DEF Reinstall, TypeOK
<1> QED BY <1>1, <1>2, <1>3, <1>4, Zenon

\* The initial state has the right types.
LEMMA InitTypes ==
  ASSUME Init
  PROVE  TypeOK
<1>1. NewFreshSessionRecord \in Records
  BY SeqEmpty DEF NewFreshSessionRecord, Records
<1>2. out \in [op : Handlers, err : Errors]
  BY Zenon DEF Init, Handlers, Errors
<1>3. sent \in [Parties -> 0 .. MaxSent]
  BY SessionAssumption DEF Init
<1> QED BY <1>1, <1>2, <1>3, SessionAssumption DEF Init, TypeOK

\* Every step preserves the types.
LEMMA NextTypes ==
  ASSUME TypeOK, [Next]_vars
  PROVE  TypeOK'
<1>1. CASE Next
  BY <1>1, ProcessTypes, EncryptTypes, DecryptTypes, PreKeyTypes, HostTypes, Zenon DEF Next
<1>2. CASE UNCHANGED vars
  BY <1>2 DEF vars, stores, TypeOK
<1> QED BY <1>1, <1>2

\* Every variable keeps the type of the Go declarations, for any number of
\* messages, pre-keys, archived sessions and faults.
THEOREM TypeCorrect == Spec => []TypeOK
<1>1. Init => TypeOK
  BY InitTypes
<1>2. TypeOK /\ [Next]_vars => TypeOK'
  BY NextTypes
<1> QED BY <1>1, <1>2, PTL DEF Spec


-----------------------------------------------------------------------------
(***************************************************************************)
(* The caps of the record.                                                 *)
(***************************************************************************)
\* A fresh record is empty.
LEMMA FreshRecord ==
  /\ NewFreshSessionRecord \in Records /\ LiveStates(NewFreshSessionRecord) = {}
  /\ DistinctBases(NewFreshSessionRecord) /\ RecordWithinCaps(NewFreshSessionRecord)
<1> DEFINE r == NewFreshSessionRecord
<1>1. r = [current |-> Nil, previous |-> << >>]
  BY DEF NewFreshSessionRecord
<1> HIDE DEF r
<1>2. << >> \in Seq(SessionStates) /\ Len(<< >>) = 0
  BY SeqEmpty
<1>3. r \in Records /\ r.current = Nil /\ Len(r.previous) = 0
  BY <1>1, <1>2 DEF Records
<1>4. 1 .. Len(r.previous) = {}
  BY <1>3
<1>5. LiveStates(r) = {}
  BY <1>3, <1>4 DEF LiveStates
<1>6. DistinctBases(r)
  BY <1>3, <1>4 DEF DistinctBases
<1>7. RecordWithinCaps(r)
  BY <1>3, <1>4, <1>5, ArchiveAssumption DEF RecordWithinCaps
<1> QED BY <1>3, <1>5, <1>6, <1>7 DEF r

\* Every step preserves the caps: it replaces at most one party's record.
LEMMA RecordStep ==
  ASSUME TypeOK, RecordBounded, Next
  PROVE  RecordBounded'
<1>1. ASSUME NEW p \in Parties, NEW r, Evolves(p, r, {}),
             record' = [record EXCEPT ![p] = r]
      PROVE  RecordBounded'
  <2>1. RecordWithinCaps(r)
    BY <1>1 DEF Evolves, RecordBounded
  <2>2. record'[p] = r /\ \A q \in Parties : q # p => record'[q] = record[q]
    BY <1>1 DEF TypeOK
  <2> QED BY <2>1, <2>2, Zenon DEF RecordBounded
<1>2. CASE UNCHANGED record
  BY <1>2 DEF RecordBounded
<1>3. ASSUME NEW p \in Parties, ProcessPreKeyBundle(p) PROVE RecordBounded'
  <2>1. PICK id \in (PreKeyIDs \ issued[Peer(p)]) \cup {Nil} :
          \/ ProcessRejected(p, id)
          \/ \E last \in {Nothing, Removed, Stored} : ProcessAccepted(p, id, last)
    BY <1>3 DEF ProcessPreKeyBundle
  <2>2. CASE ProcessRejected(p, id)
    BY <1>2, <2>2 DEF ProcessRejected, stores
  <2>3. ASSUME NEW last \in {Nothing, Removed, Stored}, ProcessAccepted(p, id, last)
        PROVE  RecordBounded'
    <3>1. PICK r \in Records : /\ record' = [record EXCEPT ![p] = r]
                               /\ Evolves(p, r, {NewSession(p, id)})
      BY <2>3, ProcessRecord, Zenon
    <3>2. \A y \in {NewSession(p, id)} : WithinCaps(y)
      BY NewSessionProperties, Zenon
    <3> HIDE DEF NewSession
    <3>3. RecordWithinCaps(r)
      BY <3>1, <3>2, Zenon DEF Evolves, RecordBounded
    <3>4. record'[p] = r /\ \A q \in Parties : q # p => record'[q] = record[q]
      BY <3>1 DEF TypeOK
    <3> QED BY <3>3, <3>4, Zenon DEF RecordBounded
  <2> QED BY <2>1, <2>2, <2>3, Zenon
<1>4. ASSUME NEW p \in Parties, Encrypt(p) PROVE RecordBounded'
  <2>1. CASE EncryptNoSession(p)
    BY <1>2, <2>1 DEF EncryptNoSession, stores
  <2>2. CASE \/ EncryptRejected(p)
             \/ \E last \in {Nothing, Removed, Stored} : EncryptAccepted(p, last)
    BY <1>1, <2>2, EncryptRecord
  <2> QED BY <1>4, <2>1, <2>2 DEF Encrypt
<1>5. ASSUME NEW p \in Parties, NEW m \in net, Decrypt(p, m) PROVE RecordBounded'
  <2> DEFINE r == SetCurrentState(record[p], DecryptResult(p, m).st)
  <2>1. CASE DecryptResult(p, m).err # "ok"
    BY <1>2, <1>5, <2>1 DEF Decrypt
  <2>2. CASE DecryptResult(p, m).err = "ok"
    <3>1. Evolves(p, r, {}) /\ Evolves(p, Mutated(p, r), {})
      BY <2>2, DecryptRecord, Zenon
    <3>2. \/ record' = [record EXCEPT ![p] = r]
          \/ record' = [record EXCEPT ![p] = Mutated(p, r)]
      BY <1>5, <2>2 DEF Decrypt
    <3> HIDE DEF r
    <3>3. PICK q : Evolves(p, q, {}) /\ record' = [record EXCEPT ![p] = q]
      BY <3>1, <3>2
    <3> QED BY <1>1, <3>3, Zenon
  <2> QED BY <2>1, <2>2, Zenon
<1>6. ASSUME NEW p \in Parties, NEW m \in net, DecryptPreKey(p, m) PROVE RecordBounded'
  <2>1. m.pre # Nil
    BY <1>6 DEF DecryptPreKey
  <2>2. CASE DecryptPreKeyRejected(p, m)
    BY <1>2, <2>2 DEF DecryptPreKeyRejected, stores
  <2>3. CASE DecryptPreKeyReused(p, m)
    BY <1>2, <2>3 DEF DecryptPreKeyReused
  <2>4. ASSUME NEW last \in Nothing .. Stored, DecryptPreKeyCommit(p, m, last)
        PROVE  RecordBounded'
    <3> DEFINE w == PreKeyResult(p, m)
    <3>1. RecordWithinCaps(w.r)
      BY <2>1, <2>4, PreKeyResultProperties, Zenon DEF DecryptPreKeyCommit, ResumedOrNew, RecordBounded
    <3>2. record' = [record EXCEPT ![p] = IF last = Stored THEN w.r ELSE record[p]]
      BY <2>4 DEF DecryptPreKeyCommit
    <3> HIDE DEF w
    <3>3. /\ record'[p] \in {w.r, record[p]}
          /\ \A q \in Parties : q # p => record'[q] = record[q]
      BY <3>2 DEF TypeOK
    <3> QED BY <3>1, <3>3 DEF RecordBounded
  <2> QED BY <1>6, <2>2, <2>3, <2>4 DEF DecryptPreKey
<1>7. ASSUME NEW p \in Parties, ArchiveSession(p) PROVE RecordBounded'
  <2>1. PICK r : Evolves(p, r, {}) /\ record' = [record EXCEPT ![p] = r]
    BY <1>7, ArchiveEvolves, Zenon DEF ArchiveSession
  <2> QED BY <1>1, <2>1, Zenon
<1>8. ASSUME NEW p \in Parties, Reset(p) PROVE RecordBounded'
  BY <1>2, <1>8 DEF Reset
<1>9. ASSUME NEW p \in Parties, Reinstall(p) PROVE RecordBounded'
  <2>1. RecordWithinCaps(NewFreshSessionRecord)
    BY FreshRecord
  <2>2. record' = [record EXCEPT ![p] = NewFreshSessionRecord]
    BY <1>9 DEF Reinstall
  <2> QED BY <2>1, <2>2 DEF RecordBounded, TypeOK
<1>10. CASE Tick
  BY <1>2, <1>10 DEF Tick, stores
<1> QED BY <1>3, <1>4, <1>5, <1>6, <1>7, <1>8, <1>9, <1>10 DEF Next

\* No session holds more receiver chains or cached keys than the caps, no record
\* more archived sessions, and no archived session a pending pre-key message,
\* for every value of the caps.
THEOREM RecordsStayBounded == Spec => []RecordBounded
<1>1. Init => RecordBounded
  BY FreshRecord DEF Init, RecordBounded
<1>2. TypeOK /\ RecordBounded /\ [Next]_vars => RecordBounded'
  <2>1. UNCHANGED vars /\ RecordBounded => RecordBounded'
    BY DEF vars, stores, RecordBounded
  <2>2. TypeOK /\ RecordBounded /\ Next => RecordBounded'
    BY RecordStep
  <2> QED BY <2>1, <2>2
<1> QED BY <1>1, <1>2, TypeCorrect, PTL DEF Spec

=============================================================================
