--------------------------- MODULE SessionProofs ----------------------------
(***************************************************************************)
(* The invariants of Session for every number of messages, sessions,       *)
(* archived sessions, pre-keys and faults: no plaintext is delivered twice *)
(* and no delivered message can be decrypted again.                        *)
(***************************************************************************)
EXTENDS SessionTypes

-----------------------------------------------------------------------------
(***************************************************************************)
(* At most once and forward secrecy.  Every step but a reinstallation only *)
(* adds to what is generated and seen.                                     *)
(***************************************************************************)
Grows ==
    \A p \in Parties : /\ fresh[p] <= fresh'[p]
                       /\ baseKeysSeen[p] \subseteq baseKeysSeen'[p]
                       /\ installation'[p] = installation[p]

\* A handler that leaves keys and stores of keys alone.
LEMMA SameGrows ==
  ASSUME TypeOK, UNCHANGED <<fresh, baseKeysSeen, installation>>
  PROVE  Grows
<1>1. fresh \in [Parties -> Nat]
  BY DEF TypeOK
<1> QED BY <1>1 DEF Grows

\* What a party generated or accepted stays generated or accepted.
LEMMA SoundStays ==
  ASSUME TypeOK, TypeOK', Grows, NEW p \in Parties
  PROVE  /\ \A key : Generated(p, key) => Generated(p, key)'
         /\ KyberPreKey(p)' = KyberPreKey(p)
         /\ \A st : SoundState(p, st) => SoundState(p, st)'
         /\ \A hs : Exhausted(p, hs) => Exhausted(p, hs)'
<1>1. /\ fresh[p] \in Nat /\ fresh'[p] \in Nat /\ fresh[p] <= fresh'[p]
      /\ baseKeysSeen[p] \subseteq baseKeysSeen'[p] /\ installation'[p] = installation[p]
  BY DEF TypeOK, Grows
<1>2. ASSUME NEW key, Generated(p, key) PROVE Generated(p, key)'
  <2>1. PICK n \in 0 .. fresh[p] - 1 : key = KeyPair(p, n)
    BY <1>2 DEF Generated
  <2>2. n \in 0 .. fresh'[p] - 1
    BY <1>1
  <2> QED BY <2>1, <2>2 DEF Generated, KeyPair
<1>3. KyberPreKey(p)' = KyberPreKey(p)
  BY <1>1 DEF KyberPreKey
<1>4. ASSUME NEW st, SoundState(p, st) PROVE SoundState(p, st)'
  BY <1>1, <1>2, <1>3, <1>4 DEF SoundState, Accounted
<1>5. ASSUME NEW hs, Exhausted(p, hs) PROVE Exhausted(p, hs)'
  BY <1>1, <1>2, <1>3, <1>5 DEF Exhausted
<1> QED BY <1>2, <1>3, <1>4, <1>5

\* No message delivered to p has a key that the session st could derive.
KeysSpent(p, st) ==
    \A m \in net : (m.to = p /\ delivered[p][m.num] > 0) => ~CanDerive(st, m.mac.gen)

\* The conjuncts of SessionInv about one party, for one session of it.
LEMMA LiveFacts ==
  ASSUME TypeOK, SessionInv, NEW p \in Parties, NEW st \in Live(p)
  PROVE  SoundState(p, st) /\ KeysSpent(p, st) /\ st \in SessionStates
<1>1. record[p] \in Records
  BY DEF TypeOK
<1>2. st \in SessionStates
  BY <1>1, RecordFields DEF Live
<1> QED BY <1>2 DEF SessionInv, ForwardSecrecy, KeysSpent

\* A session that p creates now can derive nothing that was delivered to p.
Unused(p, st) ==
    /\ \A x \in Live(p) : x.base # st.base
    /\ \A m \in net : (m.to = p /\ delivered[p][m.num] > 0) => m.mac.gen.root.hs # st.root.hs

\* Messages are sent at most, none of them counts as delivered, and the network
\* stays sound.
Sends ==
    /\ UNCHANGED delivered /\ net \subseteq net'
    /\ \A q \in Parties : sent[q] <= sent'[q]
    /\ \A m \in net' \ net : delivered[m.to][m.num] = 0
    /\ \A m \in net' : SoundMessage(m)'
    /\ \A m1, m2 \in net' : m1.to = m2.to /\ m1.num = m2.num => m1 = m2

\* The sessions of the set new can be added to those of p.
Addable(p, new) == \A y \in new : SoundState(p, y)' /\ Unused(p, y)

\* A step that delivers nothing preserves SessionInv.
LEMMA QuietStep ==
  ASSUME TypeOK, TypeOK', SessionInv, Grows, Sends, NEW p \in Parties, NEW r, NEW new,
         record' = [record EXCEPT ![p] = r], Evolves(p, r, new), Addable(p, new)
  PROVE  SessionInv'
<1>0. /\ \A y \in new : SoundState(p, y)' /\ Unused(p, y)
      /\ UNCHANGED delivered /\ net \subseteq net'
      /\ \A q \in Parties : sent[q] <= sent'[q]
      /\ \A m \in net' \ net : delivered[m.to][m.num] = 0
      /\ \A m \in net' : SoundMessage(m)'
      /\ \A m1, m2 \in net' : m1.to = m2.to /\ m1.num = m2.num => m1 = m2
  BY DEF Sends, Addable
<1>1. Live(p)' = LiveStates(r) /\ record'[p] = r
  BY DEF TypeOK, Live
<1>2. \A q \in Parties : q # p => Live(q)' = Live(q) /\ record'[q] = record[q]
  BY DEF TypeOK, Live
<1>3. ASSUME NEW x \in LiveStates(r)
      PROVE  SoundState(p, x)' /\ KeysSpent(p, x)
  <2>1. PICK y \in Live(p) \cup new : Descends(x, y)
    BY <1>3 DEF Evolves
  <2>2. SoundState(p, y)'
    BY <1>0, LiveFacts, SoundStays
  <2>3. KeysSpent(p, y)
    BY <1>0, LiveFacts DEF KeysSpent, Unused, CanDerive
  <2>4. SoundState(p, x)'
    <3>1. /\ x.base = y.base /\ x.root.hs = y.root.hs /\ WellFormed(x)
          /\ x.pending \in {Nil, y.pending}
      BY <2>1, <2>2 DEF Descends, SoundState
    <3>2. Accounted(p, x)'
      BY <2>2, <3>1 DEF SoundState, Accounted
    <3> QED BY <2>2, <3>1, <3>2 DEF SoundState
  <2>5. ASSUME NEW m \in net, m.to = p, delivered[p][m.num] > 0
        PROVE  ~CanDerive(x, m.mac.gen)
    <3>1. m.mac.gen \in ChainKeys /\ ~CanDerive(y, m.mac.gen)
      BY <2>3, <2>5, MessageFields DEF KeysSpent
    <3>2. WellFormed(y)
      BY <2>2 DEF SoundState
    <3> QED BY <2>1, <3>1, <3>2 DEF Descends
  <2> QED BY <2>4, <2>5 DEF KeysSpent
<1>4. ASSUME NEW q \in Parties, NEW st \in Live(q)' PROVE SoundState(q, st)'
  <2>1. CASE q = p
    BY <1>1, <1>3, <1>4, <2>1
  <2>2. CASE q # p
    BY <1>2, <1>4, <2>2, LiveFacts, SoundStays
  <2> QED BY <2>1, <2>2
<1>5. OneSessionPerBaseKey'
  <2>1. DistinctBases(r)
    BY <1>0 DEF Evolves, Unused, SessionInv, OneSessionPerBaseKey
  <2> QED BY <1>1, <1>2, <2>1 DEF OneSessionPerBaseKey, SessionInv
<1>6. \A q \in Parties : \A k \in 1 .. MaxSent : delivered'[q][k] > 0 => k <= sent'[Peer(q)]
  <2>1. ASSUME NEW q \in Parties, NEW k \in 1 .. MaxSent, delivered[q][k] > 0
        PROVE  k <= sent'[Peer(q)]
    <3>1. k <= sent[Peer(q)] /\ Peer(q) \in Parties
      BY <2>1, KeyTypes DEF SessionInv
    <3>2. sent[Peer(q)] <= sent'[Peer(q)] /\ sent[Peer(q)] \in Int /\ sent'[Peer(q)] \in Int
      BY <1>0, <3>1 DEF TypeOK
    <3> QED BY <3>1, <3>2
  <2> QED BY <1>0, <2>1
<1>7. ASSUME NEW m \in net', delivered'[m.to][m.num] > 0
      PROVE  m \in net /\ m.to \in Parties /\ delivered[m.to][m.num] > 0
  BY <1>0, <1>7, MessageFields
<1>8. ForwardSecrecy'
  <2>1. ASSUME NEW m \in net', delivered'[m.to][m.num] > 0, NEW st \in Live(m.to)'
        PROVE  ~CanDerive(st, m.mac.gen)
    <3>1. m \in net /\ m.to \in Parties /\ delivered[m.to][m.num] > 0
      BY <1>7, <2>1
    <3>2. CASE m.to = p
      BY <1>1, <1>3, <2>1, <3>1, <3>2 DEF KeysSpent
    <3>3. CASE m.to # p
      BY <1>2, <2>1, <3>1, <3>3, LiveFacts DEF KeysSpent
    <3> QED BY <3>2, <3>3
  <2> QED BY <2>1 DEF ForwardSecrecy
<1>9. \A m \in net' : delivered'[m.to][m.num] > 0 => Exhausted(m.to, m.mac.gen.root.hs)'
  BY <1>7, SoundStays DEF SessionInv
<1>10. AtMostOnce'
  BY <1>0, ZenonT(40) DEF SessionInv, AtMostOnce
<1> QED BY <1>0, <1>4, <1>5, <1>6, <1>8, <1>9, <1>10 DEF SessionInv


\* A step that decrypts the message m with the session st, one of p's or one
\* that p creates for it, and returns the plaintext preserves SessionInv.
LEMMA DeliveryStep ==
  ASSUME TypeOK, TypeOK', SessionInv, Grows, UNCHANGED <<net, sent>>,
         NEW p \in Parties, NEW m \in net, m.to = p, Deliver(p, m),
         NEW st \in SessionStates, SoundState(p, st)', st \in Live(p) \/ Unused(p, st),
         NEW k \in Keys, decryptWithState(st, m, k).err = "ok",
         NEW r \in Records, record' = [record EXCEPT ![p] = r],
         r.current = decryptWithState(st, m, k).st,
         Archived(r) \subseteq Kept(record[p]), DistinctBases(r),
         \A x \in Archived(r) : x.base # st.base
  PROVE  SessionInv'
<1> DEFINE d == decryptWithState(st, m, k)
           hs == m.mac.gen.root.hs
<1>1. Live(p)' = LiveStates(r) /\ record'[p] = r
  BY Zenon DEF TypeOK, Live
<1>2. \A q \in Parties : q # p => Live(q)' = Live(q) /\ record'[q] = record[q]
  BY ZenonT(40) DEF TypeOK, Live
<1>3. /\ WellFormed(d.st) /\ CanDerive(st, m.mac.gen) /\ ~CanDerive(d.st, m.mac.gen)
      /\ \A g \in ChainKeys : CanDerive(d.st, g) => CanDerive(st, g)
      /\ d.st.base = st.base /\ d.st.root.hs = st.root.hs /\ d.st.pending = Nil
  <2>1. WellFormed(st) /\ m \in Messages
    BY MessageFields, Zenon DEF SoundState
  <2> QED BY <2>1, DecryptSpent, DecryptType
<1> HIDE DEF d
<1>4. st.root.hs = hs
  BY <1>3, Zenon DEF CanDerive
<1>5. KeysSpent(p, st)
  BY LiveFacts, ZenonT(40) DEF KeysSpent, Unused, CanDerive
<1>6. m.num \in 1 .. MaxSent /\ delivered[p][m.num] \in Nat /\ delivered[p][m.num] = 0
  <2>1. m.num \in 1 .. MaxSent /\ delivered[p][m.num] \in Nat
    <3>1. m.num \in 1 .. MaxSent /\ delivered[p] \in [1 .. MaxSent -> Nat]
      BY MessageFields, Zenon DEF TypeOK
    <3> QED BY <3>1, Zenon
  <2>2. ~(delivered[p][m.num] > 0)
    BY <1>3, <1>5, ZenonT(40) DEF KeysSpent
  <2> QED BY <2>1, <2>2
<1>7. /\ delivered'[p][m.num] = 1
      /\ \A j \in 1 .. MaxSent : j # m.num => delivered'[p][j] = delivered[p][j]
      /\ \A q \in Parties : q # p => delivered'[q] = delivered[q]
  <2> DEFINE f == [delivered[p] EXCEPT ![m.num] = delivered[p][m.num] + 1]
  <2>1. delivered' = [delivered EXCEPT ![p] = f]
    BY DeliverType, Zenon
  <2>2. /\ delivered \in [Parties -> [1 .. MaxSent -> Nat]]
        /\ delivered[p] \in [1 .. MaxSent -> Nat]
    BY ZenonT(40) DEF TypeOK
  <2>3. f[m.num] = 1 /\ \A j \in 1 .. MaxSent : j # m.num => f[j] = delivered[p][j]
    BY <1>6, <2>2
  <2> HIDE DEF f
  <2> QED BY <2>1, <2>2, <2>3
<1>8. ASSUME NEW x \in Archived(r)
      PROVE  SoundState(p, x)' /\ KeysSpent(p, x) /\ ~CanDerive(x, m.mac.gen)
  <2>1. PICK y \in Live(p) : Descends(x, y)
    <3>1. record[p] \in Records
      BY Zenon DEF TypeOK
    <3> QED BY <1>8, <3>1, KeptDescends, Zenon DEF Live
  <2>2. SoundState(p, y)' /\ KeysSpent(p, y)
    BY LiveFacts, SoundStays, Zenon
  <2>3. SoundState(p, x)'
    <3>1. /\ x.base = y.base /\ x.root.hs = y.root.hs /\ WellFormed(x)
          /\ x.pending \in {Nil, y.pending}
      BY <2>1, <2>2, ZenonT(40) DEF Descends, SoundState
    <3>2. Accounted(p, x)'
      BY <2>2, <3>1 DEF SoundState, Accounted
    <3> QED BY <2>2, <3>1, <3>2, Zenon DEF SoundState
  <2>4. ASSUME NEW n \in net, n.to = p, delivered[p][n.num] > 0
        PROVE  ~CanDerive(x, n.mac.gen)
    <3>1. n.mac.gen \in ChainKeys /\ ~CanDerive(y, n.mac.gen)
      BY <2>2, <2>4, MessageFields, Zenon DEF KeysSpent
    <3>2. WellFormed(y)
      BY <2>2, Zenon DEF SoundState
    <3> QED BY <2>1, <3>1, <3>2, Zenon DEF Descends
  <2>5. x.root.hs # st.root.hs
    BY <1>8, <2>3, Zenon DEF SoundState
  <2>6. ~CanDerive(x, m.mac.gen)
    BY <1>4, <2>5, Zenon DEF CanDerive
  <2> QED BY <2>3, <2>4, <2>6 DEF KeysSpent
<1>9. SoundState(p, d.st)' /\ KeysSpent(p, d.st)
  <2>1. Accounted(p, d.st)'
    BY <1>3, Zenon DEF SoundState, Accounted
  <2>2. SoundState(p, d.st)'
    BY <1>3, <2>1, Zenon DEF SoundState
  <2> QED BY <1>3, <1>5, <2>2, MessageFields, Zenon DEF KeysSpent
<1>10. ASSUME NEW x \in LiveStates(r)
       PROVE  SoundState(p, x)' /\ KeysSpent(p, x) /\ ~CanDerive(x, m.mac.gen)
  <2>1. x = d.st \/ x \in Archived(r)
    BY <1>10, LiveCases DEF d
  <2> QED BY <1>3, <1>8, <1>9, <2>1, Zenon
<1>11. ASSUME NEW q \in Parties, NEW x \in Live(q)' PROVE SoundState(q, x)'
  <2>1. CASE q = p
    BY <1>1, <1>10, <1>11, <2>1, Zenon
  <2>2. CASE q # p
    BY <1>2, <1>11, <2>2, LiveFacts, SoundStays, ZenonT(40)
  <2> QED BY <2>1, <2>2, Zenon
<1>12. OneSessionPerBaseKey'
  BY <1>1, <1>2 DEF OneSessionPerBaseKey, SessionInv
<1>13. (\A n \in net : SoundMessage(n))'
  BY Zenon DEF SoundMessage, SessionInv
<1>14. \A q \in Parties : \A j \in 1 .. MaxSent : delivered'[q][j] > 0 => j <= sent'[Peer(q)]
  <2>1. m.num <= sent[Peer(p)]
    BY Zenon DEF SessionInv, SoundMessage
  <2> QED BY <1>7, <2>1, Zenon DEF SessionInv
<1>15. ASSUME NEW n \in net, delivered'[n.to][n.num] > 0
       PROVE  n = m \/ delivered[n.to][n.num] > 0
  <2>1. n.to \in Parties /\ n.num \in 1 .. MaxSent
    BY MessageFields, Zenon
  <2>2. n.to = p /\ n.num = m.num => n = m
    BY Zenon DEF SessionInv
  <2> QED BY <1>7, <1>15, <2>1, <2>2, Zenon
<1>16. ForwardSecrecy'
  <2>1. ASSUME NEW n \in net, delivered'[n.to][n.num] > 0, NEW x \in Live(n.to)'
        PROVE  ~CanDerive(x, n.mac.gen)
    <3>1. CASE n = m
      BY <1>1, <1>10, <2>1, <3>1, Zenon
    <3>2. CASE delivered[n.to][n.num] > 0 /\ n.to = p
      BY <1>1, <1>10, <2>1, <3>2 DEF KeysSpent
    <3>3. CASE delivered[n.to][n.num] > 0 /\ n.to # p
      BY <1>2, <2>1, <3>3, LiveFacts, MessageFields, Zenon DEF KeysSpent
    <3> QED BY <1>15, <2>1, <3>1, <3>2, <3>3, Zenon
  <2> QED BY <2>1, Zenon DEF ForwardSecrecy
<1>17. Exhausted(p, hs)'
  BY <1>4, Zenon DEF SoundState, Accounted, Exhausted
<1>18. \A n \in net : delivered'[n.to][n.num] > 0 => Exhausted(n.to, n.mac.gen.root.hs)'
  BY <1>15, <1>17, SoundStays, MessageFields, ZenonT(40) DEF SessionInv
<1>19. AtMostOnce'
  <2>1. AtMostOnce
    BY DEF SessionInv
  <2> QED BY <1>7, <2>1, SMTT(20) DEF AtMostOnce
<1>20. \A m1, m2 \in net : m1.to = m2.to /\ m1.num = m2.num => m1 = m2
  BY Zenon DEF SessionInv
<1> QED BY <1>11, <1>12, <1>13, <1>14, <1>16, <1>18, <1>19, <1>20 DEF SessionInv


\* A step that leaves the network, the deliveries and everything generated and
\* seen as they are, and changes one record without a new session.
LEMMA LocalStep ==
  ASSUME TypeOK, TypeOK', SessionInv, Grows, UNCHANGED <<net, sent, delivered>>,
         NEW p \in Parties, NEW r, record' = [record EXCEPT ![p] = r], Evolves(p, r, {})
  PROVE  SessionInv'
<1>1. \A m \in net' : SoundMessage(m)'
  BY ZenonT(40) DEF SoundMessage, SessionInv
<1>2. \A m1, m2 \in net' : m1.to = m2.to /\ m1.num = m2.num => m1 = m2
  BY DEF SessionInv
<1>3. \A q \in Parties : sent[q] <= sent'[q]
  BY DEF TypeOK
<1>4. Sends
  BY <1>1, <1>2, <1>3 DEF Sends
<1>5. Addable(p, {})
  BY DEF Addable
<1> QED BY <1>4, <1>5, QuietStep, Zenon

\* The same for a step that changes no record at all.
LEMMA IdleStep ==
  ASSUME TypeOK, TypeOK', SessionInv, Grows, UNCHANGED <<net, sent, delivered, record>>
  PROVE  SessionInv'
<1>1. Alice \in Parties
  BY DEF Parties
<1>2. PICK r : r = record[Alice]
  OBVIOUS
<1>3. record' = [record EXCEPT ![Alice] = r] /\ Evolves(Alice, r, {})
  BY <1>1, <1>2, SameEvolves, Zenon DEF TypeOK
<1> QED BY <1>1, <1>3, LocalStep, Zenon

\* The base key of a session ProcessPreKeyBundle creates was never used, and the
\* session is sealed to a Kyber key of the peer.
LEMMA NewSessionUnused ==
  ASSUME TypeOK, NEW p \in Parties, NEW id \in PreKeyIDs \cup {Nil}
  PROVE  /\ ~Generated(p, NewSession(p, id).base)
         /\ ~Exhausted(p, NewSession(p, id).root.hs)
<1>1. PICK st : st = NewSession(p, id)
  BY Zenon
<1>2. /\ st.base = KeyPair(p, fresh[p]) /\ BaseOf(st.root.hs) = st.base
      /\ KyberOf(st.root.hs) = KyberPreKey(Peer(p))
  BY <1>1, NewSessionProperties
<1>3. fresh[p] \in Nat
  BY DEF TypeOK
<1>4. ~Generated(p, st.base)
  BY <1>2, <1>3 DEF Generated, KeyPair
<1>5. /\ KyberOf(st.root.hs) # KyberPreKey(p)
      /\ \A i : KyberOf(st.root.hs) # <<"kyber", p, i, 0>>
  BY <1>2, KeyTypes DEF KyberPreKey
<1> QED BY <1>1, <1>2, <1>4, <1>5, Zenon DEF Exhausted

\* A session that DecryptPreKey creates for a base key that the Kyber store has
\* not seen has a new handshake secret.
LEMMA AcceptedUnused ==
  ASSUME TypeOK, SessionInv, NEW p \in Parties, NEW m \in net, m.to = p, m.pre # Nil,
         m.pre.base \notin baseKeysSeen[p]
  PROVE  ~Exhausted(p, recipientPreKeyState(p, m.pre).root.hs)
<1>1. PICK st : st = recipientPreKeyState(p, m.pre)
  BY Zenon
<1>2. m.pre.ct.by = m.pre.base /\ PeersKey(p, m.pre.base)
  BY Zenon DEF SessionInv, SoundMessage
<1>3. BaseOf(st.root.hs) = m.pre.base /\ KyberOf(st.root.hs) = KyberPreKey(p)
  BY <1>1, <1>2, AcceptedState, Zenon
<1>4. ~Generated(p, m.pre.base)
  <2>1. m.pre.base[2] = Peer(p) /\ Peer(p) # p
    BY <1>2, KeyTypes, Zenon DEF PeersKey
  <2>2. \A n : KeyPair(p, n)[2] = p
    BY DEF KeyPair
  <2> QED BY <2>1, <2>2, Zenon DEF Generated
<1>5. \A i \in 0 .. installation[p] - 1 : KyberPreKey(p) # <<"kyber", p, i, 0>>
  <2>1. installation[p] \in Nat
    BY DEF TypeOK
  <2> QED BY <2>1 DEF KyberPreKey
<1> QED BY <1>1, <1>3, <1>4, <1>5, Zenon DEF Exhausted

\* ProcessPreKeyBundle: the new session has a base key nobody has used.
LEMMA ProcessSafe ==
  ASSUME TypeOK, TypeOK', SessionInv, NEW p \in Parties, ProcessPreKeyBundle(p)
  PROVE  SessionInv'
<1>1. PICK id \in (PreKeyIDs \ issued[Peer(p)]) \cup {Nil} :
        \/ ProcessRejected(p, id)
        \/ \E last \in {Nothing, Removed, Stored} : ProcessAccepted(p, id, last)
  BY DEF ProcessPreKeyBundle
<1>2. CASE ProcessRejected(p, id)
  <2>1. Grows
    BY <1>2, SameGrows, Zenon DEF ProcessRejected, stores
  <2> QED BY <1>2, <2>1, IdleStep DEF ProcessRejected, stores
<1>3. ASSUME NEW last \in {Nothing, Removed, Stored}, ProcessAccepted(p, id, last)
      PROVE  SessionInv'
  <2>0. /\ fresh' = [fresh EXCEPT ![p] = fresh[p] + 2]
        /\ UNCHANGED <<baseKeysSeen, installation, net, sent, delivered>>
        /\ fresh \in [Parties -> Nat] /\ fresh[p] \in Nat /\ installation[p] \in Nat
    BY <1>3 DEF ProcessAccepted, TypeOK
  <2>1. Grows
    BY <2>0 DEF Grows
  <2>2. PICK st : st = NewSession(p, id)
    BY ZenonT(40)
  <2>3. /\ st \in SessionStates /\ st.base = KeyPair(p, fresh[p])
        /\ st.pending.ct.by = st.base
        /\ BaseOf(st.root.hs) = st.base /\ KyberOf(st.root.hs) = KyberPreKey(Peer(p))
        /\ WellFormed(st)
    BY <2>2, NewSessionProperties
  <2>4. PICK r \in Records : record' = [record EXCEPT ![p] = r] /\ Evolves(p, r, {st})
    BY <1>3, <2>2, ProcessRecord, Zenon
  <2>5. Generated(p, st.base)'
    <3>1. fresh'[p] = fresh[p] + 2
      BY <2>0, Zenon
    <3>2. PICK n : n = fresh[p]
      OBVIOUS
    <3>3. n \in 0 .. fresh'[p] - 1
      BY <2>0, <3>1, <3>2
    <3>4. st.base = KeyPair(p, n)
      BY <2>3, <3>2, Zenon
    <3> QED BY <3>3, <3>4, Zenon DEF Generated, KeyPair
  <2>6. SoundState(p, st)'
    BY <2>3, <2>5, ZenonT(40) DEF SoundState, Accounted
  <2>7. ~Generated(p, st.base) /\ ~Exhausted(p, st.root.hs)
    BY <2>2, NewSessionUnused
  <2>8. ~PeersKey(p, st.base)
    BY <2>3, KeyTypes DEF PeersKey, KeyPair
  <2>9. ASSUME NEW x \in Live(p) PROVE x.base # st.base
    BY <2>7, <2>8, <2>9, LiveFacts, Zenon DEF SoundState, Accounted
  <2>10. Unused(p, st)
    BY <2>7, <2>9, Zenon DEF Unused, SessionInv
  <2>11. \A m \in net' : SoundMessage(m)'
    BY <2>0, Zenon DEF SoundMessage, SessionInv
  <2>12. \A m1, m2 \in net' : m1.to = m2.to /\ m1.num = m2.num => m1 = m2
    BY <2>0, Zenon DEF SessionInv
  <2>13. \A q \in Parties : sent[q] <= sent'[q]
    BY <2>0 DEF TypeOK
  <2>14. Addable(p, {st})
    BY <2>6, <2>10, SMTT(20) DEF Addable
  <2>15. Sends
    BY <2>0, <2>11, <2>12, <2>13 DEF Sends
  <2> QED BY <2>1, <2>4, <2>14, <2>15, QuietStep, Zenon
<1> QED BY <1>1, <1>2, <1>3

\* Encrypt: the new message has the next number, and its pre-key part, if any,
\* names a base key of its sender.
LEMMA EncryptSafe ==
  ASSUME TypeOK, TypeOK', SessionInv, NEW p \in Parties, Encrypt(p)
  PROVE  SessionInv'
<1>1. CASE EncryptNoSession(p)
  <2>1. Grows
    BY <1>1, SameGrows, Zenon DEF EncryptNoSession, stores
  <2> QED BY <1>1, <2>1, IdleStep DEF EncryptNoSession, stores
<1>2. CASE EncryptRejected(p)
  <2>1. Grows
    BY <1>2, SameGrows, Zenon DEF EncryptRejected
  <2>2. PICK r \in Records : record' = [record EXCEPT ![p] = r] /\ Evolves(p, r, {})
    BY <1>2, EncryptRecord
  <2> QED BY <1>2, <2>1, <2>2, LocalStep, Zenon DEF EncryptRejected
<1>3. ASSUME NEW last \in {Nothing, Removed, Stored}, EncryptAccepted(p, last)
      PROVE  SessionInv'
  <2> DEFINE q == Peer(p)
             st == record[p].current
             m == MessageOf(p, st)
  <2>1. Grows
    BY <1>3 DEF EncryptAccepted, Grows, TypeOK
  <2>2. PICK r \in Records : record' = [record EXCEPT ![p] = r] /\ Evolves(p, r, {})
    BY <1>3, EncryptRecord
  <2>3. CASE ~Completed(last)
    BY <1>3, <2>1, <2>2, <2>3, LocalStep, Zenon DEF EncryptAccepted
  <2>4. CASE Completed(last)
    <3>1. /\ net' = net \cup {m} /\ sent' = [sent EXCEPT ![p] = sent[p] + 1]
          /\ UNCHANGED delivered
      BY <1>3, <2>4, ZenonT(40) DEF EncryptAccepted
    <3>2. /\ q \in Parties /\ Peer(q) = p /\ q # p /\ sent \in [Parties -> 0 .. MaxSent]
          /\ sent[p] \in Nat /\ sent[p] + 1 \in 1 .. MaxSent
      BY <1>3, KeyTypes, SessionAssumption DEF TypeOK, EncryptAccepted
    <3>3. sent'[p] = sent[p] + 1 /\ \A x \in Parties : x # p => sent'[x] = sent[x]
      BY <3>1, <3>2
    <3>4. \A x \in Parties : sent[x] \in Nat /\ sent'[x] \in Nat /\ sent[x] <= sent'[x]
      BY <3>2, <3>3
    <3>5. /\ m.to = q /\ m.num = sent[p] + 1
          /\ m.pre # Nil => /\ st.pending # Nil /\ m.pre.base = st.base
                            /\ m.pre.ct = st.pending.ct
      BY Zenon DEF MessageOf
    <3>6. st \in Live(p)
      <4>1. record[p] \in Records /\ st # Nil
        BY <1>3, Zenon DEF TypeOK, EncryptAccepted
      <4> QED BY <4>1, RecordFields, Zenon DEF Live
    <3>7. st.pending # Nil => st.pending.ct.by = st.base /\ st.base[2] = p
      BY <3>6, LiveFacts DEF SoundState, Generated, KeyPair
    <3> HIDE DEF m, st
    <3>8. ASSUME NEW n \in net' PROVE SoundMessage(n)'
      <4>1. CASE n = m
        BY <3>2, <3>3, <3>5, <3>7, <4>1 DEF SoundMessage, PeersKey
      <4>2. CASE n \in net
        <5>1. n.to \in Parties /\ n.num \in Int /\ Peer(n.to) \in Parties
          BY <4>2, MessageFields, KeyTypes
        <5>2. SoundMessage(n)
          BY <4>2, Zenon DEF SessionInv
        <5>3. n.num <= sent'[Peer(n.to)]
          BY <3>4, <5>1, <5>2 DEF SoundMessage
        <5> QED BY <5>2, <5>3 DEF SoundMessage, PeersKey
      <4> QED BY <3>1, <3>8, <4>1, <4>2, Zenon
    <3>9. ASSUME NEW n \in net, n.to = q PROVE n.num # m.num
      <4>1. n.num <= sent[p] /\ n.num \in Int
        BY <3>2, <3>9, MessageFields, SMTT(20) DEF SessionInv, SoundMessage
      <4> QED BY <3>2, <3>5, <4>1, SMTT(20)
    <3>10. \A m1, m2 \in net' : m1.to = m2.to /\ m1.num = m2.num => m1 = m2
      BY <3>1, <3>5, <3>9, SMTT(20) DEF SessionInv
    <3>11. delivered[q][m.num] = 0
      <4>1. m.num \in 1 .. MaxSent /\ delivered[q] \in [1 .. MaxSent -> Nat]
        BY <3>2, <3>5, ZenonT(40) DEF TypeOK
      <4>2. delivered[q][m.num] > 0 => m.num <= sent[p]
        BY <3>2, <4>1 DEF SessionInv
      <4>3. delivered[q][m.num] \in Nat
        BY <4>1, ZenonT(40)
      <4> QED BY <3>2, <3>5, <4>2, <4>3
    <3>12. Sends
      BY <3>1, <3>4, <3>5, <3>8, <3>10, <3>11 DEF Sends
    <3>13. Addable(p, {})
      BY DEF Addable
    <3> QED BY <2>1, <2>2, <3>12, <3>13, QuietStep, Zenon
  <2> QED BY <2>3, <2>4
<1> QED BY <1>1, <1>2, <1>3 DEF Encrypt

\* Decrypt: the current session moves past the message it returns.
LEMMA DecryptSafe ==
  ASSUME TypeOK, TypeOK', SessionInv, NEW p \in Parties, NEW m \in net, Decrypt(p, m)
  PROVE  SessionInv'
<1> DEFINE d == DecryptResult(p, m)
           r == SetCurrentState(record[p], d.st)
<1>1. CASE d.err # "ok"
  <2>1. UNCHANGED <<record, fresh, delivered, baseKeysSeen, installation, net, sent>>
    BY <1>1, Zenon DEF Decrypt
  <2>2. Grows
    BY <2>1 DEF Grows, TypeOK
  <2> QED BY <2>1, <2>2, IdleStep, Zenon
<1>2. CASE d.err = "ok"
  <2>1. UseRatchet(p, d.st) /\ UNCHANGED <<baseKeysSeen, installation, net, sent>>
    BY <1>2, SMTT(20) DEF Decrypt
  <2>2. Grows
    BY <2>1, UseRatchetType DEF Grows
  <2>3. /\ Evolves(p, r, {}) /\ Evolves(p, Mutated(p, r), {}) /\ r \in Records
    BY <1>2, DecryptRecord
  <2>4. CASE UNCHANGED delivered
    <3>1. PICK n : record' = [record EXCEPT ![p] = n] /\ Evolves(p, n, {})
      <4> HIDE DEF r, d
      <4>1. \/ record' = [record EXCEPT ![p] = r]
            \/ record' = [record EXCEPT ![p] = Mutated(p, r)]
        BY <1>2 DEF Decrypt, r, d
      <4> QED BY <2>3, <4>1
    <3> QED BY <2>1, <2>2, <2>4, <3>1, LocalStep, Zenon
  <2>5. CASE Deliver(p, m) /\ record' = [record EXCEPT ![p] = r]
    <3>1. PICK st, k, n : st = record[p].current /\ k = NewRatchet(p) /\ n = r
      OBVIOUS
    <3>2. /\ st \in SessionStates /\ st # Nil /\ d = decryptWithState(st, m, k)
          /\ d.st \in SessionStates /\ k \in Keys
      BY <1>2, <3>1, DecryptResultType, KeyTypes, Zenon
    <3>3. record[p] \in Records
      BY DEF TypeOK
    <3>4. st \in Live(p)
      BY <3>1, <3>2, <3>3, RecordFields, Zenon DEF Live
    <3>5. SoundState(p, st)'
      BY <2>2, <3>4, LiveFacts, SoundStays
    <3> HIDE DEF d, r
    <3>6. n \in Records /\ n.current = d.st /\ Archived(n) = Archived(record[p])
      <4>1. n = SetCurrentState(record[p], d.st)
        BY <3>1 DEF r
      <4> QED BY <3>2, <3>3, <4>1, SetCurrentProperties, Zenon
    <3>7. Archived(n) \subseteq Kept(record[p])
      BY <3>6, ZenonT(40) DEF Archived, Kept, LiveStates
    <3>8. DistinctBases(record[p])
      BY DEF SessionInv, OneSessionPerBaseKey
    <3>9. DistinctBases(n)
      BY <2>3, <3>1, <3>8, Zenon DEF Evolves
    <3>10. \A x \in Archived(n) : x.base # st.base
      BY <3>1, <3>2, <3>6, <3>8, ZenonT(40) DEF DistinctBases, Archived
    <3>11. /\ decryptWithState(st, m, k).err = "ok"
           /\ n.current = decryptWithState(st, m, k).st
      BY <1>2, <3>2, <3>6
    <3>12. m.to = p /\ record' = [record EXCEPT ![p] = n] /\ Deliver(p, m)
           /\ UNCHANGED <<net, sent>>
      BY <2>1, <2>5, <3>1, Zenon DEF Decrypt
    <3> QED BY <2>2, <3>2, <3>4, <3>5, <3>6, <3>7, <3>9, <3>10, <3>11, <3>12, DeliveryStep, Zenon
  <2> QED BY <1>2, <2>4, <2>5, Zenon DEF Decrypt
<1> QED BY <1>1, <1>2


\* DecryptPreKey: a session it creates has a base key that the Kyber store has
\* not seen and remembers from then on.
LEMMA PreKeySafe ==
  ASSUME TypeOK, TypeOK', SessionInv, NEW p \in Parties, NEW m \in net, DecryptPreKey(p, m)
  PROVE  SessionInv'
<1> DEFINE w == PreKeyResult(p, m)
<1>0. m.to = p /\ m.pre # Nil /\ UNCHANGED <<installation, net, sent>>
  BY DEF DecryptPreKey
<1>1. CASE DecryptPreKeyRejected(p, m) \/ DecryptPreKeyReused(p, m)
  <2>1. UNCHANGED <<record, baseKeysSeen, fresh, delivered>>
    BY <1>1 DEF DecryptPreKeyRejected, DecryptPreKeyReused, stores
  <2>2. Grows
    BY <1>0, <2>1 DEF Grows, TypeOK
  <2> QED BY <1>0, <2>1, <2>2, IdleStep
<1>2. ASSUME NEW last \in Nothing .. Stored, DecryptPreKeyCommit(p, m, last)
      PROVE  SessionInv'
  <2>1. /\ w.err = "ok" /\ (w.matched \/ m.pre.base \notin baseKeysSeen[p])
        /\ UseRatchet(p, w.r.current)
        /\ baseKeysSeen' = [baseKeysSeen EXCEPT ![p] =
                              IF ~w.matched /\ last >= Marked
                              THEN baseKeysSeen[p] \cup {m.pre.base} ELSE baseKeysSeen[p]]
        /\ record' = [record EXCEPT ![p] = IF last = Stored THEN w.r ELSE record[p]]
        /\ IF Completed(last) THEN Deliver(p, m) ELSE UNCHANGED delivered
    BY <1>2 DEF DecryptPreKeyCommit, BaseKeyReused
  <2>2. PICK st \in SessionStates : ResumedOrNew(p, m, w, st)
    BY <1>0, <2>1, PreKeyResultProperties, ZenonT(40)
  <2> HIDE DEF w
  <2>3. Grows
    <3>1. \A q \in Parties : baseKeysSeen[q] \subseteq baseKeysSeen'[q]
      BY <2>1, Zenon DEF TypeOK
    <3> QED BY <1>0, <2>1, <3>1, UseRatchetType DEF Grows
  <2>4. CASE last # Stored
    <3>1. UNCHANGED <<record, delivered>>
      BY <2>1, <2>4, Zenon DEF Completed, TypeOK
    <3> QED BY <1>0, <2>3, <3>1, IdleStep
  <2>5. CASE last = Stored
    <3>1. PICK r, k : r = w.r /\ k = NewRatchet(p)
      OBVIOUS
    <3>2. /\ st.base = m.pre.base /\ decryptWithState(st, m, k).err = "ok"
          /\ r \in Records /\ r.current = decryptWithState(st, m, k).st
          /\ Archived(r) \subseteq Kept(record[p])
          /\ DistinctBases(record[p]) =>
                DistinctBases(r) /\ \A x \in Archived(r) : x.base # st.base
          /\ w.matched => st \in Live(p)
          /\ ~w.matched => /\ st = recipientPreKeyState(p, m.pre)
                           /\ \A x \in Live(p) : x.base # st.base
      BY <2>2, <3>1, Zenon DEF ResumedOrNew
    <3>3. DistinctBases(r) /\ \A x \in Archived(r) : x.base # st.base
      BY <3>2, ZenonT(40) DEF SessionInv, OneSessionPerBaseKey
    <3>4. k \in Keys /\ Deliver(p, m) /\ record' = [record EXCEPT ![p] = r]
      BY <2>1, <2>5, <3>1, KeyTypes DEF Completed
    <3>5. SoundState(p, st)' /\ (st \in Live(p) \/ Unused(p, st))
      <4>1. CASE w.matched
        BY <2>3, <3>2, <4>1, LiveFacts, SoundStays, Zenon
      <4>2. CASE ~w.matched
        <5>1. /\ m.pre \in PreParts /\ m.pre.ct.by = m.pre.base /\ PeersKey(p, m.pre.base)
              /\ m.pre.id \in PreKeyIDs \cup {Nil}
          BY <1>0, MessageFields, Zenon DEF SessionInv, SoundMessage
        <5>2. /\ st.pending = Nil /\ BaseOf(st.root.hs) = st.base
              /\ KyberOf(st.root.hs) = KyberPreKey(p) /\ WellFormed(st)
          BY <1>0, <3>2, <4>2, <5>1, AcceptedState, Zenon
        <5>3. st.base \notin baseKeysSeen[p] /\ st.base \in baseKeysSeen'[p]
          <6>1. last >= Marked /\ baseKeysSeen[p] \in SUBSET Keys
            BY <2>5 DEF Marked, Stored, TypeOK
          <6>2. baseKeysSeen'[p] = baseKeysSeen[p] \cup {m.pre.base}
            BY <2>1, <4>2, <6>1, Zenon DEF TypeOK
          <6> QED BY <2>1, <3>2, <4>2, <6>2, Zenon
        <5>4. KyberPreKey(p)' = KyberPreKey(p)
          BY <2>3, SoundStays
        <5>5. SoundState(p, st)'
          BY <3>2, <5>1, <5>2, <5>3, <5>4, Zenon
             DEF SoundState, Accounted, PeersKey
        <5>6. ~Exhausted(p, st.root.hs)
          BY <1>0, <3>2, <4>2, <5>3, AcceptedUnused, Zenon
        <5> QED BY <3>2, <4>2, <5>5, <5>6, Zenon DEF Unused, SessionInv
      <4> QED BY <4>1, <4>2
    <3>6. m.to = p /\ UNCHANGED <<net, sent>>
      BY <1>0
    <3>7. /\ decryptWithState(st, m, k).err = "ok" /\ r \in Records
          /\ r.current = decryptWithState(st, m, k).st
          /\ Archived(r) \subseteq Kept(record[p])
      BY <3>2, Zenon
    <3> QED BY <2>3, <3>3, <3>4, <3>5, <3>6, <3>7, DeliveryStep, Zenon
  <2> QED BY <2>4, <2>5, Zenon
<1> QED BY <1>1, <1>2 DEF DecryptPreKey

\* What a party can create no more stays so when one of them reinstalls: the old
\* Kyber key is gone.
LEMMA ReinstallExhausts ==
  ASSUME TypeOK, NEW p \in Parties, Reinstall(p)
  PROVE  \A q \in Parties : \A hs : Exhausted(q, hs) => Exhausted(q, hs)'
<1>1. /\ installation' = [installation EXCEPT ![p] = installation[p] + 1]
      /\ baseKeysSeen' = [baseKeysSeen EXCEPT ![p] = {}] /\ UNCHANGED fresh
  BY Zenon DEF Reinstall
<1>2. \A q \in Parties : q # p => /\ baseKeysSeen'[q] = baseKeysSeen[q]
                                  /\ installation'[q] = installation[q]
  BY <1>1, Zenon DEF TypeOK
<1>3. installation[p] \in Nat /\ installation'[p] = installation[p] + 1
  BY <1>1 DEF TypeOK
<1>4. ASSUME NEW q \in Parties, NEW key, Generated(q, key) PROVE Generated(q, key)'
  BY <1>1, <1>4, Zenon DEF Generated, KeyPair
<1>5. ASSUME NEW q \in Parties, NEW hs, Exhausted(q, hs) PROVE Exhausted(q, hs)'
  <2>1. CASE q # p
    <3>1. /\ KyberPreKey(q)' = KyberPreKey(q) /\ baseKeysSeen'[q] = baseKeysSeen[q]
          /\ installation'[q] = installation[q]
      BY <1>2, <2>1 DEF KyberPreKey
    <3> QED BY <1>4, <1>5, <3>1, Zenon DEF Exhausted
  <2>2. CASE q = p
    <3>1. CASE Generated(q, BaseOf(hs))
      BY <1>4, <3>1, Zenon DEF Exhausted
    <3>2. CASE KyberOf(hs) = KyberPreKey(q)
      <4>1. PICK i : i = installation[p]
        OBVIOUS
      <4>2. i \in 0 .. installation'[p] - 1 /\ KyberOf(hs) = <<"kyber", p, i, 0>>
        BY <1>3, <2>2, <3>2, <4>1 DEF KyberPreKey
      <4> QED BY <2>2, <4>2 DEF Exhausted
    <3>3. CASE \E i \in 0 .. installation[q] - 1 : KyberOf(hs) = <<"kyber", q, i, 0>>
      <4>1. PICK i \in 0 .. installation[q] - 1 : KyberOf(hs) = <<"kyber", q, i, 0>>
        BY <3>3
      <4>2. i \in 0 .. installation'[q] - 1
        BY <1>3, <2>2
      <4> QED BY <4>1, <4>2 DEF Exhausted
    <3> QED BY <1>5, <3>1, <3>2, <3>3, Zenon DEF Exhausted
  <2> QED BY <2>1, <2>2, Zenon
<1> QED BY <1>5

\* Reinstall: the new installation holds no session, and what the old one had
\* accepted was sealed to a Kyber key that is gone.
LEMMA ReinstallSafe ==
  ASSUME TypeOK, TypeOK', SessionInv, NEW p \in Parties, Reinstall(p)
  PROVE  SessionInv'
<1>1. /\ installation' = [installation EXCEPT ![p] = installation[p] + 1]
      /\ record' = [record EXCEPT ![p] = NewFreshSessionRecord]
      /\ baseKeysSeen' = [baseKeysSeen EXCEPT ![p] = {}]
      /\ UNCHANGED <<fresh, net, sent, delivered>>
  BY Zenon DEF Reinstall
<1>2. /\ record'[p] = NewFreshSessionRecord /\ Live(p)' = {}
      /\ \A q \in Parties : q # p =>
            /\ record'[q] = record[q] /\ Live(q)' = Live(q)
            /\ baseKeysSeen'[q] = baseKeysSeen[q] /\ installation'[q] = installation[q]
  BY <1>1, FreshRecord, Zenon DEF TypeOK, Live
<1>3. ASSUME NEW q \in Parties, NEW key, Generated(q, key) PROVE Generated(q, key)'
  BY <1>1, <1>3, ZenonT(40) DEF Generated, KeyPair
<1>4. ASSUME NEW q \in Parties, NEW st \in Live(q)' PROVE SoundState(q, st)'
  <2>1. q # p /\ st \in Live(q)
    BY <1>2, <1>4
  <2>2. SoundState(q, st)
    BY <2>1, LiveFacts
  <2>3. KyberPreKey(q)' = KyberPreKey(q) /\ baseKeysSeen'[q] = baseKeysSeen[q]
    BY <1>2, <2>1 DEF KyberPreKey
  <2> QED BY <1>3, <2>2, <2>3 DEF SoundState, Accounted
<1>5. \A q \in Parties : \A hs : Exhausted(q, hs) => Exhausted(q, hs)'
  BY ReinstallExhausts
<1>6. OneSessionPerBaseKey'
  BY <1>2, FreshRecord, Zenon DEF OneSessionPerBaseKey, SessionInv
<1>7. (\A m \in net : SoundMessage(m))'
  BY <1>1, Zenon DEF SoundMessage, SessionInv
<1>8. ForwardSecrecy'
  <2>1. ASSUME NEW m \in net, delivered[m.to][m.num] > 0, NEW st \in Live(m.to)'
        PROVE  ~CanDerive(st, m.mac.gen)
    <3>1. m.to \in Parties
      BY MessageFields, ZenonT(40)
    <3>2. m.to # p /\ st \in Live(m.to)
      BY <1>2, <2>1, <3>1
    <3> QED BY <2>1, <3>1, <3>2, Zenon DEF SessionInv, ForwardSecrecy
  <2> QED BY <1>1, <2>1, Zenon DEF ForwardSecrecy
<1>9. \A m \in net : delivered[m.to][m.num] > 0 => Exhausted(m.to, m.mac.gen.root.hs)'
  BY <1>5, MessageFields, Zenon DEF SessionInv
<1>10. AtMostOnce'
  BY <1>1, Zenon DEF SessionInv, AtMostOnce
<1>11. /\ \A m1, m2 \in net : m1.to = m2.to /\ m1.num = m2.num => m1 = m2
       /\ \A q \in Parties : \A k \in 1 .. MaxSent : delivered[q][k] > 0 => k <= sent[Peer(q)]
  BY Zenon DEF SessionInv
<1> QED BY <1>1, <1>4, <1>6, <1>7, <1>8, <1>9, <1>10, <1>11, Zenon DEF SessionInv


\* Every step preserves SessionInv.
LEMMA NextSafe ==
  ASSUME TypeOK, TypeOK', SessionInv, [Next]_vars
  PROVE  SessionInv'
<1>1. ASSUME NEW p \in Parties, ArchiveSession(p) PROVE SessionInv'
  <2>1. Grows
    BY <1>1, SameGrows, Zenon DEF ArchiveSession
  <2>2. PICK r : record' = [record EXCEPT ![p] = r] /\ Evolves(p, r, {})
    BY <1>1, ArchiveEvolves, Zenon DEF ArchiveSession
  <2> QED BY <1>1, <2>1, <2>2, LocalStep, Zenon DEF ArchiveSession
<1>2. CASE Tick \/ UNCHANGED vars \/ \E p \in Parties : Reset(p)
  <2>1. UNCHANGED <<record, baseKeysSeen, fresh, installation, net, sent, delivered>>
    BY <1>2 DEF Tick, Reset, vars, stores
  <2>2. Grows
    BY <2>1, SameGrows
  <2> QED BY <2>1, <2>2, IdleStep, ZenonT(40)
<1> QED BY <1>1, <1>2, ProcessSafe, EncryptSafe, DecryptSafe, PreKeySafe, ReinstallSafe DEF Next

\* The initial state satisfies SessionInv.
LEMMA InitSafe ==
  ASSUME Init
  PROVE  SessionInv
<1>1. \A p \in Parties : record[p] = NewFreshSessionRecord /\ Live(p) = {}
  BY FreshRecord DEF Init, Live
<1>2. OneSessionPerBaseKey
  BY <1>1, FreshRecord DEF OneSessionPerBaseKey
<1>3. net = {} /\ \A p \in Parties : \A k \in 1 .. MaxSent : delivered[p][k] = 0
  BY DEF Init
<1>4. AtMostOnce
  BY <1>3 DEF AtMostOnce
<1>5. ForwardSecrecy
  BY <1>3, Zenon DEF ForwardSecrecy
<1>6. \A p \in Parties : \A k \in 1 .. MaxSent : delivered[p][k] > 0 => k <= sent[Peer(p)]
  BY <1>3
<1> QED BY <1>1, <1>2, <1>3, <1>4, <1>5, <1>6, Zenon DEF SessionInv

\* The inductive invariant: sessions are well-formed and accounted for, and the
\* handshake of every delivered message is exhausted.
THEOREM SessionInvariant == Spec => []SessionInv
<1>1. Init => SessionInv
  BY InitSafe
<1>2. TypeOK /\ TypeOK' /\ SessionInv /\ [Next]_vars => SessionInv'
  BY NextSafe
<1> QED BY <1>1, <1>2, TypeCorrect, PTL DEF Spec

\* Decrypt and DecryptPreKey never return a plaintext twice, whatever the
\* network replays, however many sessions, archives, faults and reinstallations.
THEOREM DeliveredAtMostOnce == Spec => []AtMostOnce
<1>1. SessionInv => AtMostOnce
  BY DEF SessionInv
<1> QED BY <1>1, SessionInvariant, PTL

\* After a message was decrypted no session its receiver holds can compute its
\* key again.
THEOREM DeliveredKeysForgotten == Spec => []ForwardSecrecy
<1>1. SessionInv => ForwardSecrecy
  BY DEF SessionInv
<1> QED BY <1>1, SessionInvariant, PTL

\* A record never holds two sessions of one base key.
THEOREM SessionsDistinct == Spec => []OneSessionPerBaseKey
<1>1. SessionInv => OneSessionPerBaseKey
  BY DEF SessionInv
<1> QED BY <1>1, SessionInvariant, PTL

-----------------------------------------------------------------------------
(***************************************************************************)
(* Trust on first use.                                                     *)
(***************************************************************************)
\* A pre-key message that decrypts comes from a trusted identity.
LEMMA PreKeyTrusted ==
  ASSUME NEW p, NEW m, PreKeyResult(p, m).err = "ok"
  PROVE  IsTrustedIdentity(p, m.pre.identity)
<1>1. Working(p, m).err = "ok"
  BY DEF PreKeyResult
<1>2. ~IsTrustedIdentity(p, m.pre.identity) => Working(p, m).err = "ErrUntrustedIdentity"
  BY DEF Working
<1> QED BY <1>1, <1>2

\* A recorded identity is replaced only by clearing it: ProcessPreKeyBundle,
\* Encrypt and DecryptPreKey save the identity they have just found trusted.
THEOREM IdentityPinned == Spec => TrustOnFirstUse
<1> DEFINE Pinned == \A p \in Parties : known[p] # Nil => known'[p] \in {Nil, known[p]}
<1>1. ASSUME TypeOK, NEW p \in Parties, NEW identity, IsTrustedIdentity(p, identity),
             known' = [known EXCEPT ![p] = identity]
      PROVE  Pinned
  BY <1>1 DEF IsTrustedIdentity, TypeOK
<1>2. ASSUME TypeOK, UNCHANGED known PROVE Pinned
  BY <1>2, Zenon
<1>3. ASSUME TypeOK, NEW p \in Parties, NEW identity, IsTrustedIdentity(p, identity),
             NEW last, known' = [known EXCEPT ![p] = IF last >= Saved THEN identity ELSE @]
      PROVE  Pinned
  BY <1>3 DEF IsTrustedIdentity, TypeOK
<1>4. ASSUME TypeOK, NEW p \in Parties, ProcessPreKeyBundle(p) PROVE Pinned
  <2>1. PICK id : \/ ProcessRejected(p, id)
                  \/ \E last \in {Nothing, Removed, Stored} : ProcessAccepted(p, id, last)
    BY <1>4 DEF ProcessPreKeyBundle
  <2>2. CASE ProcessRejected(p, id)
    BY <1>2, <1>4, <2>2 DEF ProcessRejected, stores
  <2>3. ASSUME NEW last, ProcessAccepted(p, id, last) PROVE Pinned
    <3>1. PICK i : i = Bundle(Peer(p), id).identity
      BY Zenon
    <3>2. /\ IsTrustedIdentity(p, i)
          /\ known' = [known EXCEPT ![p] = IF last >= Saved THEN i ELSE @]
      BY <2>3, <3>1, Zenon DEF ProcessAccepted
    <3> QED BY <1>3, <1>4, <3>2, Zenon
  <2> QED BY <2>1, <2>2, <2>3, Zenon
<1>5. ASSUME TypeOK, NEW p \in Parties, Encrypt(p) PROVE Pinned
  <2>1. CASE EncryptNoSession(p) \/ EncryptRejected(p)
    BY <1>2, <1>5, <2>1, Zenon DEF EncryptNoSession, EncryptRejected, stores
  <2>2. ASSUME NEW last, EncryptAccepted(p, last) PROVE Pinned
    <3>1. PICK i : i = record[p].current.remote
      OBVIOUS
    <3>2. /\ IsTrustedIdentity(p, i)
          /\ known' = [known EXCEPT ![p] = IF last >= Saved THEN i ELSE @]
      BY <2>2, <3>1 DEF EncryptAccepted
    <3> QED BY <1>3, <1>5, <3>2, Zenon
  <2> QED BY <1>5, <2>1, <2>2, Zenon DEF Encrypt
<1>6. ASSUME TypeOK, NEW p \in Parties, NEW m \in net, DecryptPreKey(p, m) PROVE Pinned
  <2>1. CASE DecryptPreKeyRejected(p, m)
    BY <1>2, <1>6, <2>1 DEF DecryptPreKeyRejected, stores
  <2>2. CASE DecryptPreKeyReused(p, m)
    BY <1>1, <1>6, <2>2, PreKeyTrusted, Zenon DEF DecryptPreKeyReused
  <2>3. ASSUME NEW last, DecryptPreKeyCommit(p, m, last) PROVE Pinned
    <3>1. /\ IsTrustedIdentity(p, m.pre.identity)
          /\ known' = [known EXCEPT ![p] = IF last >= Saved THEN m.pre.identity ELSE @]
      BY <2>3, PreKeyTrusted DEF DecryptPreKeyCommit
    <3> QED BY <1>3, <1>6, <3>1, ZenonT(40)
  <2> QED BY <1>6, <2>1, <2>2, <2>3, Zenon DEF DecryptPreKey
<1>7. ASSUME TypeOK, NEW p \in Parties, NEW m \in net, Decrypt(p, m) PROVE Pinned
  BY <1>2, <1>7, ZenonT(40) DEF Decrypt
<1>8. ASSUME TypeOK, NEW p \in Parties, Reset(p) \/ Reinstall(p) PROVE Pinned
  BY <1>8 DEF Reset, Reinstall, TypeOK
<1>9. ASSUME TypeOK, NEW p \in Parties, ArchiveSession(p) PROVE Pinned
  BY <1>2, <1>9, Zenon DEF ArchiveSession
<1>10. ASSUME TypeOK, Tick \/ UNCHANGED vars PROVE Pinned
  BY <1>2, <1>10 DEF Tick, vars, stores
<1> HIDE DEF Pinned
<1>11. TypeOK /\ [Next]_vars => [Pinned]_vars
  BY <1>4, <1>5, <1>6, <1>7, <1>8, <1>9, <1>10 DEF Next
<1> QED BY <1>11, TypeCorrect, PTL DEF Spec, TrustOnFirstUse, Pinned

-----------------------------------------------------------------------------
\* A step that returns the plaintext of m returns one that the peer sent and
\* that was not returned before.
LEMMA ReturnedOnce ==
  ASSUME TypeOK, SessionInv, SessionInv', NEW p \in Parties, NEW m \in net, m.to = p,
         Deliver(p, m), UNCHANGED sent
  PROVE  \E k \in 1 .. MaxSent : Channel!Receive(p, k)
<1>1. /\ m.num \in 1 .. MaxSent /\ delivered \in [Parties -> [1 .. MaxSent -> Nat]]
      /\ m.num <= sent[Peer(p)] /\ Peer(p) \in Parties \ {p}
  BY MessageFields, KeyTypes, Zenon DEF TypeOK, SessionInv, SoundMessage
<1>2. PICK f : f = [delivered[p] EXCEPT ![m.num] = delivered[p][m.num] + 1]
  BY Zenon
<1>3. delivered' = [delivered EXCEPT ![p] = f]
  BY <1>2, DeliverType, Zenon
<1>4. delivered[p][m.num] \in Nat /\ f[m.num] = delivered[p][m.num] + 1
  BY <1>1, <1>2, Zenon
<1>5. f[m.num] <= 1
  <2>1. delivered'[p] = f
    BY <1>1, <1>3, Zenon
  <2> QED BY <1>1, <2>1, Zenon DEF SessionInv, AtMostOnce
<1>6. delivered[p][m.num] = 0 /\ f = [delivered[p] EXCEPT ![m.num] = 1]
  BY <1>2, <1>4, <1>5
<1> QED BY <1>1, <1>3, <1>6, Zenon DEF Channel!Receive

\* The session package implements a secure channel: for all bounds, caps,
\* budgets and faults, its steps are steps of SecureChannel or invisible.
THEOREM SessionImplementsChannel == Spec => ImplementsChannel
<1> DEFINE Visible == <<sent, delivered>>
<1>1. Init => Channel!Init
  BY DEF Init, Channel!Init
<1>2. ASSUME TypeOK, SessionInv, SessionInv', [Next]_vars
      PROVE  [Channel!Next]_Visible
  <2>1. ASSUME NEW p \in Parties, ProcessPreKeyBundle(p) PROVE UNCHANGED Visible
    BY <2>1 DEF ProcessPreKeyBundle, ProcessRejected, ProcessAccepted
  <2>2. ASSUME NEW p \in Parties, Encrypt(p) PROVE UNCHANGED Visible \/ Channel!Send(p)
    <3>1. CASE EncryptNoSession(p) \/ EncryptRejected(p)
      BY <3>1, Zenon DEF EncryptNoSession, EncryptRejected
    <3>2. ASSUME NEW last, EncryptAccepted(p, last)
          PROVE  UNCHANGED Visible \/ Channel!Send(p)
      <4>1. /\ sent[p] < MaxSent /\ UNCHANGED delivered
            /\ sent' = IF Completed(last) THEN [sent EXCEPT ![p] = @ + 1] ELSE sent
        BY <3>2, Zenon DEF EncryptAccepted
      <4> QED BY <4>1, Zenon DEF Channel!Send
    <3> QED BY <2>2, <3>1, <3>2, Zenon DEF Encrypt
  <2>3. ASSUME NEW p \in Parties, NEW m \in net, Decrypt(p, m) \/ DecryptPreKey(p, m)
        PROVE  UNCHANGED Visible \/ \E k \in 1 .. MaxSent : Channel!Receive(p, k)
    <3>1. m.to = p /\ UNCHANGED sent
      BY <2>3, Zenon DEF Decrypt, DecryptPreKey
    <3>2. UNCHANGED delivered \/ Deliver(p, m)
      <4>1. CASE Decrypt(p, m)
        BY <4>1, Zenon DEF Decrypt
      <4>2. CASE DecryptPreKey(p, m)
        BY <4>2, Zenon DEF DecryptPreKey, DecryptPreKeyRejected, DecryptPreKeyReused,
                           DecryptPreKeyCommit
      <4> QED BY <2>3, <4>1, <4>2
    <3> QED BY <1>2, <3>1, <3>2, ReturnedOnce, Zenon
  <2>4. ASSUME NEW p \in Parties, ArchiveSession(p) \/ Reset(p) \/ Reinstall(p)
        PROVE  UNCHANGED Visible
    BY <2>4, Zenon DEF ArchiveSession, Reset, Reinstall
  <2>5. CASE Tick \/ UNCHANGED vars
    BY <2>5 DEF Tick, vars
  <2> HIDE DEF Visible
  <2> QED BY <1>2, <2>1, <2>2, <2>3, <2>4, <2>5, Zenon DEF Next, Channel!Next
<1>3. QED BY <1>1, <1>2, TypeCorrect, SessionInvariant, PTL DEF Spec, ImplementsChannel, Channel!Spec

=============================================================================
