-------------------------- MODULE SessionKeyProofs --------------------------
(***************************************************************************)
(* Two messages never share a key: the keys of a session only move         *)
(* forward, the two ends of a session use disjoint keys, and no session is *)
(* ever created twice.                                                     *)
(***************************************************************************)
EXTENDS SessionProofs

-----------------------------------------------------------------------------
(***************************************************************************)
(* What the handlers do to the sending half of a session: x is a later     *)
(* stage of y.                                                             *)
(***************************************************************************)
Follows(x, y) ==
    /\ x.base = y.base /\ x.remote = y.remote /\ x.root.hs = y.root.hs
    /\ x.pq.dir = y.pq.dir /\ y.pq.send.ctr <= x.pq.send.ctr
    /\ y.ck.root = y.root => x.ck.root = x.root
    /\ Len(x.root.dh) % 2 = Len(y.root.dh) % 2
    /\ \/ Len(y.root.dh) < Len(x.root.dh)
       \/ Len(y.root.dh) = Len(x.root.dh) /\ y.ck.n <= x.ck.n

\* p was sent a message of the handshake hs.
HeardFrom(p, hs) == \E m \in net : m.to = p /\ m.mac.gen.root.hs = hs

\* The root key of a session of p stayed, or a message brought its next step.
StepsOn(p, x, y) ==
    \/ x.root = y.root
    \/ \E m \in net : /\ m.to = p /\ m.mac.gen.root.hs = y.root.hs
                      /\ OneFurther(m.mac.gen.root.dh, y.root.dh)
                      /\ OneFurther(x.root.dh, m.mac.gen.root.dh)

\* The current session of r has a pending pre-key message, as it has in the
\* record of p, unless p was sent a message of it.
Acknowledged(p, r) ==
    (r.current # Nil /\ Initiated(p, r.current) /\ r.current.pending = Nil)
        => \/ /\ record[p].current # Nil /\ Follows(r.current, record[p].current)
              /\ record[p].current.pending = Nil
           \/ HeardFrom(p, r.current.root.hs)

\* The sessions of r are new or later stages of sessions of p.
Onward(p, r, new) ==
    /\ \A x \in LiveStates(r) :
          x \in new \/ \E y \in Live(p) : Follows(x, y) /\ StepsOn(p, x, y)
    /\ Acknowledged(p, r)

\* Two steps keep the parity.
LEMMA TwoSteps ==
  \A n \in Nat : (n + 2) % 2 = n % 2 /\ n < n + 2
  OBVIOUS

\* The numbers that Follows compares.
LEMMA SenderFields ==
  ASSUME NEW st \in SessionStates
  PROVE  /\ Len(st.root.dh) \in Nat /\ st.ck.n \in Nat /\ st.pq.send.ctr \in Nat
         /\ st.pq \in PQStates /\ st.base \in Keys
<1>1. st.ck \in ChainKeys /\ st.pq \in PQStates /\ Len(st.root.dh) \in Nat /\ st.base \in Keys
  BY StateFields
<1> QED BY <1>1 DEF ChainKeys, PQStates, Directions

\* A session whose sending half did not change.
LEMMA SameSenderFollows ==
  ASSUME NEW x \in SessionStates, NEW y \in SessionStates,
         x.base = y.base, x.remote = y.remote, x.root = y.root, x.ck = y.ck,
         x.pq.dir = y.pq.dir, x.pq.send = y.pq.send
  PROVE  Follows(x, y)
<1>1. Len(y.root.dh) \in Nat /\ y.ck.n \in Nat /\ y.pq.send.ctr \in Nat
  BY SenderFields
<1> QED BY <1>1 DEF Follows

\* The sessions that archiving keeps.
LEMMA KeptFollows ==
  ASSUME NEW r \in Records, NEW x \in Kept(r)
  PROVE  \E y \in LiveStates(r) : Follows(x, y) /\ x.root = y.root
<1>1. LiveStates(r) \subseteq SessionStates
  BY RecordFields
<1>2. CASE x \in LiveStates(r)
  BY <1>1, <1>2, SameSenderFollows
<1>3. CASE \E y \in LiveStates(r) : x = ClearUnacknowledgedPreKeyMessage(y)
  <2>1. PICK y \in LiveStates(r) : x = ClearUnacknowledgedPreKeyMessage(y)
    BY <1>3
  <2>2. y \in SessionStates
    BY <1>1
  <2>3. /\ x \in SessionStates /\ x.base = y.base /\ x.remote = y.remote
        /\ x.root = y.root /\ x.ck = y.ck /\ x.pq = y.pq
    BY <2>1, <2>2, ClearProperties
  <2> QED BY <2>2, <2>3, SameSenderFollows
<1> QED BY <1>2, <1>3 DEF Kept

\* A DH ratchet step replaces the sender chain by one of a root key two
\* Diffie-Hellman steps further on.
LEMMA StepFollows ==
  ASSUME NEW st \in SessionStates, NEW theirs \in Keys, NEW ourNew \in Keys
  PROVE  Follows(getOrCreateChainKey(st, theirs, ourNew), st)
<1> DEFINE st1 == getOrCreateChainKey(st, theirs, ourNew)
           receiverRoot == CreateChain(st.root, theirs, st.ratchet)
           senderRoot == CreateChain(receiverRoot, theirs, ourNew)
<1>1. CASE receiverChainIndex(st, theirs) # 0
  <2>1. st1 = st
    BY <1>1 DEF getOrCreateChainKey
  <2> QED BY <2>1, SameSenderFollows
<1>2. CASE receiverChainIndex(st, theirs) = 0
  <2>1. /\ st1.base = st.base /\ st1.remote = st.remote
        /\ st1.pq = st.pq /\ st1.root.hs = st.root.hs
    BY RatchetStepType
  <2>2. st1.root = senderRoot /\ st1.ck = NewChainKey(senderRoot)
    BY <1>2 DEF getOrCreateChainKey, SessionStates
  <2>3. st.root \in Roots /\ st.ratchet \in Keys
    BY StateFields
  <2>4. receiverRoot \in Roots /\ Len(receiverRoot.dh) = Len(st.root.dh) + 1
    BY <2>3, KeyScheduleType, Zenon
  <2> HIDE DEF receiverRoot
  <2>5. senderRoot \in Roots /\ Len(senderRoot.dh) = Len(receiverRoot.dh) + 1
    BY <2>4, KeyScheduleType, Zenon
  <2>6. NewChainKey(senderRoot).root = senderRoot
    BY DEF NewChainKey
  <2>7. Len(st.root.dh) \in Nat /\ st.pq.send.ctr \in Nat
    BY SenderFields
  <2> HIDE DEF senderRoot, st1
  <2>8. Len(st1.root.dh) = Len(st.root.dh) + 2 /\ st1.ck.root = st1.root
    BY <2>2, <2>4, <2>5, <2>6, <2>7
  <2>9. Len(st1.root.dh) % 2 = Len(st.root.dh) % 2 /\ Len(st.root.dh) < Len(st1.root.dh)
    BY <2>7, <2>8, TwoSteps, Zenon
  <2>10. st.pq.send.ctr <= st.pq.send.ctr
    BY <2>7
  <2> QED BY <2>1, <2>8, <2>9, <2>10, Zenon DEF Follows, st1
<1> QED BY <1>1, <1>2, RatchetStepType, ChainSearch

\* The receiving half of the SPQR ratchet leaves the sending half alone.
LEMMA ReceiveKeepsSender ==
  ASSUME NEW st \in SessionStates, NEW index \in Nat
  PROVE  LET x == PQRatchetRecv(st, index).st
         IN  x.pq.dir = st.pq.dir /\ x.pq.send = st.pq.send
<1>1. CASE index = 0
  BY <1>1 DEF PQRatchetRecv
<1>2. CASE index # 0
  <2> DEFINE k == DirectionKey(st.pq.recv, index, ChainParams)
  <2>1. PQRatchetRecv(st, index).st = [st EXCEPT !.pq = [@ EXCEPT !.recv = k.d]]
    BY <1>2 DEF PQRatchetRecv
  <2> HIDE DEF k
  <2>2. st.pq \in PQStates
    BY SenderFields
  <2> QED BY <2>1, <2>2 DEF SessionStates, PQStates
<1> QED BY <1>1, <1>2, Zenon

\* Follows composes with a change that leaves the sending half alone.
LEMMA FollowsOn ==
  ASSUME NEW x, NEW y, NEW z, Follows(y, z),
         x.base = y.base, x.remote = y.remote, x.root = y.root, x.ck = y.ck,
         x.pq.dir = y.pq.dir, x.pq.send = y.pq.send
  PROVE  Follows(x, z)
  BY Zenon DEF Follows

\* decryptWithState makes at most a DH ratchet step of the sending half.
LEMMA DecryptFollows ==
  ASSUME NEW st \in SessionStates, NEW m \in Messages, NEW ourNew \in Keys
  PROVE  Follows(decryptWithState(st, m, ourNew).st, st)
<1> DEFINE st1 == Stepped(st, m, ourNew)
           i   == UsedChain(st, m, ourNew)
           mk  == UsedKeys(st, m, ourNew)
           st2 == [st1 EXCEPT !.recv = [@ EXCEPT ![i] = mk.chain]]
           rcv == PQRatchetRecv(st2, m.pqIndex)
           d   == decryptWithState(st, m, ourNew)
<1>1. m.ratchet \in Keys /\ m.counter \in Nat /\ m.pqIndex \in Nat
  BY DEF Messages
<1>2. st1 \in SessionStates /\ i \in 1 .. Len(st1.recv)
  BY <1>1, RatchetStepType, Zenon DEF Stepped, UsedChain
<1>3. d.st = ClearUnacknowledgedPreKeyMessage(rcv.st)
  BY DEF decryptWithState, Stepped, UsedChain, UsedKeys
<1>4. Follows(st1, st)
  BY <1>1, StepFollows DEF Stepped
<1> HIDE DEF st1, i
<1>5. st1.recv[i] \in Chains /\ st1.recv \in Seq(Chains)
  BY <1>2, StateFields, Zenon
<1>6. mk.chain \in Chains
  BY <1>1, <1>5, MessageKeysType DEF UsedKeys, st1, i
<1> HIDE DEF mk, d
<1>7. [st1.recv EXCEPT ![i] = mk.chain] \in Seq(Chains)
  BY <1>2, <1>5, <1>6, SeqExcept
<1>8. /\ st2 \in SessionStates /\ st2.base = st1.base /\ st2.remote = st1.remote
      /\ st2.root = st1.root /\ st2.ck = st1.ck /\ st2.pq = st1.pq
  BY <1>2, <1>7, Zenon DEF SessionStates
<1> HIDE DEF st2
<1>9. PICK pq \in PQStates : rcv.st = [st2 EXCEPT !.pq = pq]
  BY <1>1, <1>8, PQRatchetType
<1>10. rcv.st.pq.dir = st2.pq.dir /\ rcv.st.pq.send = st2.pq.send
  BY <1>1, <1>8, ReceiveKeepsSender, Zenon
<1> HIDE DEF rcv
<1>11. /\ rcv.st \in SessionStates /\ rcv.st.base = st2.base /\ rcv.st.remote = st2.remote
       /\ rcv.st.root = st2.root /\ rcv.st.ck = st2.ck
  BY <1>8, <1>9, Zenon DEF SessionStates
<1>12. /\ d.st.base = rcv.st.base /\ d.st.remote = rcv.st.remote
       /\ d.st.root = rcv.st.root /\ d.st.ck = rcv.st.ck /\ d.st.pq = rcv.st.pq
  BY <1>3, <1>11, ClearProperties, Zenon
<1> QED BY <1>4, <1>8, <1>10, <1>11, <1>12, FollowsOn, Zenon DEF d

\* Encrypt draws the next SPQR key, then the next chain key.
LEMMA SendFollows ==
  ASSUME NEW st \in SessionStates
  PROVE  LET half == PQRatchetSend(st)
             full == [half EXCEPT !.ck = NextChainKey(@)]
         IN  /\ Follows(half, st) /\ half.root = st.root /\ half.pending = st.pending
             /\ Follows(full, st) /\ full.root = st.root /\ full.pending = st.pending
             /\ full.pq.send.ctr = st.pq.send.ctr + 1
             /\ full.ck.n = st.ck.n + 1
<1> DEFINE half == PQRatchetSend(st)
           full == [half EXCEPT !.ck = NextChainKey(@)]
           send == DirectionNextKey(st.pq.send)
<1>1. /\ Len(st.root.dh) \in Nat /\ st.ck.n \in Nat /\ st.pq.send.ctr \in Nat
      /\ st.pq \in PQStates /\ st.ck \in ChainKeys
  BY SenderFields, StateFields
<1>2. half = [st EXCEPT !.pq = [st.pq EXCEPT !.send = send]]
  BY DEF PQRatchetSend
<1>3. send.ctr = st.pq.send.ctr + 1
  BY <1>1 DEF DirectionNextKey, PQStates, Directions
<1> HIDE DEF send, half
<1>4. /\ half.base = st.base /\ half.remote = st.remote /\ half.pending = st.pending
      /\ half.root = st.root /\ half.ck = st.ck
      /\ half.pq = [st.pq EXCEPT !.send = send]
      /\ half.pq.dir = st.pq.dir /\ half.pq.send = send
  BY <1>1, <1>2 DEF SessionStates, PQStates
<1>5. /\ NextChainKey(st.ck).root = st.ck.root /\ NextChainKey(st.ck).n = st.ck.n + 1
  BY DEF NextChainKey, Advance
<1>6. /\ full.base = st.base /\ full.remote = st.remote /\ full.pending = st.pending
      /\ full.root = st.root /\ full.ck = NextChainKey(st.ck) /\ full.pq = half.pq
  BY <1>2, <1>4 DEF SessionStates
<1> HIDE DEF full
<1>7. Follows(half, st)
  BY <1>1, <1>3, <1>4 DEF Follows
<1>8. Follows(full, st)
  BY <1>1, <1>3, <1>4, <1>5, <1>6 DEF Follows
<1> QED BY <1>3, <1>4, <1>5, <1>6, <1>7, <1>8, Zenon DEF half, full

\* One Diffie-Hellman output is appended.
LEMMA ChainFurther ==
  ASSUME NEW root \in Roots, NEW a \in Keys, NEW b \in Keys
  PROVE  OneFurther(CreateChain(root, a, b).dh, root.dh)
<1>1. PICK s, x : s = root.dh /\ x = DH(a, b)
  BY Zenon
<1>2. s \in Seq(SUBSET Keys) /\ x \in SUBSET Keys
  BY <1>1 DEF Roots, DH
<1>3. CreateChain(root, a, b).dh = Append(s, x)
  BY <1>1 DEF CreateChain, Roots
<1>4. /\ Len(s) \in Nat /\ Len(Append(s, x)) = Len(s) + 1
      /\ \A i \in 1 .. Len(s) : Append(s, x)[i] = s[i]
  BY <1>2, SeqFunction, SeqAppend
<1> QED BY <1>1, <1>3, <1>4 DEF OneFurther, Extends

\* A message that decryptWithState accepts belongs to the handshake of the
\* session; it is on a chain the session has, or on the chain of the root key
\* that the DH ratchet step passes on the way to its own new one.
LEMMA RootStep ==
  ASSUME NEW st \in SessionStates, NEW m \in Messages, NEW ourNew \in Keys, WellFormed(st),
         decryptWithState(st, m, ourNew).err = "ok"
  PROVE  LET x == decryptWithState(st, m, ourNew).st
         IN  /\ m.mac.gen.root.hs = st.root.hs
             /\ \/ x.root = st.root /\ st.recv # <<>>
                \/ /\ OneFurther(m.mac.gen.root.dh, st.root.dh)
                   /\ OneFurther(x.root.dh, m.mac.gen.root.dh)
<1> DEFINE d == decryptWithState(st, m, ourNew)
           st1 == Stepped(st, m, ourNew)
           i == UsedChain(st, m, ourNew)
           mk == UsedKeys(st, m, ourNew)
<1>1. m.mac.gen.root.hs = st.root.hs
  <2>1. CanDerive(st, m.mac.gen)
    BY DecryptSpent, ZenonT(40)
  <2> QED BY <2>1, Zenon DEF CanDerive
<1>2. mk.gen = m.mac.gen /\ d.st.root = st1.root /\ m.counter \in Nat /\ m.ratchet \in Keys
  <2>1. m.counter \in Nat /\ m.ratchet \in Keys
    BY DEF Messages
  <2>2. st1 \in SessionStates
    BY <2>1, RatchetStepType, Zenon DEF Stepped
  <2>3. mk.gen = m.mac.gen
    BY DecryptShape, ZenonT(40)
  <2>4. PICK pq \in PQStates :
          d.st = [st1 EXCEPT !.recv = [st1.recv EXCEPT ![i] = mk.chain], !.pq = pq, !.pending = Nil]
    BY DecryptShape, ZenonT(40)
  <2> HIDE DEF st1, mk, i, d
  <2>5. d.st.root = st1.root
    BY <2>2, <2>4 DEF SessionStates
  <2> QED BY <2>1, <2>3, <2>5, Zenon
<1>3. CASE receiverChainIndex(st, m.ratchet) # 0
  <2>1. st1 = st
    BY <1>3, Zenon DEF Stepped, getOrCreateChainKey
  <2>2. st.recv # <<>>
    <3>1. Len(st.recv) # 0
      BY <1>3, ChainSearch, StateFields
    <3> QED BY <3>1
  <2> QED BY <1>1, <1>2, <2>1, <2>2, Zenon
<1>4. CASE receiverChainIndex(st, m.ratchet) = 0
  <2>1. PICK receiverRoot, senderRoot, added :
          /\ receiverRoot = CreateChain(st.root, m.ratchet, st.ratchet)
          /\ senderRoot = CreateChain(receiverRoot, m.ratchet, ourNew)
          /\ added = AddReceiverChain(st.recv, m.ratchet, NewChainKey(receiverRoot))
    BY Zenon
  <2>2. st1.root = senderRoot /\ st1.recv = added
    BY <1>4, <2>1 DEF Stepped, getOrCreateChainKey, SessionStates
  <2>3. st.root \in Roots /\ st.ratchet \in Keys /\ st.recv \in Seq(Chains) /\ Len(st.recv) \in Nat
    BY StateFields
  <2>4. /\ receiverRoot \in Roots /\ OneFurther(receiverRoot.dh, st.root.dh)
        /\ NewChainKey(receiverRoot) \in ChainKeys /\ NewChainKey(receiverRoot).root = receiverRoot
        /\ OneFurther(senderRoot.dh, receiverRoot.dh)
    BY <1>2, <2>1, <2>3, KeyScheduleType, ChainFurther, Zenon
  <2>5. PICK drop \in {0, 1} :
          /\ added \in Seq(Chains) /\ Len(added) >= 1
          /\ added[Len(added)] = [ratchet |-> m.ratchet, ck |-> NewChainKey(receiverRoot),
                                  keys |-> <<>>]
          /\ Len(added) = Len(st.recv) + 1 - drop
          /\ \A j \in 1 .. Len(added) - 1 : added[j] = st.recv[j + drop]
    BY <1>2, <2>1, <2>3, <2>4, AddReceiverChainProperties, Zenon
  <2>6. i \in 1 .. Len(added) /\ added[i].ratchet = m.ratchet
    <3>1. st1 \in SessionStates /\ i \in 1 .. Len(st1.recv)
      BY <1>2, RatchetStepType, Zenon DEF Stepped, UsedChain
    <3>2. i # 0 => st1.recv[i].ratchet = m.ratchet
      <4> HIDE DEF st1
      <4> QED BY <3>1, ChainSearch DEF UsedChain, st1
    <3> HIDE DEF i, st1
    <3> QED BY <2>2, <3>1, <3>2
  <2>7. \A j \in 1 .. Len(st.recv) : st.recv[j].ratchet # m.ratchet
    BY <1>4, ChainSearch
  <2> HIDE DEF i, st1, mk, d
  <2>8. i = Len(added)
    <3>1. ASSUME i # Len(added) PROVE FALSE
      <4>1. PICK j : j = i + drop
        BY Zenon
      <4>2. i \in 1 .. Len(added) - 1 /\ j \in 1 .. Len(st.recv)
        BY <2>3, <2>5, <2>6, <3>1, <4>1
      <4> QED BY <2>5, <2>6, <2>7, <4>1, <4>2, Zenon
    <3> QED BY <3>1, Zenon
  <2>9. PICK c \in Chains : /\ c = added[i] /\ c.keys = <<>> /\ c.ck.root = receiverRoot
                            /\ mk = getOrCreateMessageKeys(c, m.counter)
    <3>1. added[i] \in Chains
      BY <2>5, <2>6, SeqElement
    <3> QED BY <2>2, <2>4, <2>5, <2>8, <3>1 DEF mk, UsedKeys, i, st1
  <2>10. mk.gen.root = receiverRoot
    <3>1. Len(c.keys) = 0
      BY <2>9
    <3>2. LET g == getOrCreateMessageKeys(c, m.counter)
          IN  \/ g.gen = c.ck \/ \E at \in 1 .. Len(c.keys) : g.gen = c.keys[at]
              \/ \E jump \in Nat : g.gen = Advance(c.ck, jump)
      BY <1>2, MessageKeysCases, Zenon
    <3>3. ~\E at \in 1 .. Len(c.keys) : TRUE
      BY <3>1
    <3>4. c.ck \in ChainKeys
      BY DEF Chains
    <3>5. \A jump \in Nat : Advance(c.ck, jump).root = c.ck.root
      BY <3>4 DEF Advance, ChainKeys
    <3> QED BY <2>9, <3>2, <3>3, <3>5, Zenon
  <2> QED BY <1>1, <1>2, <2>2, <2>4, <2>10, Zenon DEF d
<1> QED BY <1>3, <1>4

-----------------------------------------------------------------------------
(***************************************************************************)
(* What each handler does to the sessions of the party that runs it.       *)
(***************************************************************************)
\* The record keeps sessions in its archive, and its current session is new or a
\* later stage of one it held.
LEMMA OnwardFrom ==
  ASSUME TypeOK, NEW p \in Parties, NEW new, NEW r \in Records,
         Archived(r) \subseteq Kept(record[p]),
         r.current # Nil =>
             \/ r.current \in new
             \/ \E y \in Live(p) : Follows(r.current, y) /\ StepsOn(p, r.current, y),
         Acknowledged(p, r)
  PROVE  Onward(p, r, new)
<1>1. record[p] \in Records
  BY DEF TypeOK
<1>2. ASSUME NEW x \in LiveStates(r)
      PROVE  x \in new \/ \E y \in Live(p) : Follows(x, y) /\ StepsOn(p, x, y)
  <2>1. CASE x \in Archived(r)
    <3>1. \E y \in Live(p) : Follows(x, y) /\ x.root = y.root
      BY <1>1, <2>1, KeptFollows, Zenon DEF Live
    <3> QED BY <3>1, Zenon DEF StepsOn
  <2>2. CASE r.current # Nil /\ x = r.current
    BY <2>2, Zenon
  <2> QED BY <1>2, <2>1, <2>2, LiveCases
<1> QED BY <1>2, Zenon DEF Onward

\* The record may stay as it was.
LEMMA SameOnward ==
  ASSUME TypeOK, NEW p \in Parties, NEW new
  PROVE  Onward(p, record[p], new)
<1>1. record[p] \in Records
  BY DEF TypeOK
<1>2. \A x \in LiveStates(record[p]) : Follows(x, x) /\ StepsOn(p, x, x)
  BY <1>1, RecordFields, SameSenderFollows DEF StepsOn
<1>3. Acknowledged(p, record[p])
  BY <1>1, <1>2, RecordFields, Zenon DEF Acknowledged
<1> QED BY <1>2, <1>3, Zenon DEF Onward, Live

\* The current session moves on.
LEMMA SetCurrentOnward ==
  ASSUME TypeOK, NEW p \in Parties, record[p].current # Nil, NEW st \in SessionStates,
         Follows(st, record[p].current), StepsOn(p, st, record[p].current),
         st.pending = record[p].current.pending \/ HeardFrom(p, st.root.hs)
  PROVE  Onward(p, SetCurrentState(record[p], st), {})
<1> DEFINE n == SetCurrentState(record[p], st)
<1>1. record[p] \in Records /\ record[p].current \in Live(p)
  BY RecordFields DEF TypeOK, Live
<1>2. n \in Records /\ n.current = st /\ Archived(n) = Archived(record[p])
  BY <1>1, SetCurrentProperties
<1> HIDE DEF n
<1>3. Archived(n) \subseteq Kept(record[p])
  BY <1>2, Zenon DEF Archived, Kept, LiveStates
<1>4. Acknowledged(p, n)
  BY <1>2, Zenon DEF Acknowledged
<1> QED BY <1>1, <1>2, <1>3, <1>4, OnwardFrom, Zenon DEF n

\* A new session names the identity of the bundle and repeats the handshake.
LEMMA NewSessionPending ==
  ASSUME TypeOK, NEW p \in Parties, NEW id \in PreKeyIDs \cup {Nil}
  PROVE  /\ NewSession(p, id).pending # Nil
         /\ NewSession(p, id).remote = IdentityKey(Peer(p))
<1>1. PICK identity, b, base, ratchet : /\ identity = IdentityKey(p) /\ b = Bundle(Peer(p), id)
                                        /\ base = KeyPair(p, fresh[p])
                                        /\ ratchet = KeyPair(p, fresh[p] + 1)
  BY Zenon
<1>2. PICK st, ct : /\ st = initializeAliceSession(identity, base, ratchet, b)
                    /\ ct = Encapsulate(b.kyber, base)
  BY Zenon
<1>3. NewSession(p, id) = [st EXCEPT !.pending = [id |-> id, ct |-> ct, at |-> clock]]
  BY <1>1, <1>2, Zenon DEF NewSession, SetUnacknowledgedPreKeyMessage
<1>4. st.remote = b.identity /\ "pending" \in DOMAIN st /\ "remote" \in DOMAIN st
  BY <1>2 DEF initializeAliceSession
<1>5. /\ NewSession(p, id).pending = [id |-> id, ct |-> ct, at |-> clock]
      /\ NewSession(p, id).remote = b.identity
  BY <1>3, <1>4
<1>6. b.identity = IdentityKey(Peer(p)) /\ b.kyber \in Keys /\ base \in Keys /\ clock \in Nat
  BY <1>1, KeyTypes DEF Bundle, TypeOK
<1>7. ct \in Ciphertexts
  BY <1>2, <1>6 DEF Encapsulate, Ciphertexts
<1>8. [id |-> id, ct |-> ct, at |-> clock] \in Pendings
  BY <1>6, <1>7 DEF Pendings
<1> QED BY <1>5, <1>6, <1>8, PendingAssumption, Zenon

\* ProcessPreKeyBundle.
LEMMA ProcessOnward ==
  ASSUME TypeOK, NEW p \in Parties, NEW id \in PreKeyIDs \cup {Nil},
         NEW last \in {Nothing, Removed, Stored}, ProcessAccepted(p, id, last)
  PROVE  \E r : /\ record' = [record EXCEPT ![p] = r]
                /\ Onward(p, r, {NewSession(p, id)})
<1> DEFINE st == NewSession(p, id)
           n == PromoteState(record[p], st)
<1>1. st \in SessionStates /\ record[p] \in Records
  BY NewSessionProperties, Zenon DEF TypeOK
<1>2. record' = [record EXCEPT ![p] = CASE last = Stored -> n
                                        [] last = Removed -> Mutated(p, n)
                                        [] OTHER -> record[p]]
  BY DEF ProcessAccepted, NewSession
<1> HIDE DEF st
<1>3. n \in Records /\ n.current = st /\ Archived(n) \subseteq Kept(record[p])
  BY <1>1, PromoteProperties
<1>4. Mutated(p, n) \in {n, record[p]}
  BY MutatedIsEither
<1> HIDE DEF n
<1>5. Acknowledged(p, n)
  <2>1. st.pending # Nil
    BY NewSessionPending DEF st
  <2> QED BY <1>3, <2>1, Zenon DEF Acknowledged
<1>6. Onward(p, n, {st}) /\ Onward(p, record[p], {st})
  BY <1>3, <1>5, OnwardFrom, SameOnward, Zenon
<1>7. PICK r \in {n, record[p]} : record' = [record EXCEPT ![p] = r]
  <2> DEFINE r == CASE last = Stored -> n
                    [] last = Removed -> Mutated(p, n)
                    [] OTHER -> record[p]
  <2>1. r \in {n, record[p]}
    BY <1>4 DEF Nothing, Removed, Stored
  <2> QED BY <1>2, <2>1, Zenon
<1> QED BY <1>6, <1>7, Zenon DEF st

\* Encrypt, whether it succeeds, is rejected or meets a failing store; the
\* session is past both keys when the message leaves.
LEMMA EncryptOnward ==
  ASSUME TypeOK, NEW p \in Parties,
         \/ EncryptRejected(p)
         \/ \E last \in {Nothing, Removed, Stored} : EncryptAccepted(p, last)
  PROVE  \E r : record' = [record EXCEPT ![p] = r] /\ Onward(p, r, {})
<1> DEFINE st == record[p].current
           half == PQRatchetSend(st)
           full == [half EXCEPT !.ck = NextChainKey(@)]
           h == SetCurrentState(record[p], half)
           f == SetCurrentState(record[p], full)
<1>1. record[p] \in Records /\ st # Nil
  BY DEF TypeOK, EncryptRejected, EncryptAccepted
<1>2. st \in SessionStates
  BY <1>1, RecordFields
<1>3. /\ half \in SessionStates /\ Follows(half, st) /\ StepsOn(p, half, st)
      /\ full \in SessionStates /\ Follows(full, st) /\ StepsOn(p, full, st)
      /\ half.pending = st.pending /\ full.pending = st.pending
  <2> HIDE DEF st
  <2> QED BY <1>2, SendDescends, SendFollows, Zenon DEF StepsOn
<1>4. h.current = half /\ SetCurrentState(h, full) = f
  BY <1>1, Zenon DEF SetCurrentState, Records
<1>5. \/ record' = [record EXCEPT ![p] = Mutated(p, h)]
      \/ \E last \in {Nothing, Removed, Stored} :
            record' = [record EXCEPT ![p] = CASE last = Stored  -> f
                                             [] last = Removed -> Mutated(p, f)
                                             [] OTHER          -> Mutated(p, h)]
  <2>1. CASE EncryptRejected(p)
    BY <2>1 DEF EncryptRejected
  <2>2. ASSUME NEW last \in {Nothing, Removed, Stored}, EncryptAccepted(p, last)
        PROVE  record' = [record EXCEPT ![p] = CASE last = Stored  -> f
                                             [] last = Removed -> Mutated(p, f)
                                             [] OTHER          -> Mutated(p, h)]
    <3>1. SetCurrentState(h, [h.current EXCEPT !.ck = NextChainKey(@)]) = f
      BY <1>4
    <3> QED BY <2>2, <3>1, Zenon DEF EncryptAccepted
  <2> QED BY <2>1, <2>2
<1>6. Mutated(p, f) \in {f, record[p]} /\ Mutated(p, h) \in {h, record[p]}
  BY MutatedIsEither
<1> HIDE DEF half, full
<1>7. Onward(p, h, {}) /\ Onward(p, f, {}) /\ Onward(p, record[p], {})
  BY <1>1, <1>3, SetCurrentOnward, SameOnward
<1> HIDE DEF h, f
<1>8. PICK r \in {f, h, record[p]} : record' = [record EXCEPT ![p] = r]
  BY <1>5, <1>6 DEF Nothing, Removed, Stored
<1> QED BY <1>7, <1>8, Zenon

\* Decrypt, whether it succeeds, rejects the message or meets a failing store.
LEMMA DecryptOnward ==
  ASSUME TypeOK, SessionInv, NEW p \in Parties, NEW m \in net, Decrypt(p, m)
  PROVE  \E r : record' = [record EXCEPT ![p] = r] /\ Onward(p, r, {})
<1> DEFINE d == DecryptResult(p, m)
           r == SetCurrentState(record[p], d.st)
<1>1. CASE d.err # "ok"
  <2>1. UNCHANGED record
    BY <1>1, Zenon DEF Decrypt
  <2>2. record' = [record EXCEPT ![p] = record[p]]
    BY <2>1, Zenon DEF TypeOK
  <2> QED BY <2>2, SameOnward, Zenon
<1>2. CASE d.err = "ok"
  <2>1. PICK st : st = record[p].current
    OBVIOUS
  <2>2. /\ st # Nil /\ st \in SessionStates /\ d.st \in SessionStates
        /\ d = decryptWithState(st, m, NewRatchet(p))
    BY <1>2, <2>1, DecryptResultType, Zenon
  <2>3. /\ m \in Messages /\ NewRatchet(p) \in Keys /\ m.to = p
        /\ st \in Live(p)
    BY <2>1, <2>2, KeyTypes, MessageFields, RecordFields DEF Decrypt, TypeOK, Live
  <2>4. WellFormed(st)
    BY <2>3, LiveFacts, Zenon DEF SoundState
  <2> HIDE DEF d
  <2>5. Follows(d.st, st) /\ StepsOn(p, d.st, st) /\ HeardFrom(p, d.st.root.hs)
    <3>0. PICK ourNew \in Keys : d = decryptWithState(st, m, ourNew)
      BY <2>2, <2>3, Zenon
    <3>1. Follows(d.st, st) /\ d.st.root.hs = st.root.hs
      <4>1. Follows(decryptWithState(st, m, ourNew).st, st)
        BY <2>2, <2>3, DecryptFollows, Zenon
      <4> QED BY <3>0, <4>1, Zenon DEF Follows
    <3>2. /\ m.mac.gen.root.hs = st.root.hs
          /\ \/ d.st.root = st.root /\ st.recv # <<>>
             \/ /\ OneFurther(m.mac.gen.root.dh, st.root.dh)
                /\ OneFurther(d.st.root.dh, m.mac.gen.root.dh)
      <4>1. decryptWithState(st, m, ourNew).err = "ok"
        BY <1>2, <3>0, Zenon
      <4> QED BY <2>2, <2>3, <2>4, <3>0, <4>1, RootStep
    <3> QED BY <2>3, <3>1, <3>2, Zenon DEF StepsOn, HeardFrom
  <2>6. Onward(p, r, {}) /\ Onward(p, record[p], {})
    BY <2>1, <2>2, <2>5, SetCurrentOnward, SameOnward, Zenon
  <2> HIDE DEF r
  <2>7. \/ record' = [record EXCEPT ![p] = r]
        \/ record' = [record EXCEPT ![p] = Mutated(p, r)]
    BY <1>2 DEF Decrypt, r, d
  <2>8. PICK n \in {r, record[p]} : record' = [record EXCEPT ![p] = n]
    BY <2>7, MutatedIsEither
  <2> QED BY <2>6, <2>8, Zenon
<1> QED BY <1>1, <1>2

\* ArchiveCurrentState.
LEMMA ArchiveOnward ==
  ASSUME TypeOK, NEW p \in Parties
  PROVE  Onward(p, ArchiveCurrentState(record[p]), {})
<1>1. PICK r : r = ArchiveCurrentState(record[p])
  BY Zenon
<1>2. r \in Records /\ r.current = Nil /\ Archived(r) \subseteq Kept(record[p])
  BY <1>1, ArchiveProperties DEF TypeOK
<1>3. Acknowledged(p, r)
  BY <1>2, Zenon DEF Acknowledged
<1> QED BY <1>1, <1>2, <1>3, OnwardFrom, Zenon

\* DecryptPreKey: a new session has made its first DH ratchet step.
LEMMA PreKeyOnward ==
  ASSUME TypeOK, SessionInv, NEW p \in Parties, NEW m \in net, m.to = p, m.pre # Nil,
         NEW w, NEW st \in SessionStates, ResumedOrNew(p, m, w, st)
  PROVE  /\ Onward(p, w.r, IF w.matched THEN {} ELSE {w.r.current})
         /\ w.r.current \in SessionStates /\ Follows(w.r.current, st)
         /\ m.mac.gen.root.hs = st.root.hs
         /\ st.recv = <<>> => /\ OneFurther(m.mac.gen.root.dh, st.root.dh)
                              /\ OneFurther(w.r.current.root.dh, m.mac.gen.root.dh)
<1>1. PICK r, x : r = w.r /\ x = r.current
  OBVIOUS
<1>2. /\ r \in Records /\ x \in SessionStates /\ Archived(r) \subseteq Kept(record[p])
      /\ x = decryptWithState(st, m, NewRatchet(p)).st
      /\ decryptWithState(st, m, NewRatchet(p)).err = "ok"
      /\ w.matched => st \in Live(p)
      /\ ~w.matched => st = recipientPreKeyState(p, m.pre)
  BY <1>1, Zenon DEF ResumedOrNew
<1>3. m \in Messages /\ NewRatchet(p) \in Keys
  BY KeyTypes, MessageFields
<1>4. WellFormed(st)
  BY <1>2, LiveFacts, AcceptedState, Zenon DEF SoundState
<1>5. Follows(x, st)
  BY <1>2, <1>3, DecryptFollows, Zenon
<1>6. /\ m.mac.gen.root.hs = st.root.hs
      /\ \/ x.root = st.root /\ st.recv # <<>>
         \/ /\ OneFurther(m.mac.gen.root.dh, st.root.dh)
            /\ OneFurther(x.root.dh, m.mac.gen.root.dh)
  BY <1>2, <1>3, <1>4, RootStep, Zenon
<1>7. StepsOn(p, x, st)
  BY <1>6, Zenon DEF StepsOn
<1>8. x.root.hs = m.mac.gen.root.hs
  BY <1>5, <1>6, Zenon DEF Follows
<1>9. Acknowledged(p, r)
  BY <1>1, <1>8, Zenon DEF Acknowledged, HeardFrom
<1>10. Onward(p, r, IF w.matched THEN {} ELSE {x})
  BY <1>1, <1>2, <1>5, <1>7, <1>9, OnwardFrom, Zenon
<1> QED BY <1>1, <1>2, <1>5, <1>6, <1>10, Zenon

-----------------------------------------------------------------------------
(***************************************************************************)
(* The invariant, step by step.                                            *)
(***************************************************************************)
\* What q can create no more it can create no more afterwards, and a key pair
\* stays generated.
StaysExhausted ==
    \A q \in Parties : /\ \A hs : Exhausted(q, hs) => Exhausted(q, hs)'
                       /\ \A key : Generated(q, key) => Generated(q, key)'

\* The sessions of new are at an end of p, and p never sent a message on them.
Startable(p, new) ==
    \A y \in new : SendingEnd(p, y) /\ ~Exhausted(p, y.root.hs)

\* The key positions a message names.
LEMMA MacFields ==
  ASSUME NEW m \in Messages
  PROVE  /\ m.mac.pq.pos \in Nat /\ Len(m.mac.gen.root.dh) \in Nat /\ m.mac.gen.n \in Nat
         /\ m.mac.gen.root \in Roots
<1>1. m.mac \in Macs
  BY DEF Messages
<1>2. m.mac.gen \in ChainKeys /\ m.mac.pq.pos \in Nat
  BY <1>1 DEF Macs
<1>3. m.mac.gen.root \in Roots /\ m.mac.gen.n \in Nat
  BY <1>2 DEF ChainKeys
<1>4. m.mac.gen.root.dh \in Seq(SUBSET Keys)
  BY <1>3 DEF Roots
<1> QED BY <1>2, <1>3, <1>4, SeqFunction

\* A later stage of a session is at the same end, and past the same messages.
LEMMA FollowsKeeps ==
  ASSUME NEW x \in SessionStates, NEW y \in SessionStates, Follows(x, y)
  PROVE  /\ \A p : SendingEnd(p, y) => SendingEnd(p, x)
         /\ \A m \in Messages : SentBefore(m, y) => SentBefore(m, x)
<1>1. /\ Len(x.root.dh) \in Nat /\ x.ck.n \in Nat /\ x.pq.send.ctr \in Nat
      /\ Len(y.root.dh) \in Nat /\ y.ck.n \in Nat /\ y.pq.send.ctr \in Nat
  BY SenderFields
<1>2. \A p : SendingEnd(p, y) => SendingEnd(p, x)
  BY Zenon DEF SendingEnd, Follows
<1>3. ASSUME NEW m \in Messages, SentBefore(m, y) PROVE SentBefore(m, x)
  <2>1. m.mac.pq.pos \in Nat /\ Len(m.mac.gen.root.dh) \in Nat /\ m.mac.gen.n \in Nat
    BY MacFields
  <2>2. m.mac.pq.pos <= y.pq.send.ctr /\ y.pq.send.ctr <= x.pq.send.ctr
    BY <1>3, Zenon DEF SentBefore, Follows
  <2>3. m.mac.pq.pos <= x.pq.send.ctr
    BY <1>1, <2>1, <2>2
  <2>4. /\ \/ Len(m.mac.gen.root.dh) < Len(y.root.dh)
           \/ Len(m.mac.gen.root.dh) = Len(y.root.dh) /\ m.mac.gen.n < y.ck.n
        /\ \/ Len(y.root.dh) < Len(x.root.dh)
           \/ Len(y.root.dh) = Len(x.root.dh) /\ y.ck.n <= x.ck.n
    BY <1>3, Zenon DEF SentBefore, Follows
  <2>5. \/ Len(m.mac.gen.root.dh) < Len(x.root.dh)
        \/ Len(m.mac.gen.root.dh) = Len(x.root.dh) /\ m.mac.gen.n < x.ck.n
    <3>1. PICK k1, k2, k3 : /\ k1 = Len(m.mac.gen.root.dh) /\ k2 = Len(y.root.dh)
                            /\ k3 = Len(x.root.dh)
      BY Zenon
    <3>2. PICK n1, n2, n3 : n1 = m.mac.gen.n /\ n2 = y.ck.n /\ n3 = x.ck.n
      OBVIOUS
    <3>3. /\ k1 \in Nat /\ k2 \in Nat /\ k3 \in Nat /\ n1 \in Nat /\ n2 \in Nat /\ n3 \in Nat
          /\ k1 < k2 \/ (k1 = k2 /\ n1 < n2)
          /\ k2 < k3 \/ (k2 = k3 /\ n2 <= n3)
      BY <1>1, <2>1, <2>4, <3>1, <3>2, Zenon
    <3>4. k1 < k3 \/ (k1 = k3 /\ n1 < n3)
      BY <3>3
    <3> QED BY <3>1, <3>2, <3>4, Zenon
  <2> QED BY <2>3, <2>5, Zenon DEF SentBefore
<1> QED BY <1>2, <1>3

\* The sessions stay at their ends, and past every message sent before the step.
LEMMA EndsKept ==
  ASSUME TypeOK, TypeOK', SendingInv, StaysExhausted,
         NEW p \in Parties, NEW r, NEW new \in SUBSET SessionStates,
         record' = [record EXCEPT ![p] = r], Onward(p, r, new), Startable(p, new)
  PROVE  /\ \A q \in Parties : \A x \in Live(q)' : SendingEnd(q, x)
         /\ \A m \in net : SentFrom(Peer(m.to), m)'
<1>1. Live(p)' = LiveStates(r) /\ record'[p] = r /\ r \in Records /\ record[p] \in Records
  BY Zenon DEF TypeOK, Live
<1>2. \A q \in Parties : q # p => Live(q)' = Live(q)
  BY Zenon DEF TypeOK, Live
<1>3. ASSUME NEW x \in LiveStates(r)
      PROVE  /\ SendingEnd(p, x)
             /\ \A m \in net : (Peer(m.to) = p /\ x.root.hs = m.mac.gen.root.hs) => SentBefore(m, x)
  <2>0. x \in SessionStates /\ Follows(x, x)
    BY <1>1, <1>3, RecordFields, SameSenderFollows
  <2>1. PICK y \in Live(p) \cup new : Follows(x, y)
    BY <1>3, <2>0, Zenon DEF Onward
  <2>2. x \in SessionStates /\ y \in SessionStates
    BY <1>1, <1>3, RecordFields DEF Live
  <2>3. SendingEnd(p, y)
    BY Zenon DEF SendingInv, Startable
  <2>4. ASSUME NEW m \in net, Peer(m.to) = p, x.root.hs = m.mac.gen.root.hs
        PROVE  SentBefore(m, x)
    <3>1. SentFrom(p, m) /\ m \in Messages
      BY <2>4, MessageFields, Zenon DEF SendingInv
    <3>2. y.root.hs = m.mac.gen.root.hs
      BY <2>1, <2>4, Zenon DEF Follows
    <3>3. y \in Live(p)
      BY <3>1, <3>2, Zenon DEF SentFrom, Startable
    <3>4. SentBefore(m, y)
      BY <3>1, <3>2, <3>3, Zenon DEF SentFrom
    <3> QED BY <2>1, <2>2, <3>1, <3>4, FollowsKeeps, Zenon
  <2> QED BY <2>1, <2>2, <2>3, <2>4, FollowsKeeps, Zenon
<1>4. ASSUME NEW q \in Parties, NEW x \in Live(q)' PROVE SendingEnd(q, x)
  BY <1>1, <1>2, <1>3, <1>4, Zenon DEF SendingInv
<1>5. ASSUME NEW m \in net PROVE SentFrom(Peer(m.to), m)'
  <2>1. PICK q \in Parties : q = Peer(m.to)
    BY MessageFields, KeyTypes
  <2>2. SentFrom(q, m)
    BY <2>1, Zenon DEF SendingInv
  <2>3. Exhausted(q, m.mac.gen.root.hs)'
    BY <2>2, Zenon DEF SentFrom, StaysExhausted
  <2>4. ASSUME NEW x \in Live(q)', x.root.hs = m.mac.gen.root.hs PROVE SentBefore(m, x)
    BY <1>1, <1>2, <1>3, <2>1, <2>2, <2>4, Zenon DEF SentFrom
  <2> QED BY <2>1, <2>2, <2>3, <2>4, Zenon DEF SentFrom
<1> QED BY <1>4, <1>5

\* A step that sends nothing preserves SendingInv.
LEMMA SilentStep ==
  ASSUME TypeOK, TypeOK', SendingInv, StaysExhausted, UNCHANGED net,
         NEW p \in Parties, NEW r, NEW new \in SUBSET SessionStates,
         record' = [record EXCEPT ![p] = r], Onward(p, r, new), Startable(p, new)
  PROVE  SendingInv'
<1>1. NoKeyReuse'
  BY Zenon DEF NoKeyReuse, SendingInv
<1> QED BY <1>1, EndsKept, Zenon DEF SendingInv

\* The same for a step that changes no record.
LEMMA StillStep ==
  ASSUME TypeOK, TypeOK', SendingInv, StaysExhausted, UNCHANGED <<net, record>>
  PROVE  SendingInv'
<1>1. Alice \in Parties /\ {} \in SUBSET SessionStates
  BY DEF Parties
<1>2. PICK r : r = record[Alice]
  OBVIOUS
<1>3. record' = [record EXCEPT ![Alice] = r] /\ Onward(Alice, r, {})
  BY <1>1, <1>2, SameOnward, Zenon DEF TypeOK
<1>4. Startable(Alice, {})
  BY DEF Startable
<1> QED BY <1>1, <1>3, <1>4, SilentStep, Zenon

\* Every step but a reinstallation adds to what is generated and seen.
LEMMA StepExhausts ==
  ASSUME TypeOK, TypeOK', [Next]_vars
  PROVE  StaysExhausted
<1>1. ASSUME Grows PROVE StaysExhausted
  BY <1>1, SoundStays DEF StaysExhausted
<1>2. ASSUME UNCHANGED <<fresh, baseKeysSeen, installation>> PROVE StaysExhausted
  BY <1>1, <1>2, SameGrows
<1>3. ASSUME NEW p \in Parties, ProcessPreKeyBundle(p) PROVE StaysExhausted
  <2>1. UNCHANGED <<baseKeysSeen, installation>>
    BY <1>3 DEF ProcessPreKeyBundle, ProcessRejected, ProcessAccepted, stores
  <2>2. UNCHANGED fresh \/ fresh' = [fresh EXCEPT ![p] = @ + 2]
    BY <1>3, Zenon DEF ProcessPreKeyBundle, ProcessRejected, ProcessAccepted
  <2>3. fresh \in [Parties -> Nat]
    BY DEF TypeOK
  <2>4. \A q \in Parties : fresh[q] <= fresh'[q]
    BY <2>2, <2>3
  <2>5. Grows
    BY <2>1, <2>4, Zenon DEF Grows
  <2> QED BY <1>1, <2>5
<1>4. ASSUME NEW p \in Parties, Encrypt(p) PROVE StaysExhausted
  BY <1>2, <1>4, Zenon DEF Encrypt, EncryptNoSession, EncryptRejected, EncryptAccepted, stores
<1>5. ASSUME NEW p \in Parties, NEW m \in net, Decrypt(p, m) PROVE StaysExhausted
  <2>1. UNCHANGED <<baseKeysSeen, installation>>
    BY <1>5, Zenon DEF Decrypt
  <2>2. UNCHANGED fresh \/ \E st : UseRatchet(p, st)
    BY <1>5, Zenon DEF Decrypt
  <2>3. fresh \in [Parties -> Nat]
    BY DEF TypeOK
  <2>4. \A q \in Parties : fresh[q] <= fresh'[q]
    BY <2>2, <2>3, UseRatchetType
  <2>5. Grows
    BY <2>1, <2>4, Zenon DEF Grows
  <2> QED BY <1>1, <2>5
<1>6. ASSUME NEW p \in Parties, NEW m \in net, DecryptPreKey(p, m) PROVE StaysExhausted
  <2>1. UNCHANGED installation
    BY <1>6, Zenon DEF DecryptPreKey
  <2>2. CASE DecryptPreKeyRejected(p, m) \/ DecryptPreKeyReused(p, m)
    BY <1>2, <2>1, <2>2, Zenon DEF DecryptPreKeyRejected, DecryptPreKeyReused, stores
  <2>3. ASSUME NEW last, DecryptPreKeyCommit(p, m, last) PROVE StaysExhausted
    <3>1. \E st : UseRatchet(p, st)
      BY <2>3, Zenon DEF DecryptPreKeyCommit
    <3>2. \E s : baseKeysSeen' = [baseKeysSeen EXCEPT ![p] = s] /\ baseKeysSeen[p] \subseteq s
      BY <2>3, Zenon DEF DecryptPreKeyCommit
    <3>3. \A q \in Parties : baseKeysSeen[q] \subseteq baseKeysSeen'[q]
      BY <3>2, ZenonT(40) DEF TypeOK
    <3>4. Grows
      BY <2>1, <3>1, <3>3, UseRatchetType DEF Grows
    <3> QED BY <1>1, <3>4
  <2> QED BY <1>6, <2>2, <2>3, Zenon DEF DecryptPreKey
<1>7. ASSUME NEW p \in Parties, ArchiveSession(p) \/ Reset(p) PROVE StaysExhausted
  BY <1>2, <1>7, Zenon DEF ArchiveSession, Reset
<1>8. ASSUME NEW p \in Parties, Reinstall(p) PROVE StaysExhausted
  <2>1. UNCHANGED fresh
    BY <1>8 DEF Reinstall
  <2>2. \A q \in Parties : \A key : Generated(q, key) => Generated(q, key)'
    BY <2>1, Zenon DEF Generated, KeyPair
  <2> QED BY <1>8, <2>2, ReinstallExhausts, Zenon DEF StaysExhausted
<1>9. CASE Tick \/ UNCHANGED vars
  BY <1>2, <1>9 DEF Tick, vars, stores
<1> QED BY <1>3, <1>4, <1>5, <1>6, <1>7, <1>8, <1>9 DEF Next

\* Encrypt that succeeds sends the message of the current session and stores the
\* session with both keys drawn.
LEMMA EncryptSends ==
  ASSUME TypeOK, NEW p \in Parties, EncryptAccepted(p, Stored)
  PROVE  \E st, full, r :
            /\ st = record[p].current /\ st # Nil /\ st \in SessionStates /\ st \in Live(p)
            /\ record[p] \in Records /\ net' = net \cup {MessageOf(p, st)}
            /\ full \in SessionStates /\ Follows(full, st) /\ full.root = st.root
            /\ full.pending = st.pending
            /\ full.pq.send.ctr = st.pq.send.ctr + 1 /\ full.ck.n = st.ck.n + 1
            /\ r = SetCurrentState(record[p], full) /\ record' = [record EXCEPT ![p] = r]
<1>0. PICK st : st = record[p].current
  OBVIOUS
<1> DEFINE half == PQRatchetSend(st)
<1>1. PICK full : full = [half EXCEPT !.ck = NextChainKey(@)]
  BY Zenon
<1>2. /\ record[p] \in Records /\ st # Nil /\ net' = net \cup {MessageOf(p, st)}
      /\ st \in SessionStates /\ st \in Live(p)
  <2>1. record[p] \in Records /\ st # Nil /\ net' = net \cup {MessageOf(p, st)}
    BY <1>0, Zenon DEF TypeOK, EncryptAccepted, Completed
  <2> QED BY <1>0, <2>1, RecordFields DEF Live
<1>3. /\ full \in SessionStates /\ Follows(full, st) /\ full.root = st.root
      /\ full.pending = st.pending
      /\ full.pq.send.ctr = st.pq.send.ctr + 1 /\ full.ck.n = st.ck.n + 1
  BY <1>1, <1>2, SendDescends, SendFollows, Zenon
<1>4. PICK r : r = SetCurrentState(record[p], full) /\ record' = [record EXCEPT ![p] = r]
  <2> DEFINE h == SetCurrentState(record[p], half)
             f == SetCurrentState(h, [h.current EXCEPT !.ck = NextChainKey(@)])
  <2>1. h.current = half /\ SetCurrentState(h, full) = SetCurrentState(record[p], full)
    BY <1>2, Zenon DEF SetCurrentState, Records
  <2>2. f = SetCurrentState(record[p], full)
    BY <1>1, <2>1
  <2>3. record' = [record EXCEPT ![p] = CASE Stored = Stored  -> f
                                         [] Stored = Removed -> Mutated(p, f)
                                         [] OTHER            -> Mutated(p, h)]
    BY <1>0, Zenon DEF EncryptAccepted
  <2> HIDE DEF f, h
  <2>4. record' = [record EXCEPT ![p] = f]
    BY <2>3 DEF Stored, Removed
  <2> QED BY <2>2, <2>4, Zenon
<1> HIDE DEF half
<1> QED BY <1>0, <1>2, <1>3, <1>4, Zenon

\* The record that Encrypt stores has one session of the handshake.
LEMMA OneOfSecret ==
  ASSUME TypeOK, SessionInv, NEW p \in Parties, NEW st \in Live(p), st = record[p].current,
         st # Nil, NEW full \in SessionStates, NEW r, r = SetCurrentState(record[p], full),
         NEW x \in LiveStates(r), x.root.hs = st.root.hs
  PROVE  x = full
<1>1. record[p] \in Records
  BY DEF TypeOK
<1>2. r \in Records /\ r.current = full /\ Archived(r) = Archived(record[p])
  BY <1>1, SetCurrentProperties
<1>3. CASE x \in Archived(r)
  <2>1. x \in Live(p) /\ x.base # st.base
    <3>1. DistinctBases(record[p])
      BY SMTT(20) DEF SessionInv, OneSessionPerBaseKey
    <3>2. PICK i \in 1 .. Len(record[p].previous) : x = record[p].previous[i]
      BY <1>2, <1>3, Zenon DEF Archived
    <3> QED BY <3>1, <3>2, SMTT(20) DEF DistinctBases, LiveStates, Live
  <2>2. BaseOf(x.root.hs) = x.base /\ BaseOf(st.root.hs) = st.base
    BY <2>1, LiveFacts, Zenon DEF SoundState
  <2> QED BY <2>1, <2>2, ZenonT(40)
<1> QED BY <1>2, <1>3, LiveCases

\* Encrypt that succeeds: its message is ahead of every message of the session's
\* end, and apart from those of the other end.
LEMMA SendingStep ==
  ASSUME TypeOK, TypeOK', SessionInv, SessionInv', SendingInv, StaysExhausted,
         NEW p \in Parties, EncryptAccepted(p, Stored)
  PROVE  SendingInv'
<1>0. PICK st, full, r :
            /\ st = record[p].current /\ st # Nil /\ st \in SessionStates /\ st \in Live(p)
            /\ record[p] \in Records /\ net' = net \cup {MessageOf(p, st)}
            /\ full \in SessionStates /\ Follows(full, st) /\ full.root = st.root
            /\ full.pending = st.pending
            /\ full.pq.send.ctr = st.pq.send.ctr + 1 /\ full.ck.n = st.ck.n + 1
            /\ r = SetCurrentState(record[p], full) /\ record' = [record EXCEPT ![p] = r]
  BY EncryptSends
<1>1. PICK m, hs : m = MessageOf(p, st) /\ hs = st.root.hs
  BY Zenon
<1>2. /\ record[p] \in Records /\ st # Nil /\ net' = net \cup {m}
      /\ st \in SessionStates /\ st \in Live(p)
  BY <1>0, <1>1, Zenon
<1>3. /\ full \in SessionStates /\ Follows(full, st) /\ full.root = st.root
      /\ full.pending = st.pending
      /\ full.pq.send.ctr = st.pq.send.ctr + 1 /\ full.ck.n = st.ck.n + 1
  BY <1>0, Zenon
<1>4. r = SetCurrentState(record[p], full) /\ record' = [record EXCEPT ![p] = r]
  BY <1>0, Zenon
<1>5. /\ m.to = Peer(p) /\ m.mac.gen = st.ck
      /\ m.mac.pq.hs = hs /\ m.mac.pq.dir = st.pq.dir /\ m.mac.pq.pos = st.pq.send.ctr + 1
  BY <1>1 DEF MessageOf, MacOf, PQKey
<1>6. SendingEnd(p, st) /\ SoundState(p, st)
  BY <1>2, LiveFacts, Zenon DEF SendingInv
<1>7. /\ st.ck.root = st.root /\ BaseOf(hs) = st.base /\ st.base \in Keys
      /\ Exhausted(p, hs)
  BY <1>1, <1>2, <1>6, SenderFields, Zenon DEF SendingEnd, SoundState, Accounted, Exhausted
<1>8. r \in Records /\ r.current = full /\ Archived(r) = Archived(record[p])
  BY <1>2, <1>3, <1>4, SetCurrentProperties
<1>9. Onward(p, r, {})
  <2>1. StepsOn(p, full, st)
    BY <1>3, Zenon DEF StepsOn
  <2> QED BY <1>0, <1>3, <1>4, <2>1, SetCurrentOnward, Zenon
<1>10. /\ Len(st.root.dh) \in Nat /\ st.ck.n \in Nat /\ st.pq.send.ctr \in Nat
  BY <1>2, SenderFields
<1>11. SentBefore(m, full)
  BY <1>3, <1>5, <1>7, <1>10 DEF SentBefore
<1>12. ASSUME NEW x \in Live(p)', x.root.hs = hs PROVE x = full
  <2>1. x \in LiveStates(r)
    BY <1>4, <1>12, Zenon DEF TypeOK, Live
  <2> QED BY <1>0, <1>1, <1>12, <2>1, OneOfSecret, Zenon
<1>13. SentFrom(p, m)'
  <2>1. Exhausted(p, hs)'
    BY <1>7 DEF StaysExhausted
  <2>2. /\ m.mac.gen.root = st.root /\ m.mac.gen.root.hs = hs
        /\ m.mac.pq.dir = EndDirection(p, BaseOf(hs))
        /\ Len(m.mac.gen.root.dh) % 2 = EndParity(p, BaseOf(hs))
    BY <1>5, <1>6, <1>7, <1>1, Zenon DEF SendingEnd
  <2>3. \A x \in Live(p)' : x.root.hs = hs => SentBefore(m, x)
    BY <1>11, <1>12, Zenon
  <2> QED BY <1>5, <2>1, <2>2, <2>3, Zenon DEF SentFrom
<1>14. ASSUME NEW n \in net PROVE n.mac.gen # m.mac.gen /\ n.mac.pq # m.mac.pq
  <2>1. n \in Messages /\ n.to \in Parties
    BY MessageFields, Zenon
  <2>2. PICK q \in Parties : q = Peer(n.to)
    BY <2>1, KeyTypes
  <2>3. SentFrom(q, n)
    BY <2>2, Zenon DEF SendingInv
  <2>4. CASE n.mac.gen.root.hs # hs
    BY <1>5, <1>7, <2>3, <2>4, <1>1, Zenon DEF SentFrom
  <2>5. CASE n.mac.gen.root.hs = hs /\ q = p
    <3>1. SentBefore(n, st)
      BY <1>2, <2>3, <2>5, <1>1, Zenon DEF SentFrom
    <3>2. /\ n.mac.pq.pos \in Nat /\ Len(n.mac.gen.root.dh) \in Nat /\ n.mac.gen.n \in Nat
      BY <2>1, MacFields
    <3>3. n.mac.pq.pos # m.mac.pq.pos
      BY <1>5, <1>10, <3>1, <3>2 DEF SentBefore
    <3>4. Len(n.mac.gen.root.dh) # Len(st.root.dh) \/ n.mac.gen.n # st.ck.n
      BY <1>10, <3>1, <3>2 DEF SentBefore
    <3> QED BY <1>5, <1>7, <3>3, <3>4, Zenon
  <2>6. CASE n.mac.gen.root.hs = hs /\ q # p
    <3>1. st.base[2] \in Parties
      BY <1>7 DEF Keys
    <3>2. st.base[2] = p \/ st.base[2] = q
      BY <2>2, <2>6, <3>1, KeyTypes DEF Parties
    <3>3. /\ EndDirection(p, st.base) # EndDirection(q, st.base)
          /\ EndParity(p, st.base) # EndParity(q, st.base)
      BY <2>6, <3>2 DEF EndDirection, EndParity
    <3>4. /\ n.mac.pq.dir = EndDirection(q, st.base)
          /\ Len(n.mac.gen.root.dh) % 2 = EndParity(q, st.base)
      BY <1>7, <2>3, <2>6, Zenon DEF SentFrom
    <3>5. /\ m.mac.pq.dir = EndDirection(p, st.base)
          /\ Len(m.mac.gen.root.dh) % 2 = EndParity(p, st.base)
      BY <1>5, <1>6, <1>7, Zenon DEF SendingEnd
    <3> QED BY <3>3, <3>4, <3>5, Zenon
  <2> QED BY <2>4, <2>5, <2>6, Zenon
<1>15. NoKeyReuse'
  <2>1. NoKeyReuse
    BY Zenon DEF SendingInv
  <2> QED BY <1>2, <1>14, <2>1, Zenon DEF NoKeyReuse
<1>16. /\ \A q \in Parties : \A x \in Live(q)' : SendingEnd(q, x)
       /\ \A n \in net : SentFrom(Peer(n.to), n)'
  <2>1. {} \in SUBSET SessionStates /\ Startable(p, {})
    BY DEF Startable
  <2> QED BY <1>4, <1>9, <2>1, EndsKept, Zenon
<1>17. Peer(m.to) = p
  BY <1>5, KeyTypes
<1> QED BY <1>2, <1>13, <1>15, <1>16, <1>17, Zenon DEF SendingInv

\* A fresh post-quantum state has the direction it is made for.
LEMMA InitialDirection ==
  ASSUME NEW dir
  PROVE  pqrInitialState(dir).dir = dir
BY Zenon DEF pqrInitialState

\* The initiator starts one Diffie-Hellman step ahead, on the direction A2B.
LEMMA NewSessionEnd ==
  ASSUME TypeOK, NEW p \in Parties, NEW id \in PreKeyIDs \cup {Nil}
  PROVE  SendingEnd(p, NewSession(p, id)) /\ Len(NewSession(p, id).root.dh) = 1
<1>1. PICK initial, theirs, ours : LET st == NewSession(p, id)
                                       root == CreateChain(initial, theirs, ours)
                                   IN  /\ st.root = root /\ st.ck = NewChainKey(root)
                                       /\ st.pq.dir = "A2B" /\ initial.dh = <<>>
                                       /\ initial \in [hs : {initial.hs}, dh : {<<>>}]
  <2> DEFINE b == Bundle(Peer(p), id)
             base == KeyPair(p, fresh[p])
             ct == Encapsulate(b.kyber, base)
             init == DeriveInitialKeys(DH(IdentityKey(p), b.signed), DH(base, b.identity),
                                       DH(base, b.signed),
                                       IF b.oneTime = Nil THEN {} ELSE DH(base, b.oneTime),
                                       Decapsulate(b.kyber, ct))
             root == CreateChain(init, b.signed, KeyPair(p, fresh[p] + 1))
             st == NewSession(p, id)
  <2>1. st.root = root /\ st.ck = NewChainKey(root) /\ st.pq = pqrInitialState("A2B")
    BY DEF NewSession, SetUnacknowledgedPreKeyMessage, initializeAliceSession
  <2>2. init.dh = <<>> /\ init \in [hs : {init.hs}, dh : {<<>>}]
    BY Zenon DEF DeriveInitialKeys
  <2>3. st.pq.dir = "A2B"
    BY <2>1, InitialDirection, Zenon
  <2> HIDE DEF init, st
  <2> QED BY <2>1, <2>2, <2>3, Zenon DEF st
<1>2. PICK st, root : st = NewSession(p, id) /\ root = CreateChain(initial, theirs, ours)
  BY Zenon
<1>3. st.root = root /\ st.ck.root = root /\ st.pq.dir = "A2B"
  BY <1>1, <1>2 DEF NewChainKey
<1>4. Len(root.dh) = 1
  <2>1. root.dh = Append(<<>>, DH(theirs, ours))
    BY <1>1, <1>2 DEF CreateChain
  <2> QED BY <2>1
<1>5. st.base[2] = p
  BY <1>2, NewSessionProperties DEF KeyPair
<1>6. EndDirection(p, st.base) = "A2B" /\ EndParity(p, st.base) = 1 /\ 1 % 2 = 1
  BY <1>5 DEF EndDirection, EndParity
<1> QED BY <1>2, <1>3, <1>4, <1>6, Zenon DEF SendingEnd

\* The recipient starts on the PQXDH chain key itself, on the direction B2A.
LEMMA AcceptedEnd ==
  ASSUME TypeOK, SessionInv, NEW p \in Parties, NEW m \in net, m.to = p, m.pre # Nil
  PROVE  LET st == recipientPreKeyState(p, m.pre)
         IN  SendingEnd(p, st) /\ st.recv = <<>> /\ Len(st.root.dh) = 0
<1>1. PICK st : st = recipientPreKeyState(p, m.pre)
  BY ZenonT(40)
<1>2. /\ st.root.dh = <<>> /\ st.ck = NewChainKey(st.root) /\ st.pq.dir = "B2A"
      /\ st.base = m.pre.base /\ st.recv = <<>>
  BY <1>1 DEF recipientPreKeyState, InitializeBobSession, DeriveInitialKeys, pqrInitialState
<1>3. st.ck.root = st.root
  BY <1>2 DEF NewChainKey
<1>4. PeersKey(p, m.pre.base)
  BY Zenon DEF SessionInv, SoundMessage
<1>5. st.base[2] # p
  BY <1>2, <1>4, KeyTypes DEF PeersKey
<1>6. EndDirection(p, st.base) = "B2A" /\ EndParity(p, st.base) = 0 /\ 0 % 2 = 0
  BY <1>5 DEF EndDirection, EndParity
<1>7. Len(st.root.dh) = 0
  BY <1>2, SMTT(20)
<1> QED BY <1>1, <1>2, <1>3, <1>6, <1>7, Zenon DEF SendingEnd

\* ProcessPreKeyBundle.
LEMMA ProcessKeys ==
  ASSUME TypeOK, TypeOK', SendingInv, StaysExhausted, NEW p \in Parties, ProcessPreKeyBundle(p)
  PROVE  SendingInv'
<1>1. PICK id \in (PreKeyIDs \ issued[Peer(p)]) \cup {Nil} :
        \/ ProcessRejected(p, id)
        \/ \E last \in {Nothing, Removed, Stored} : ProcessAccepted(p, id, last)
  BY DEF ProcessPreKeyBundle
<1>2. CASE ProcessRejected(p, id)
  BY <1>2, StillStep DEF ProcessRejected, stores
<1>3. ASSUME NEW last \in {Nothing, Removed, Stored}, ProcessAccepted(p, id, last)
      PROVE  SendingInv'
  <2>1. PICK st : st = NewSession(p, id)
    BY Zenon
  <2>2. PICK r : record' = [record EXCEPT ![p] = r] /\ Onward(p, r, {st})
    BY <1>3, <2>1, ProcessOnward, ZenonT(40)
  <2>3. st \in SessionStates /\ SendingEnd(p, st) /\ ~Exhausted(p, st.root.hs)
    BY <2>1, NewSessionProperties, NewSessionUnused, NewSessionEnd
  <2>4. Startable(p, {st}) /\ {st} \in SUBSET SessionStates
    BY <2>3 DEF Startable
  <2>5. UNCHANGED net
    BY <1>3 DEF ProcessAccepted
  <2> QED BY <2>2, <2>4, <2>5, SilentStep, Zenon
<1> QED BY <1>1, <1>2, <1>3

\* A step that sends nothing and starts no session.
LEMMA OldSessions ==
  ASSUME TypeOK, TypeOK', SendingInv, StaysExhausted, UNCHANGED net,
         NEW p \in Parties, NEW r, record' = [record EXCEPT ![p] = r], Onward(p, r, {})
  PROVE  SendingInv'
<1>1. Startable(p, {}) /\ {} \in SUBSET SessionStates
  BY DEF Startable
<1> QED BY <1>1, SilentStep, Zenon

\* Encrypt.
LEMMA EncryptKeys ==
  ASSUME TypeOK, TypeOK', SessionInv, SessionInv', SendingInv, StaysExhausted,
         NEW p \in Parties, Encrypt(p)
  PROVE  SendingInv'
<1>1. CASE EncryptNoSession(p)
  BY <1>1, StillStep DEF EncryptNoSession, stores
<1>2. CASE EncryptRejected(p)
  <2>1. PICK r : record' = [record EXCEPT ![p] = r] /\ Onward(p, r, {})
    BY <1>2, EncryptOnward
  <2> QED BY <1>2, <2>1, OldSessions, Zenon DEF EncryptRejected
<1>3. ASSUME NEW last \in {Nothing, Removed, Stored}, EncryptAccepted(p, last)
      PROVE  SendingInv'
  <2>1. CASE last = Stored
    BY <1>3, <2>1, SendingStep
  <2>2. CASE last # Stored
    <3>1. PICK r : record' = [record EXCEPT ![p] = r] /\ Onward(p, r, {})
      BY <1>3, EncryptOnward
    <3>2. UNCHANGED net
      BY <1>3, <2>2, Zenon DEF EncryptAccepted, Completed
    <3> QED BY <3>1, <3>2, OldSessions, Zenon
  <2> QED BY <2>1, <2>2
<1> QED BY <1>1, <1>2, <1>3 DEF Encrypt

\* Decrypt.
LEMMA DecryptKeys ==
  ASSUME TypeOK, TypeOK', SessionInv, SendingInv, StaysExhausted,
         NEW p \in Parties, NEW m \in net, Decrypt(p, m)
  PROVE  SendingInv'
<1>1. UNCHANGED net
  BY Zenon DEF Decrypt
<1>2. PICK r : record' = [record EXCEPT ![p] = r] /\ Onward(p, r, {})
  BY DecryptOnward
<1> QED BY <1>1, <1>2, OldSessions, Zenon

\* DecryptPreKey.
LEMMA PreKeyKeys ==
  ASSUME TypeOK, TypeOK', SessionInv, SendingInv, StaysExhausted,
         NEW p \in Parties, NEW m \in net, DecryptPreKey(p, m)
  PROVE  SendingInv'
<1> DEFINE w == PreKeyResult(p, m)
<1>0. m.to = p /\ m.pre # Nil /\ UNCHANGED net
  BY DEF DecryptPreKey
<1>1. CASE DecryptPreKeyRejected(p, m) \/ DecryptPreKeyReused(p, m)
  <2>1. UNCHANGED record
    BY <1>1 DEF DecryptPreKeyRejected, DecryptPreKeyReused, stores
  <2> QED BY <1>0, <2>1, StillStep
<1>2. ASSUME NEW last \in Nothing .. Stored, DecryptPreKeyCommit(p, m, last)
      PROVE  SendingInv'
  <2>1. /\ w.err = "ok" /\ (w.matched \/ m.pre.base \notin baseKeysSeen[p])
        /\ record' = [record EXCEPT ![p] = IF last = Stored THEN w.r ELSE record[p]]
    BY <1>2 DEF DecryptPreKeyCommit, BaseKeyReused
  <2>2. PICK st \in SessionStates : ResumedOrNew(p, m, w, st)
    BY <1>0, <2>1, PreKeyResultProperties, Zenon
  <2> HIDE DEF w
  <2>3. CASE last # Stored
    <3>1. UNCHANGED record
      BY <2>1, <2>3, Zenon DEF TypeOK
    <3> QED BY <1>0, <3>1, StillStep
  <2>4. CASE last = Stored
    <3>1. PICK r, new : r = w.r /\ new = IF w.matched THEN {} ELSE {r.current}
      BY Zenon
    <3>2. ~w.matched => st = recipientPreKeyState(p, m.pre)
      BY <2>2, ZenonT(40) DEF ResumedOrNew
    <3>3. Onward(p, r, new) /\ r.current \in SessionStates /\ Follows(r.current, st)
      BY <1>0, <2>2, <3>1, PreKeyOnward, Zenon
    <3>4. ~w.matched => SendingEnd(p, st) /\ ~Exhausted(p, st.root.hs)
      BY <1>0, <2>1, <3>2, AcceptedEnd, AcceptedUnused, Zenon
    <3>5. ~w.matched => SendingEnd(p, r.current) /\ ~Exhausted(p, r.current.root.hs)
      <4>1. r.current.root.hs = st.root.hs
        BY <3>3, Zenon DEF Follows
      <4> QED BY <3>3, <3>4, <4>1, FollowsKeeps, Zenon
    <3>6. Startable(p, new) /\ new \in SUBSET SessionStates
      BY <3>1, <3>3, <3>5 DEF Startable
    <3>7. record' = [record EXCEPT ![p] = r]
      BY <2>1, <2>4, <3>1, Zenon
    <3> QED BY <1>0, <3>3, <3>6, <3>7, SilentStep, Zenon
  <2> QED BY <2>3, <2>4
<1> QED BY <1>1, <1>2 DEF DecryptPreKey

\* Reinstall: no session is left, and the messages stay sent.
LEMMA ReinstallKeys ==
  ASSUME TypeOK, TypeOK', SendingInv, StaysExhausted, NEW p \in Parties, Reinstall(p)
  PROVE  SendingInv'
<1>1. PICK r : r = NewFreshSessionRecord
  BY Zenon
<1>2. record' = [record EXCEPT ![p] = r] /\ UNCHANGED net
  BY <1>1, Zenon DEF Reinstall
<1>3. LiveStates(r) = {}
  BY <1>1, FreshRecord
<1>4. Onward(p, r, {})
  BY <1>1, <1>3, Zenon DEF Onward, Acknowledged, NewFreshSessionRecord
<1> QED BY <1>2, <1>4, OldSessions, Zenon

\* ArchiveCurrentState by the host.
LEMMA ArchiveKeys ==
  ASSUME TypeOK, TypeOK', SendingInv, StaysExhausted, NEW p \in Parties, ArchiveSession(p)
  PROVE  SendingInv'
<1>1. PICK r : r = ArchiveCurrentState(record[p])
  BY Zenon
<1>2. record' = [record EXCEPT ![p] = r] /\ UNCHANGED net
  BY <1>1, Zenon DEF ArchiveSession
<1>3. Onward(p, r, {})
  BY <1>1, ArchiveOnward
<1> QED BY <1>2, <1>3, OldSessions, Zenon

\* Every step preserves SendingInv.
LEMMA NextKeys ==
  ASSUME TypeOK, TypeOK', SessionInv, SessionInv', SendingInv, [Next]_vars
  PROVE  SendingInv'
<1>1. StaysExhausted
  BY StepExhausts
<1>2. CASE Tick \/ UNCHANGED vars \/ \E p \in Parties : Reset(p)
  <2>1. UNCHANGED <<record, net>>
    BY <1>2 DEF Tick, Reset, vars, stores
  <2> QED BY <1>1, <2>1, StillStep, Zenon
<1> QED BY <1>1, <1>2, ProcessKeys, EncryptKeys, DecryptKeys, PreKeyKeys, ReinstallKeys,
           ArchiveKeys DEF Next

\* The inductive invariant: every session is at one of its two ends, past every
\* message its party sent on it, and a session that is gone cannot come back.
THEOREM SendingInvariant == Spec => []SendingInv
<1>1. ASSUME Init PROVE SendingInv
  <2>1. net = {} /\ \A p \in Parties : Live(p) = {}
    BY <1>1, FreshRecord DEF Init, Live
  <2> QED BY <2>1, Zenon DEF SendingInv, NoKeyReuse
<1>2. TypeOK /\ TypeOK' /\ SessionInv /\ SessionInv' /\ SendingInv /\ [Next]_vars => SendingInv'
  BY NextKeys
<1> QED BY <1>1, <1>2, TypeCorrect, SessionInvariant, PTL DEF Spec

\* No two messages that Encrypt ever returned use one Double Ratchet key or one
\* SPQR key, whatever was archived, resumed, reinstalled or failed in between.
THEOREM KeysUsedOnce == Spec => []NoKeyReuse
<1>1. SendingInv => NoKeyReuse
  BY DEF SendingInv
<1> QED BY <1>1, SendingInvariant, PTL

-----------------------------------------------------------------------------
(***************************************************************************)
(* The pre-keys of an accepted session are gone.                           *)
(***************************************************************************)
\* The one-time pre-key of the handshake hs is not in the store of p.
OneTimeGone(p, hs) == \A id \in preKeys[p] : PreKey(p, id) \notin hs.dh4

\* The part of AcceptedKeysSpent that SessionInv does not give.
OneTimeInv == \A p \in Parties : \A st \in Live(p) :
                  ~Initiated(p, st) => OneTimeGone(p, st.root.hs)

\* The sessions of new that p accepts have used up their one-time pre-keys.
SpentFor(p, new) == \A y \in new : ~Initiated(p, y) => OneTimeGone(p, y.root.hs)'

\* A step that takes one-time pre-keys away and keeps the installations.
LEMMA SpentStep ==
  ASSUME TypeOK, OneTimeInv, UNCHANGED installation,
         \A q \in Parties : preKeys'[q] \subseteq preKeys[q],
         NEW p \in Parties, NEW r, NEW new, record' = [record EXCEPT ![p] = r],
         Onward(p, r, new),
         SpentFor(p, new)
  PROVE  OneTimeInv'
<1>1. Live(p)' = LiveStates(r) /\ \A q \in Parties : q # p => Live(q)' = Live(q)
  BY Zenon DEF TypeOK, Live
<1>2. ASSUME NEW q \in Parties, NEW x \in Live(q)', ~Initiated(q, x)
      PROVE  OneTimeGone(q, x.root.hs)'
  <2>1. PICK y : /\ y \in Live(q) \/ (q = p /\ y \in new)
                 /\ y.base = x.base /\ y.root.hs = x.root.hs
    <3>1. CASE q # p
      BY <1>1, <1>2, <3>1, Zenon
    <3>2. CASE q = p
      BY <1>1, <1>2, <3>2, Zenon DEF Onward, Follows
    <3> QED BY <3>1, <3>2, Zenon
  <2>2. ~Initiated(q, y)
    BY <1>2, <2>1, Zenon DEF Initiated
  <2>3. CASE y \in Live(q)
    <3>1. OneTimeGone(q, x.root.hs)
      BY <2>1, <2>2, <2>3, Zenon DEF OneTimeInv
    <3>2. \A id : PreKey(q, id)' = PreKey(q, id)
      BY Zenon DEF PreKey
    <3> QED BY <3>1, <3>2, Zenon DEF OneTimeGone
  <2>4. CASE q = p /\ y \in new
    BY <2>1, <2>2, <2>4, Zenon DEF SpentFor
  <2> QED BY <2>1, <2>3, <2>4, Zenon
<1> QED BY <1>2, Zenon DEF OneTimeInv, Initiated

\* A step that changes no record.
LEMMA SpentStill ==
  ASSUME TypeOK, OneTimeInv, UNCHANGED <<installation, record>>,
         \A q \in Parties : preKeys'[q] \subseteq preKeys[q]
  PROVE  OneTimeInv'
<1>1. Alice \in Parties
  BY DEF Parties
<1>2. PICK r : r = record[Alice]
  OBVIOUS
<1>3. record' = [record EXCEPT ![Alice] = r] /\ Onward(Alice, r, {})
  BY <1>1, <1>2, SameOnward, Zenon DEF TypeOK
<1>4. SpentFor(Alice, {})
  BY DEF SpentFor
<1> QED BY <1>1, <1>3, <1>4, SpentStep, Zenon

\* The one-time pre-key's share in the secret of an accepted session.
OneTimeShare(oneTime, base) == IF oneTime = Nil THEN {} ELSE DH(oneTime, base)

\* A session accepted without a one-time pre-key has no share of one, and a
\* session accepted with one has the share of that one only.
LEMMA OneTimeUse ==
  ASSUME NEW p, NEW pre, NEW st, st = recipientPreKeyState(p, pre)
  PROVE  /\ st.root.hs.dh4 \subseteq {PreKey(p, pre.id), pre.base}
         /\ pre.id = Nil => st.root.hs.dh4 = {}
<1>1. PICK identity, signed, key, kyber :
        /\ identity = IdentityKey(p) /\ signed = SignedPreKey(p)
        /\ key = PreKey(p, pre.id) /\ kyber = KyberPreKey(p)
  BY Zenon
<1>2. st = InitializeBobSession(identity, signed, key, kyber, pre)
  BY <1>1, Zenon DEF recipientPreKeyState
<1>3. pre.id = Nil => key = Nil
  BY <1>1, Zenon DEF PreKey
<1>4. st.root.hs.dh4 = OneTimeShare(key, pre.base)
  <2>1. InitializeBobSession(identity, signed, key, kyber, pre).root.hs.dh4
          = OneTimeShare(key, pre.base)
    BY Zenon DEF InitializeBobSession, DeriveInitialKeys, OneTimeShare
  <2> QED BY <1>2, <2>1, Zenon
<1> QED BY <1>1, <1>3, <1>4, Zenon DEF OneTimeShare, DH

\* DecryptPreKey removes the one-time pre-key before it stores the session.
LEMMA PreKeySpends ==
  ASSUME TypeOK, SessionInv, OneTimeInv, NEW p \in Parties, NEW m \in net, DecryptPreKey(p, m)
  PROVE  OneTimeInv'
<1> DEFINE w == PreKeyResult(p, m)
<1>0. m.to = p /\ m.pre # Nil /\ UNCHANGED installation
  BY DEF DecryptPreKey
<1>1. CASE DecryptPreKeyRejected(p, m) \/ DecryptPreKeyReused(p, m)
  <2>1. UNCHANGED <<record, preKeys>>
    BY <1>1 DEF DecryptPreKeyRejected, DecryptPreKeyReused, stores
  <2> QED BY <1>0, <2>1, SpentStill
<1>2. ASSUME NEW last \in Nothing .. Stored, DecryptPreKeyCommit(p, m, last)
      PROVE  OneTimeInv'
  <2>1. /\ w.err = "ok"
        /\ preKeys' = [preKeys EXCEPT ![p] = IF ~w.matched /\ last >= Removed
                                             THEN preKeys[p] \ {m.pre.id} ELSE preKeys[p]]
        /\ record' = [record EXCEPT ![p] = IF last = Stored THEN w.r ELSE record[p]]
    BY <1>2 DEF DecryptPreKeyCommit, RemovePreKey
  <2>2. PICK st \in SessionStates : ResumedOrNew(p, m, w, st)
    BY <1>0, <2>1, PreKeyResultProperties, Zenon
  <2> HIDE DEF w
  <2>3. \A q \in Parties : preKeys'[q] \subseteq preKeys[q]
    BY <2>1, Zenon DEF TypeOK
  <2>4. CASE last # Stored
    <3>1. UNCHANGED record
      BY <2>1, <2>4, Zenon DEF TypeOK
    <3> QED BY <1>0, <2>3, <3>1, SpentStill
  <2>5. CASE last = Stored
    <3>1. PICK r, new : r = w.r /\ new = IF w.matched THEN {} ELSE {r.current}
      BY Zenon
    <3>2. ~w.matched => st = recipientPreKeyState(p, m.pre)
      BY <2>2, ZenonT(40) DEF ResumedOrNew
    <3>3. Onward(p, r, new) /\ Follows(r.current, st)
      BY <1>0, <2>2, <3>1, PreKeyOnward, Zenon
    <3>4. r.current.root.hs = st.root.hs
      BY <3>3, Zenon DEF Follows
    <3>5. record' = [record EXCEPT ![p] = r]
      BY <2>1, <2>5, <3>1, Zenon
    <3>6. ASSUME ~w.matched PROVE OneTimeGone(p, st.root.hs)'
      <4>1. preKeys'[p] = preKeys[p] \ {m.pre.id}
        <5>1. last >= Removed
          BY <2>5 DEF Removed, Stored
        <5> QED BY <2>1, <3>6, <5>1, Zenon DEF TypeOK
      <4>2. m.pre.base[2] # p
        BY <1>0, KeyTypes, Zenon DEF SessionInv, SoundMessage, PeersKey
      <4>3. st.root.hs.dh4 \subseteq {PreKey(p, m.pre.id), m.pre.base}
            /\ (m.pre.id = Nil => st.root.hs.dh4 = {})
        <5>1. PICK q, pre, accepted : q = p /\ pre = m.pre /\ accepted = st
          BY Zenon
        <5>2. accepted = recipientPreKeyState(q, pre)
          BY <3>2, <3>6, <5>1, Zenon
        <5>3. /\ accepted.root.hs.dh4 \subseteq {PreKey(q, pre.id), pre.base}
              /\ pre.id = Nil => accepted.root.hs.dh4 = {}
          BY <5>2, OneTimeUse, ZenonT(40)
        <5> QED BY <5>1, <5>3, Zenon
      <4>4. ASSUME NEW id \in preKeys'[p] PROVE PreKey(p, id)' \notin st.root.hs.dh4
        <5>1. id # m.pre.id /\ id \in PreKeyIDs
          BY <4>1, <4>4 DEF TypeOK
        <5>2. id # Nil
          BY <5>1, NilAssumption
        <5>3. PreKey(p, id)' = <<"onetime", p, installation[p], id>>
          BY <1>0, <5>2 DEF PreKey
        <5>4. m.pre.id # Nil => PreKey(p, m.pre.id) = <<"onetime", p, installation[p], m.pre.id>>
          BY DEF PreKey
        <5> QED BY <4>2, <4>3, <5>1, <5>3, <5>4, SMTT(20)
      <4> QED BY <4>4, Zenon DEF OneTimeGone
    <3>7. SpentFor(p, new)
      BY <3>1, <3>4, <3>6, Zenon DEF SpentFor
    <3> QED BY <1>0, <2>3, <3>3, <3>5, <3>7, SpentStep, Zenon
  <2> QED BY <2>4, <2>5
<1> QED BY <1>1, <1>2 DEF DecryptPreKey

\* Every step preserves OneTimeInv.
LEMMA NextSpends ==
  ASSUME TypeOK, SessionInv, OneTimeInv, [Next]_vars
  PROVE  OneTimeInv'
<1>1. ASSUME NEW p \in Parties, NEW r, record' = [record EXCEPT ![p] = r], Onward(p, r, {}),
             UNCHANGED <<preKeys, installation>>
      PROVE  OneTimeInv'
  <2>1. SpentFor(p, {}) /\ \A q \in Parties : preKeys'[q] \subseteq preKeys[q]
    BY <1>1 DEF SpentFor
  <2> QED BY <1>1, <2>1, SpentStep, Zenon
<1>2. ASSUME NEW p \in Parties, ProcessPreKeyBundle(p) PROVE OneTimeInv'
  <2>1. PICK id \in (PreKeyIDs \ issued[Peer(p)]) \cup {Nil} :
          \/ ProcessRejected(p, id)
          \/ \E last \in {Nothing, Removed, Stored} : ProcessAccepted(p, id, last)
    BY <1>2 DEF ProcessPreKeyBundle
  <2>2. CASE ProcessRejected(p, id)
    BY <2>2, SpentStill DEF ProcessRejected, stores
  <2>3. ASSUME NEW last \in {Nothing, Removed, Stored}, ProcessAccepted(p, id, last)
        PROVE  OneTimeInv'
    <3>1. PICK st : st = NewSession(p, id)
      BY Zenon
    <3>2. PICK r : record' = [record EXCEPT ![p] = r] /\ Onward(p, r, {st})
      BY <2>3, <3>1, ProcessOnward, ZenonT(40)
    <3>3. Initiated(p, st)
      BY <3>1, NewSessionProperties DEF Initiated, KeyPair
    <3>4. UNCHANGED <<preKeys, installation>>
      BY <2>3 DEF ProcessAccepted
    <3>5. SpentFor(p, {st}) /\ \A q \in Parties : preKeys'[q] \subseteq preKeys[q]
      BY <3>3, <3>4 DEF SpentFor
    <3> QED BY <3>2, <3>4, <3>5, SpentStep, Zenon
  <2> QED BY <2>1, <2>2, <2>3
<1>3. ASSUME NEW p \in Parties, Encrypt(p) PROVE OneTimeInv'
  <2>1. CASE EncryptNoSession(p)
    BY <2>1, SpentStill DEF EncryptNoSession, stores
  <2>2. CASE ~EncryptNoSession(p)
    <3>1. PICK r : record' = [record EXCEPT ![p] = r] /\ Onward(p, r, {})
      BY <1>3, <2>2, EncryptOnward DEF Encrypt
    <3>2. UNCHANGED <<preKeys, installation>>
      BY <1>3, <2>2, Zenon DEF Encrypt, EncryptRejected, EncryptAccepted
    <3> QED BY <1>1, <3>1, <3>2, Zenon
  <2> QED BY <2>1, <2>2
<1>4. ASSUME NEW p \in Parties, NEW m \in net, Decrypt(p, m) PROVE OneTimeInv'
  <2>1. UNCHANGED <<preKeys, installation>>
    BY <1>4, Zenon DEF Decrypt
  <2>2. \E r : record' = [record EXCEPT ![p] = r] /\ Onward(p, r, {})
    BY <1>4, DecryptOnward
  <2> QED BY <1>1, <2>1, <2>2, Zenon
<1>5. ASSUME NEW p \in Parties, ArchiveSession(p) PROVE OneTimeInv'
  <2>1. PICK r : r = ArchiveCurrentState(record[p])
    BY Zenon
  <2>2. record' = [record EXCEPT ![p] = r] /\ UNCHANGED <<preKeys, installation>>
    BY <1>5, <2>1, Zenon DEF ArchiveSession
  <2>3. Onward(p, r, {})
    BY <2>1, ArchiveOnward
  <2> QED BY <1>1, <2>2, <2>3, Zenon
<1>6. ASSUME NEW p \in Parties, Reinstall(p) PROVE OneTimeInv'
  <2>1. /\ record' = [record EXCEPT ![p] = NewFreshSessionRecord]
        /\ preKeys' = [preKeys EXCEPT ![p] = PreKeyIDs]
        /\ installation' = [installation EXCEPT ![p] = @ + 1]
    BY <1>6, Zenon DEF Reinstall
  <2>2. /\ Live(p)' = {}
        /\ \A q \in Parties : q # p => /\ Live(q)' = Live(q) /\ preKeys'[q] = preKeys[q]
                                        /\ installation'[q] = installation[q]
    BY <2>1, FreshRecord, Zenon DEF TypeOK, Live
  <2>3. ASSUME NEW q \in Parties, q # p, NEW st \in Live(q), OneTimeGone(q, st.root.hs)
        PROVE  OneTimeGone(q, st.root.hs)'
    BY <2>2, <2>3, Zenon DEF OneTimeGone, PreKey
  <2> QED BY <2>2, <2>3, Zenon DEF OneTimeInv, Initiated
<1>7. CASE Tick \/ UNCHANGED vars \/ \E p \in Parties : Reset(p)
  <2>1. UNCHANGED <<record, preKeys, installation>>
    BY <1>7 DEF Tick, Reset, vars, stores
  <2> QED BY <2>1, SpentStill
<1> QED BY <1>2, <1>3, <1>4, <1>5, <1>6, <1>7, PreKeySpends DEF Next

\* Wherever the commit of DecryptPreKey stopped, a session that a party accepted
\* has its base key in the Kyber store's list and its one-time pre-key removed.
THEOREM AcceptedPreKeysGone == Spec => []AcceptedKeysSpent
<1>1. ASSUME Init PROVE OneTimeInv
  BY <1>1, FreshRecord DEF Init, Live, OneTimeInv
<1>2. TypeOK /\ SessionInv /\ OneTimeInv /\ [Next]_vars => OneTimeInv'
  BY NextSpends
<1>3. ASSUME TypeOK, SessionInv, OneTimeInv PROVE AcceptedKeysSpent
  <2>1. ASSUME NEW p \in Parties, NEW st \in Live(p), ~Initiated(p, st)
        PROVE  st.base \in baseKeysSeen[p]
    <3>1. Accounted(p, st)
      BY <1>3, LiveFacts, Zenon DEF SoundState
    <3>2. ~Generated(p, st.base)
      BY <2>1 DEF Initiated, Generated, KeyPair
    <3> QED BY <3>1, <3>2, Zenon DEF Accounted
  <2> QED BY <1>3, <2>1, Zenon DEF AcceptedKeysSpent, OneTimeInv, OneTimeGone
<1> QED BY <1>1, <1>2, <1>3, TypeCorrect, SessionInvariant, PTL DEF Spec

=============================================================================
