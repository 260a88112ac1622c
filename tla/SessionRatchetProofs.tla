------------------------ MODULE SessionRatchetProofs ------------------------
(***************************************************************************)
(* The two ends of a session agree: they hold one handshake secret, their  *)
(* root keys are one Diffie-Hellman step apart, and an initiator drops its *)
(* pending pre-key message only when the other end has the session.        *)
(***************************************************************************)
EXTENDS SessionKeyProofs

-----------------------------------------------------------------------------
(***************************************************************************)
(* Sequences of Diffie-Hellman outputs.                                    *)
(***************************************************************************)
InStep(s, t) == OneFurther(s, t) \/ OneFurther(t, s)

\* The outputs mixed into a root key are a sequence.
LEMMA OutputsType ==
  ASSUME TypeOK
  PROVE  /\ \A m \in net : m.mac.gen.root.dh \in Seq(SUBSET Keys)
         /\ \A p \in Parties : \A st \in Live(p) :
               st \in SessionStates /\ st.root.dh \in Seq(SUBSET Keys)
<1>1. ASSUME NEW m \in net PROVE m.mac.gen.root.dh \in Seq(SUBSET Keys)
  <2>1. m.mac.gen.root \in Roots
    BY MessageFields, MacFields
  <2> QED BY <2>1 DEF Roots
<1>2. ASSUME NEW p \in Parties, NEW st \in Live(p)
      PROVE  st \in SessionStates /\ st.root.dh \in Seq(SUBSET Keys)
  <2>1. record[p] \in Records
    BY DEF TypeOK
  <2>2. st \in SessionStates
    BY <1>2, <2>1, RecordFields DEF Live
  <2>3. st.root \in Roots
    BY <2>2, StateFields
  <2> QED BY <2>2, <2>3 DEF Roots
<1> QED BY <1>1, <1>2

\* Going on from what goes on.
LEMMA ExtendsOn ==
  ASSUME NEW S, NEW s \in Seq(S), NEW t \in Seq(S), NEW u \in Seq(S),
         Extends(t, s), Extends(u, t)
  PROVE  Extends(u, s)
<1>1. Len(s) \in Nat /\ Len(t) \in Nat /\ Len(u) \in Nat
  BY SeqFunction
<1> QED BY <1>1 DEF Extends

\* The outputs u come one after those of the message, t, which come one after s;
\* the other end, b, is in step with s and has sent the message: u is one step
\* ahead of b.
LEMMA StepAhead ==
  ASSUME NEW S, NEW s \in Seq(S), NEW t \in Seq(S), NEW u \in Seq(S), NEW b \in Seq(S),
         OneFurther(t, s), OneFurther(u, t), InStep(s, b), Extends(b, t)
  PROVE  OneFurther(u, b)
<1>1. Len(s) \in Nat /\ Len(t) \in Nat /\ Len(u) \in Nat /\ Len(b) \in Nat
  BY SeqFunction
<1>2. /\ Len(t) = Len(s) + 1 /\ Len(u) = Len(t) + 1 /\ Len(t) <= Len(b)
      /\ Len(s) = Len(b) + 1 \/ Len(b) = Len(s) + 1
  BY Zenon DEF OneFurther, InStep, Extends
<1>3. Len(b) = Len(t)
  BY <1>1, <1>2
<1>4. \A i \in 1 .. Len(t) : b[i] = t[i] /\ u[i] = t[i]
  BY Zenon DEF OneFurther, Extends
<1> QED BY <1>1, <1>2, <1>3, <1>4 DEF OneFurther, Extends

\* The same for the first step of the session that a recipient starts.
LEMMA FirstStepAhead ==
  ASSUME NEW S, NEW t \in Seq(S), NEW u \in Seq(S), NEW b \in Seq(S),
         Len(t) = 1, OneFurther(u, t), Len(b) = 1, Extends(b, t)
  PROVE  OneFurther(u, b)
<1>1. \A i \in 1 .. 1 : b[i] = t[i] /\ u[i] = t[i]
  BY DEF OneFurther, Extends
<1>2. Len(u) = 1 + 1 /\ 1 <= 1 + 1
  BY DEF OneFurther
<1> QED BY <1>1, <1>2, Zenon DEF OneFurther, Extends

\* The prefix that RatchetsInStep names.
LEMMA FurtherPrefix ==
  ASSUME NEW S, NEW s \in Seq(S), NEW t \in Seq(S), OneFurther(t, s)
  PROVE  Len(t) = Len(s) + 1 /\ SubSeq(t, 1, Len(s)) = s
<1>1. Len(s) \in Nat /\ Len(t) = Len(s) + 1 /\ \A i \in 1 .. Len(s) : t[i] = s[i]
  BY SeqFunction DEF OneFurther, Extends
<1>2. \A i \in 1 .. Len(s) : t[i] \in S
  BY <1>1, SeqElement
<1>3. /\ SubSeq(t, 1, Len(s)) \in Seq(S) /\ Len(SubSeq(t, 1, Len(s))) = Len(s)
      /\ \A i \in 1 .. Len(s) : SubSeq(t, 1, Len(s))[i] = t[i]
  BY <1>1, <1>2, SeqSub
<1>4. PICK u \in Seq(S) : u = SubSeq(t, 1, Len(s))
  BY <1>3, Zenon
<1>5. Len(u) = Len(s) /\ \A i \in 1 .. Len(s) : u[i] = s[i]
  BY <1>1, <1>3, <1>4
<1>6. u = s
  BY <1>5
<1> QED BY <1>1, <1>4, <1>6

-----------------------------------------------------------------------------
(***************************************************************************)
(* The invariant, step by step.                                            *)
(***************************************************************************)
\* A session that p starts with the base key it just generated.
Starts(p, y) ==
    /\ Initiated(p, y) /\ Generated(p, BaseOf(y.root.hs))'
    /\ \A q \in Parties : ~Generated(q, BaseOf(y.root.hs))
    /\ Len(y.root.dh) = 1 /\ \E i \in Nat : OfInstallation(p, y, i)

\* A session that p accepts, with the message that brought it.
Accepts(p, y, m) ==
    /\ ~Initiated(p, y) /\ ~Exhausted(p, y.root.hs)
    /\ m.to = p /\ m.mac.gen.root.hs = y.root.hs
    /\ Len(m.mac.gen.root.dh) = 1 /\ OneFurther(y.root.dh, m.mac.gen.root.dh)

Begins(p, y) == Starts(p, y) \/ \E m \in net : Accepts(p, y, m)

\* The messages of the step are on a handshake that is known, on the root key
\* of the session of r.
Posts(p, r) ==
    /\ net \subseteq net'
    /\ \A m \in net' \ net : /\ Peer(m.to) = p /\ m.mac.gen.root.hs \in Secrets
                             /\ \A x \in LiveStates(r) : x.root.hs = m.mac.gen.root.hs
                                   => Extends(x.root.dh, m.mac.gen.root.dh)

\* The root keys after the step go on from those before it.
LEMMA StepsExtend ==
  ASSUME TypeOK, NEW p \in Parties, NEW y \in Live(p), NEW x \in SessionStates, StepsOn(p, x, y)
  PROVE  Extends(x.root.dh, y.root.dh)
<1>1. x.root \in Roots
  BY StateFields
<1>2. x.root.dh \in Seq(SUBSET Keys) /\ y.root.dh \in Seq(SUBSET Keys)
  BY <1>1, OutputsType DEF Roots
<1>3. CASE x.root = y.root
  <2>1. Len(y.root.dh) <= Len(y.root.dh)
    BY <1>2, SeqFunction
  <2> QED BY <1>3, <2>1, Zenon DEF Extends
<1>4. CASE \E m \in net : /\ m.to = p /\ m.mac.gen.root.hs = y.root.hs
                          /\ OneFurther(m.mac.gen.root.dh, y.root.dh)
                          /\ OneFurther(x.root.dh, m.mac.gen.root.dh)
  <2>1. PICK m \in net : /\ OneFurther(m.mac.gen.root.dh, y.root.dh)
                         /\ OneFurther(x.root.dh, m.mac.gen.root.dh)
    BY <1>4, Zenon
  <2>2. m.mac.gen.root.dh \in Seq(SUBSET Keys)
    BY OutputsType
  <2> QED BY <1>2, <2>1, <2>2, ExtendsOn, Zenon DEF OneFurther
<1> QED BY <1>3, <1>4, Zenon DEF StepsOn

\* A step of p that leaves it with the record r and starts the sessions of new.
StepOf(p, r, new) ==
    /\ record' = [record EXCEPT ![p] = r] /\ Onward(p, r, new) /\ Posts(p, r)
    /\ new \in SUBSET SessionStates
    /\ \A y \in new : Begins(p, y)
    /\ \A y1, y2 \in new : y1 = y2

\* Only p has other sessions than before, and each of them is new or was there.
LEMMA SessionsAfter ==
  ASSUME TypeOK, TypeOK', NEW p \in Parties, NEW r, NEW new, StepOf(p, r, new)
  PROVE  /\ record'[p] = r /\ Live(p)' = LiveStates(r) /\ LiveStates(r) \subseteq SessionStates
         /\ \A q \in Parties : q # p => record'[q] = record[q] /\ Live(q)' = Live(q)
         /\ \A x \in Live(p)' :
               x \in new \/ \E y \in Live(p) : Follows(x, y) /\ StepsOn(p, x, y)
<1>1. record' = [record EXCEPT ![p] = r] /\ Onward(p, r, new)
  BY Zenon DEF StepOf
<1>2. record'[p] = r /\ \A q \in Parties : q # p => record'[q] = record[q]
  BY <1>1, Zenon DEF TypeOK
<1>3. r \in Records
  BY <1>2 DEF TypeOK
<1>4. LiveStates(r) \subseteq SessionStates
  BY <1>3, RecordFields
<1> QED BY <1>1, <1>2, <1>4, Zenon DEF Live, Onward

\* A secret is known from a message or from a session.
LEMMA SecretsKnown ==
  /\ \A m \in net : m.mac.gen.root.hs \in Secrets
  /\ \A q \in Parties : \A st \in Live(q) : st.root.hs \in Secrets
<1>1. ASSUME NEW m \in net PROVE m.mac.gen.root.hs \in Secrets
  BY Zenon DEF Secrets
<1>2. ASSUME NEW q \in Parties, NEW st \in Live(q) PROVE st.root.hs \in Secrets
  BY DEF Secrets
<1> QED BY <1>1, <1>2, Zenon

\* ProcessPreKeyBundle generates a base key; no other handshake has it.
LEMMA SecretsStep ==
  ASSUME TypeOK, TypeOK', OneSecretPerBaseKey, StaysExhausted,
         NEW p \in Parties, NEW r, NEW new, StepOf(p, r, new)
  PROVE  OneSecretPerBaseKey'
<1> DEFINE Begun == {hs \in {y.root.hs : y \in new} :
                       /\ Generated(p, BaseOf(hs))'
                       /\ \A q \in Parties : ~Generated(q, BaseOf(hs))}
<1>0. /\ \A q \in Parties : q # p => Live(q)' = Live(q)
      /\ \A x \in Live(p)' : x \in new \/ \E y \in Live(p) : x.root.hs = y.root.hs
  BY SessionsAfter, Zenon DEF Follows
<1>1. ASSUME NEW y \in new PROVE y.root.hs \in Secrets \cup Begun
  <2>1. Begins(p, y)
    BY Zenon DEF StepOf
  <2>2. CASE Starts(p, y)
    BY <2>2, Zenon DEF Starts
  <2>3. CASE \E m \in net : Accepts(p, y, m)
    BY <2>3, SecretsKnown, Zenon DEF Accepts
  <2> QED BY <2>1, <2>2, <2>3, Zenon DEF Begins
<1>2. ASSUME NEW q \in Parties, NEW x \in Live(q)' PROVE x.root.hs \in Secrets \cup Begun
  <2>1. x \in new \/ \E y \in Live(q) : x.root.hs = y.root.hs
    BY <1>0, <1>2, Zenon
  <2> QED BY <1>1, <2>1, SecretsKnown, Zenon
<1>3. ASSUME NEW m \in net' PROVE m.mac.gen.root.hs \in Secrets
  BY <1>3, SecretsKnown, Zenon DEF StepOf, Posts
<1>4. ASSUME NEW hs \in Secrets' PROVE hs \in Secrets \cup Begun
  <2>1. CASE \E m \in net' : hs = m.mac.gen.root.hs
    BY <1>3, <2>1, Zenon
  <2>2. CASE \E q \in Parties : \E x \in Live(q)' : hs = x.root.hs
    BY <1>2, <2>2, Zenon
  <2> QED BY <1>4, <2>1, <2>2 DEF Secrets
<1>5. \A hs1, hs2 \in Begun : hs1 = hs2
  BY Zenon DEF StepOf
<1> HIDE DEF Begun
<1>6. ASSUME NEW hs \in Secrets' PROVE \E q \in Parties : Generated(q, BaseOf(hs))'
  <2>1. CASE hs \in Secrets
    BY <2>1, Zenon DEF OneSecretPerBaseKey, StaysExhausted
  <2>2. CASE hs \in Begun
    BY <2>2, Zenon DEF Begun
  <2> QED BY <1>4, <1>6, <2>1, <2>2, Zenon
<1>7. ASSUME NEW hs1 \in Secrets', NEW hs2 \in Secrets', BaseOf(hs1) = BaseOf(hs2)
      PROVE  hs1 = hs2
  <2>1. \A hs \in Begun : \A q \in Parties : ~Generated(q, BaseOf(hs))
    BY Zenon DEF Begun
  <2>2. \A hs \in Secrets : \E q \in Parties : Generated(q, BaseOf(hs))
    BY Zenon DEF OneSecretPerBaseKey
  <2>3. CASE hs1 \in Begun /\ hs2 \in Begun
    BY <1>5, <2>3, Zenon
  <2>4. CASE hs1 \in Secrets /\ hs2 \in Secrets
    BY <1>7, <2>4, Zenon DEF OneSecretPerBaseKey
  <2>5. ~(hs1 \in Begun /\ hs2 \in Secrets) /\ ~(hs2 \in Begun /\ hs1 \in Secrets)
    BY <1>7, <2>1, <2>2, Zenon
  <2> QED BY <1>4, <1>7, <2>3, <2>4, <2>5, Zenon
<1> QED BY <1>6, <1>7, Zenon DEF OneSecretPerBaseKey, BaseOf

\* A new session has the handshake of no message that its party sent and, unless
\* it accepts the handshake, of no session of the other end.
LEMMA BeginsUnknown ==
  ASSUME TypeOK, SendingInv, OneSecretPerBaseKey, NEW p \in Parties, NEW y, Begins(p, y)
  PROVE  /\ \A m \in net : Peer(m.to) = p => m.mac.gen.root.hs # y.root.hs
         /\ Starts(p, y) => y.root.hs \notin Secrets
<1>1. CASE Starts(p, y)
  <2>1. y.root.hs \notin Secrets
    BY <1>1, Zenon DEF Starts, OneSecretPerBaseKey
  <2> QED BY <2>1, SecretsKnown, Zenon
<1>2. CASE \E m \in net : Accepts(p, y, m)
  <2>1. ~Exhausted(p, y.root.hs) /\ ~Initiated(p, y)
    BY <1>2, Zenon DEF Accepts
  <2>2. ASSUME NEW m \in net, Peer(m.to) = p PROVE Exhausted(p, m.mac.gen.root.hs)
    BY <2>2, Zenon DEF SendingInv, SentFrom
  <2> QED BY <2>1, <2>2, Zenon DEF Starts
<1> QED BY <1>1, <1>2, Zenon DEF Begins

\* The messages stay behind the root keys: Encrypt uses the chain of the current
\* one, Decrypt and DecryptPreKey go on from it.
LEMMA RootsSentStep ==
  ASSUME TypeOK, TypeOK', SendingInv, OneSecretPerBaseKey, RootsSent,
         NEW p \in Parties, NEW r, NEW new, StepOf(p, r, new)
  PROVE  RootsSent'
<1>0. /\ \A q \in Parties : q # p => Live(q)' = Live(q)
      /\ Live(p)' = LiveStates(r) /\ Live(p)' \subseteq SessionStates
      /\ \A x \in Live(p)' :
            x \in new \/ \E y \in Live(p) : Follows(x, y) /\ StepsOn(p, x, y)
  BY SessionsAfter, Zenon
<1>1. ASSUME NEW m \in net', NEW x \in Live(Peer(m.to))', x.root.hs = m.mac.gen.root.hs
      PROVE  Extends(x.root.dh, m.mac.gen.root.dh)
  <2>0. m \in Messages
    BY <1>1, Zenon DEF TypeOK
  <2>1. PICK q \in Parties : q = Peer(m.to)
    BY <2>0, KeyTypes DEF Messages
  <2>2. CASE m \notin net
    <3>1. q = p /\ \A z \in LiveStates(r) : z.root.hs = m.mac.gen.root.hs
                                              => Extends(z.root.dh, m.mac.gen.root.dh)
      BY <1>1, <2>1, <2>2, Zenon DEF StepOf, Posts
    <3>2. x \in Live(q)'
      BY <1>1, <2>1, Zenon
    <3> QED BY <1>0, <1>1, <3>1, <3>2, Zenon
  <2>3. CASE m \in net /\ q # p
    <3>1. x \in Live(q)'
      BY <1>1, <2>1, Zenon
    <3> QED BY <1>0, <1>1, <2>1, <2>3, <3>1, Zenon DEF RootsSent
  <2>4. CASE m \in net /\ q = p
    <3>1. x \notin new
      BY <1>1, <2>1, <2>4, BeginsUnknown, Zenon DEF StepOf
    <3>2. PICK y \in Live(p) : Follows(x, y) /\ StepsOn(p, x, y)
      BY <1>0, <1>1, <2>1, <2>4, <3>1, Zenon
    <3>3. x \in SessionStates
      BY <1>0, <1>1, <2>1, <2>4, Zenon
    <3>4. Extends(y.root.dh, m.mac.gen.root.dh)
      BY <1>1, <2>1, <2>4, <3>2, Zenon DEF RootsSent, Follows
    <3>5. Extends(x.root.dh, y.root.dh)
      BY <3>2, <3>3, StepsExtend, Zenon
    <3>6. x.root.dh \in Seq(SUBSET Keys)
      BY <3>3, StateFields DEF Roots
    <3>7. y.root.dh \in Seq(SUBSET Keys) /\ m.mac.gen.root.dh \in Seq(SUBSET Keys)
      BY <2>4, OutputsType, Zenon
    <3> QED BY <3>4, <3>5, <3>6, <3>7, ExtendsOn, Zenon
  <2> QED BY <2>2, <2>3, <2>4, Zenon
<1> QED BY <1>1, Zenon DEF RootsSent

\* A base key is the key of one of the two parties: the other end of a session
\* that p did not initiate is the initiator's.
LEMMA OtherEnd ==
  ASSUME TypeOK, NEW p \in Parties, NEW x \in SessionStates, NEW b, x.base = b.base,
         ~Initiated(p, x)
  PROVE  Initiated(Peer(p), b)
<1>1. x.base[2] \in Parties
  BY StateFields DEF Keys
<1>2. x.base[2] # p
  BY DEF Initiated
<1>3. x.base[2] = Peer(p)
  BY <1>1, <1>2 DEF Parties, Peer
<1> QED BY <1>3 DEF Initiated

\* The end that moves on has received a message of the other end's root key, and
\* the end that starts accepts the first one.
LEMMA EndsStep ==
  ASSUME TypeOK, TypeOK', SessionInv, SessionInv', SendingInv, RatchetInv,
         NEW p \in Parties, NEW r, NEW new, StepOf(p, r, new),
         NEW x \in Live(p)', NEW b \in Live(Peer(p)), x.root.hs = b.root.hs
  PROVE  InStep(x.root.dh, b.root.dh)
<1>0. PICK q \in Parties : q = Peer(p) /\ Peer(q) = p /\ q # p
  BY KeyTypes
<1>1. /\ x \in SessionStates
      /\ x \in new \/ \E y \in Live(p) : Follows(x, y) /\ StepsOn(p, x, y)
  BY SessionsAfter, Zenon
<1>2. x.root.dh \in Seq(SUBSET Keys)
  BY <1>1, StateFields DEF Roots
<1>3. b.root.dh \in Seq(SUBSET Keys) /\ b \in SessionStates
  BY <1>0, OutputsType, Zenon
<1>4. ASSUME NEW y \in Live(p), y.root.hs = b.root.hs
      PROVE  InStep(y.root.dh, b.root.dh)
  <2>1. EndsInStep
    BY DEF RatchetInv
  <2>2. (p = Alice /\ Peer(p) = Bob) \/ (p = Bob /\ Peer(p) = Alice)
    BY DEF Parties, Peer
  <2> QED BY <1>4, <2>1, <2>2, Zenon DEF EndsInStep, InStep
<1>5. ASSUME NEW m \in net, m.to = p, m.mac.gen.root.hs = b.root.hs
      PROVE  Extends(b.root.dh, m.mac.gen.root.dh) /\ m.mac.gen.root.dh \in Seq(SUBSET Keys)
  BY <1>5, OutputsType, Zenon DEF RatchetInv, RootsSent
<1>6. ASSUME NEW y \in Live(p), Follows(x, y), StepsOn(p, x, y)
      PROVE  InStep(x.root.dh, b.root.dh)
  <2>1. y.root.hs = b.root.hs
    BY <1>6, Zenon DEF Follows
  <2>2. InStep(y.root.dh, b.root.dh)
    BY <1>4, <2>1
  <2>3. CASE x.root = y.root
    BY <2>2, <2>3, Zenon
  <2>4. CASE \E m \in net : /\ m.to = p /\ m.mac.gen.root.hs = y.root.hs
                            /\ OneFurther(m.mac.gen.root.dh, y.root.dh)
                            /\ OneFurther(x.root.dh, m.mac.gen.root.dh)
    <3>1. PICK m \in net : /\ m.to = p /\ m.mac.gen.root.hs = y.root.hs
                           /\ OneFurther(m.mac.gen.root.dh, y.root.dh)
                           /\ OneFurther(x.root.dh, m.mac.gen.root.dh)
      BY <2>4, Zenon
    <3>2. PICK t \in Seq(SUBSET Keys) : t = m.mac.gen.root.dh /\ Extends(b.root.dh, t)
      BY <1>5, <2>1, <3>1, Zenon
    <3>3. y.root.dh \in Seq(SUBSET Keys)
      BY OutputsType, Zenon
    <3>4. OneFurther(x.root.dh, b.root.dh)
      BY <1>2, <1>3, <2>2, <3>1, <3>2, <3>3, StepAhead, Zenon
    <3> QED BY <3>4 DEF InStep
  <2> QED BY <1>6, <2>3, <2>4, Zenon DEF StepsOn
<1>7. ASSUME x \in new PROVE InStep(x.root.dh, b.root.dh)
  <2>1. Begins(p, x)
    BY <1>7, Zenon DEF StepOf
  <2>2. ~Starts(p, x)
    <3>1. OneSecretPerBaseKey
      BY DEF RatchetInv
    <3> QED BY <1>0, <2>1, <3>1, BeginsUnknown, SecretsKnown, Zenon
  <2>3. PICK m \in net : Accepts(p, x, m)
    BY <2>1, <2>2, Zenon DEF Begins
  <2>4. /\ ~Initiated(p, x) /\ ~Exhausted(p, x.root.hs) /\ m.to = p
        /\ m.mac.gen.root.hs = b.root.hs
        /\ Len(m.mac.gen.root.dh) = 1 /\ OneFurther(x.root.dh, m.mac.gen.root.dh)
    BY <2>3, Zenon DEF Accepts
  <2>5. x.base = b.base
    <3>1. BaseOf(b.root.hs) = b.base
      BY <1>0, LiveFacts, Zenon DEF SoundState
    <3>2. BaseOf(x.root.hs) = x.base
      BY Zenon DEF SessionInv, SoundState, BaseOf
    <3> QED BY <3>1, <3>2, Zenon
  <2>6. Initiated(q, b)
    BY <1>0, <1>1, <2>4, <2>5, OtherEnd, Zenon
  <2>7. Len(b.root.dh) = 1
    BY <1>0, <2>4, <2>6, Zenon DEF RatchetInv, InitiatorsAnswered, Answered
  <2>8. PICK t \in Seq(SUBSET Keys) : t = m.mac.gen.root.dh /\ Extends(b.root.dh, t)
    BY <1>5, <2>4, Zenon
  <2>9. OneFurther(x.root.dh, b.root.dh)
    BY <1>2, <1>3, <2>4, <2>7, <2>8, FirstStepAhead, Zenon
  <2> QED BY <2>9 DEF InStep
<1> QED BY <1>1, <1>6, <1>7, Zenon

\* The root key of an initiator moves on, and its pending pre-key message is
\* dropped, for a message of the peer only.
LEMMA AnsweredStep ==
  ASSUME TypeOK, TypeOK', SendingInv, InitiatorsAnswered, StaysExhausted,
         NEW p \in Parties, NEW r, NEW new, StepOf(p, r, new)
  PROVE  InitiatorsAnswered'
<1>1. ASSUME NEW hs, HeardFrom(p, hs) PROVE Exhausted(Peer(p), hs)
  BY <1>1, Zenon DEF HeardFrom, SendingInv, SentFrom
<1>2. ASSUME NEW q \in Parties, NEW st, Answered(q, st) PROVE Answered(q, st)'
  BY <1>2, KeyTypes, Zenon DEF Answered, StaysExhausted
<1>3. ASSUME NEW x \in Live(p)', Initiated(p, x)
      PROVE  Len(x.root.dh) = 1 \/ Answered(p, x)'
  <2>1. CASE x \in new
    BY <1>3, <2>1, Zenon DEF StepOf, Begins, Starts, Accepts
  <2>2. ASSUME NEW y \in Live(p), Follows(x, y), StepsOn(p, x, y)
        PROVE  Len(x.root.dh) = 1 \/ Answered(p, x)'
    <3>1. Initiated(p, y) /\ x.root.hs = y.root.hs
      BY <1>3, <2>2, Zenon DEF Follows, Initiated
    <3>2. CASE x.root = y.root
      <4>1. Len(x.root.dh) = 1 \/ Answered(p, x)
        BY <3>1, <3>2, Zenon DEF InitiatorsAnswered, Answered
      <4> QED BY <1>2, <4>1, Zenon
    <3>3. CASE x.root # y.root
      <4>1. HeardFrom(p, x.root.hs)
        BY <2>2, <3>1, <3>3, Zenon DEF StepsOn, HeardFrom
      <4>2. Answered(p, x)
        BY <1>1, <4>1, Zenon DEF Answered
      <4> QED BY <1>2, <4>2, Zenon
    <3> QED BY <3>2, <3>3
  <2> QED BY <1>3, <2>1, <2>2, SessionsAfter, Zenon
<1>4. ASSUME r.current # Nil, Initiated(p, r.current), r.current.pending = Nil
      PROVE  Answered(p, r.current)'
  <2>1. PICK x : x = r.current
    OBVIOUS
  <2>2. \/ /\ record[p].current # Nil /\ Follows(x, record[p].current)
           /\ record[p].current.pending = Nil
        \/ HeardFrom(p, x.root.hs)
    BY <1>4, <2>1, Zenon DEF StepOf, Onward, Acknowledged
  <2>3. CASE HeardFrom(p, x.root.hs)
    BY <1>1, <1>2, <2>1, <2>3, Zenon DEF Answered
  <2>4. CASE /\ record[p].current # Nil /\ Follows(x, record[p].current)
             /\ record[p].current.pending = Nil
    <3>1. PICK y : y = record[p].current
      OBVIOUS
    <3>2. Answered(p, y)
      BY <1>4, <2>1, <2>4, <3>1, Zenon DEF InitiatorsAnswered, Follows, Initiated
    <3>3. Answered(p, x)
      BY <2>4, <3>1, <3>2, Zenon DEF Answered, Follows
    <3> QED BY <1>2, <2>1, <3>3, Zenon
  <2> QED BY <2>2, <2>3, <2>4
<1>5. record'[p] = r
  BY SessionsAfter, Zenon
<1>6. ASSUME NEW q \in Parties, q # p
      PROVE  /\ \A st \in Live(q)' : Initiated(q, st) => Len(st.root.dh) = 1 \/ Answered(q, st)'
             /\ \A st : (st = record'[q].current /\ st # Nil /\ Initiated(q, st) /\ st.pending = Nil)
                         => Answered(q, st)'
  <2>1. Live(q)' = Live(q) /\ record'[q] = record[q]
    BY <1>6, SessionsAfter, Zenon
  <2>2. PICK y : y = record[q].current
    OBVIOUS
  <2>3. y # Nil /\ Initiated(q, y) /\ y.pending = Nil => Answered(q, y)
    BY <2>2, Zenon DEF InitiatorsAnswered
  <2> QED BY <1>2, <2>1, <2>2, <2>3, Zenon DEF InitiatorsAnswered
<1>7. ASSUME NEW q \in Parties, NEW st, st = record'[q].current, st # Nil, Initiated(q, st),
             st.pending = Nil
      PROVE  Answered(q, st)'
  BY <1>4, <1>5, <1>6, <1>7, Zenon
<1>8. ASSUME NEW q \in Parties, NEW x \in Live(q)', Initiated(q, x)
      PROVE  Len(x.root.dh) = 1 \/ Answered(q, x)'
  BY <1>3, <1>6, <1>8, Zenon
<1> QED BY <1>7, <1>8, Zenon DEF InitiatorsAnswered, Initiated, Answered, Exhausted, Generated,
                                 KyberPreKey, BaseOf, KyberOf

\* A session keeps the identity and the Kyber key it was started with.
LEMMA WholeStep ==
  ASSUME TypeOK, TypeOK', BundlesWhole, NEW p \in Parties, NEW r, NEW new, StepOf(p, r, new)
  PROVE  BundlesWhole'
<1>0. /\ \A q \in Parties : q # p => Live(q)' = Live(q)
      /\ \A x \in Live(p)' : x \in new \/ \E y \in Live(p) : /\ x.base = y.base /\ x.remote = y.remote
                                                            /\ x.root.hs = y.root.hs
  BY SessionsAfter, Zenon DEF Follows
<1>1. ASSUME NEW q \in Parties, NEW x \in Live(q)', Initiated(q, x)
      PROVE  \E i \in Nat : OfInstallation(q, x, i)
  <2>1. CASE q = p /\ x \in new
    BY <1>1, <2>1, Zenon DEF StepOf, Begins, Starts, Accepts
  <2>2. ASSUME NEW y \in Live(q), x.base = y.base, x.remote = y.remote, x.root.hs = y.root.hs
        PROVE  \E i \in Nat : OfInstallation(q, x, i)
    <3>1. Initiated(q, y)
      BY <1>1, <2>2, Zenon DEF Initiated
    <3> QED BY <2>2, <3>1, Zenon DEF BundlesWhole, OfInstallation
  <2> QED BY <1>0, <1>1, <2>1, <2>2, Zenon
<1> QED BY <1>1, Zenon DEF BundlesWhole, Initiated, OfInstallation, KyberOf

\* Any step of p.
LEMMA StepKeeps ==
  ASSUME TypeOK, TypeOK', SessionInv, SessionInv', SendingInv, RatchetInv, StaysExhausted,
         NEW p \in Parties, NEW r, NEW new, StepOf(p, r, new)
  PROVE  RatchetInv'
<1>1. OneSecretPerBaseKey /\ RootsSent /\ InitiatorsAnswered /\ BundlesWhole
  BY DEF RatchetInv
<1>2. OneSecretPerBaseKey' /\ RootsSent' /\ InitiatorsAnswered' /\ BundlesWhole'
  BY <1>1, SecretsStep, RootsSentStep, AnsweredStep, WholeStep
<1>3. ASSUME NEW a \in Live(Alice)', NEW b \in Live(Bob)', a.root.hs = b.root.hs
      PROVE  InStep(a.root.dh, b.root.dh)
  <2>1. Alice \in Parties /\ Bob \in Parties /\ Peer(Alice) = Bob /\ Peer(Bob) = Alice
    BY SessionAssumption DEF Parties, Peer
  <2>2. CASE p = Alice
    <3>1. b \in Live(Bob)
      BY <1>3, <2>1, <2>2, SessionsAfter, SessionAssumption, Zenon
    <3> QED BY <1>3, <2>1, <2>2, <3>1, EndsStep, Zenon
  <2>3. CASE p = Bob
    <3>1. a \in Live(Alice)
      BY <1>3, <2>1, <2>3, SessionsAfter, SessionAssumption, Zenon
    <3>2. InStep(b.root.dh, a.root.dh)
      BY <1>3, <2>1, <2>3, <3>1, EndsStep, Zenon
    <3> QED BY <3>2, Zenon DEF InStep
  <2> QED BY <2>2, <2>3 DEF Parties
<1>4. EndsInStep'
  BY <1>3, Zenon DEF EndsInStep, InStep
<1> QED BY <1>2, <1>4 DEF RatchetInv

\* A step of p that sends nothing and starts no session.
LEMMA QuietKeeps ==
  ASSUME TypeOK, TypeOK', SessionInv, SessionInv', SendingInv, RatchetInv, StaysExhausted,
         UNCHANGED net, NEW p \in Parties, NEW r, record' = [record EXCEPT ![p] = r],
         Onward(p, r, {})
  PROVE  RatchetInv'
<1>1. Posts(p, r)
  BY Zenon DEF Posts
<1>2. {} \in SUBSET SessionStates
  OBVIOUS
<1>3. StepOf(p, r, {})
  BY <1>1, <1>2, Zenon DEF StepOf
<1> QED BY <1>3, StepKeeps, Zenon

\* The same for a step that changes no record.
LEMMA StillKeeps ==
  ASSUME TypeOK, TypeOK', SessionInv, SessionInv', SendingInv, RatchetInv, StaysExhausted,
         UNCHANGED <<net, record>>
  PROVE  RatchetInv'
<1>1. Alice \in Parties
  BY DEF Parties
<1>2. PICK r : r = record[Alice]
  OBVIOUS
<1>3. record' = [record EXCEPT ![Alice] = r] /\ Onward(Alice, r, {})
  BY <1>1, <1>2, SameOnward, Zenon DEF TypeOK
<1> QED BY <1>1, <1>3, QuietKeeps, Zenon

-----------------------------------------------------------------------------
(***************************************************************************)
(* The handlers.                                                           *)
(***************************************************************************)
\* The initiator starts one Diffie-Hellman step ahead.
LEMMA NewSessionStarts ==
  ASSUME TypeOK, NEW p \in Parties, NEW id \in PreKeyIDs \cup {Nil}, NEW st,
         st = NewSession(p, id), fresh' = [fresh EXCEPT ![p] = @ + 2]
  PROVE  Starts(p, st)
<1>1. /\ st.base = KeyPair(p, fresh[p]) /\ BaseOf(st.root.hs) = st.base
      /\ KyberOf(st.root.hs) = KyberPreKey(Peer(p)) /\ st.remote = IdentityKey(Peer(p))
  BY NewSessionProperties, NewSessionPending, Zenon
<1>2. Initiated(p, st)
  BY <1>1 DEF Initiated, KeyPair
<1>3. fresh[p] \in Nat /\ fresh'[p] = fresh[p] + 2
  BY DEF TypeOK
<1>4. fresh[p] \in 0 .. fresh'[p] - 1
  BY <1>3
<1>5. Generated(p, BaseOf(st.root.hs))'
  <2>1. PICK key : key = BaseOf(st.root.hs)
    BY Zenon
  <2>2. key = KeyPair(p, fresh[p])
    BY <1>1, <2>1, Zenon
  <2>3. Generated(p, key)'
    BY <1>4, <2>2, Zenon DEF Generated, KeyPair
  <2> QED BY <2>1, <2>3, Zenon DEF BaseOf
<1>6. ASSUME NEW q \in Parties PROVE ~Generated(q, BaseOf(st.root.hs))
  <2>1. CASE q = p
    BY <1>1, <2>1, NewSessionUnused, Zenon
  <2>2. CASE q # p
    BY <1>1, <2>2 DEF Generated, KeyPair
  <2> QED BY <2>1, <2>2
<1>7. Len(st.root.dh) = 1
  BY NewSessionEnd, Zenon
<1>8. installation[Peer(p)] \in Nat
  BY KeyTypes DEF TypeOK
<1>9. OfInstallation(p, st, installation[Peer(p)])
  BY <1>1, Zenon DEF OfInstallation, IdentityKey, KyberPreKey
<1> QED BY <1>2, <1>5, <1>6, <1>7, <1>8, <1>9, Zenon DEF Starts

\* ProcessPreKeyBundle.
LEMMA ProcessRatchet ==
  ASSUME TypeOK, TypeOK', SessionInv, SessionInv', SendingInv, RatchetInv, StaysExhausted,
         NEW p \in Parties, ProcessPreKeyBundle(p)
  PROVE  RatchetInv'
<1>1. PICK id \in (PreKeyIDs \ issued[Peer(p)]) \cup {Nil} :
        \/ ProcessRejected(p, id)
        \/ \E last \in {Nothing, Removed, Stored} : ProcessAccepted(p, id, last)
  BY DEF ProcessPreKeyBundle
<1>2. CASE ProcessRejected(p, id)
  BY <1>2, StillKeeps DEF ProcessRejected, stores
<1>3. ASSUME NEW last \in {Nothing, Removed, Stored}, ProcessAccepted(p, id, last)
      PROVE  RatchetInv'
  <2>1. PICK st : st = NewSession(p, id)
    BY Zenon
  <2>2. PICK r : record' = [record EXCEPT ![p] = r] /\ Onward(p, r, {st})
    BY <1>3, <2>1, ProcessOnward, ZenonT(40)
  <2>3. UNCHANGED net /\ fresh' = [fresh EXCEPT ![p] = @ + 2]
    BY <1>3 DEF ProcessAccepted
  <2>4. Starts(p, st) /\ st \in SessionStates
    BY <2>1, <2>3, NewSessionStarts, NewSessionProperties, Zenon
  <2>5. Posts(p, r)
    BY <2>3, Zenon DEF Posts
  <2>6. {st} \in SUBSET SessionStates
    BY <2>4
  <2>7. StepOf(p, r, {st})
    BY <2>2, <2>4, <2>5, <2>6, Zenon DEF StepOf, Begins
  <2> QED BY <2>7, StepKeeps, Zenon
<1> QED BY <1>1, <1>2, <1>3

\* Encrypt: the message that leaves is of the root key of the current session.
LEMMA EncryptRatchet ==
  ASSUME TypeOK, TypeOK', SessionInv, SessionInv', SendingInv, RatchetInv, StaysExhausted,
         NEW p \in Parties, Encrypt(p)
  PROVE  RatchetInv'
<1>1. CASE EncryptNoSession(p)
  BY <1>1, StillKeeps DEF EncryptNoSession, stores
<1>2. CASE EncryptRejected(p)
  <2>1. PICK r : record' = [record EXCEPT ![p] = r] /\ Onward(p, r, {})
    BY <1>2, EncryptOnward
  <2> QED BY <1>2, <2>1, QuietKeeps, Zenon DEF EncryptRejected
<1>3. ASSUME NEW last \in {Nothing, Removed, Stored}, EncryptAccepted(p, last)
      PROVE  RatchetInv'
  <2>1. PICK r : record' = [record EXCEPT ![p] = r] /\ Onward(p, r, {})
    BY <1>3, EncryptOnward
  <2>2. CASE last # Stored
    <3>1. UNCHANGED net
      BY <1>3, <2>2, Zenon DEF EncryptAccepted, Completed
    <3> QED BY <2>1, <3>1, QuietKeeps, Zenon
  <2>3. CASE last = Stored
    <3>1. EncryptAccepted(p, Stored)
      BY <1>3, <2>3, Zenon
    <3>2. PICK st, full, n :
            /\ st = record[p].current /\ st # Nil /\ st \in SessionStates /\ st \in Live(p)
            /\ record[p] \in Records /\ net' = net \cup {MessageOf(p, st)}
            /\ full \in SessionStates /\ Follows(full, st) /\ full.root = st.root
            /\ full.pending = st.pending
            /\ full.pq.send.ctr = st.pq.send.ctr + 1 /\ full.ck.n = st.ck.n + 1
            /\ n = SetCurrentState(record[p], full) /\ record' = [record EXCEPT ![p] = n]
      BY <3>1, EncryptSends
    <3>3. PICK m : m = MessageOf(p, st)
      BY Zenon
    <3>4. m.to = Peer(p) /\ m.mac.gen = st.ck
      BY <3>3 DEF MessageOf, MacOf
    <3>5. st.ck.root = st.root
      BY <3>2, Zenon DEF SendingInv, SendingEnd
    <3>6. r = n
      <4>1. record'[p] = r /\ record'[p] = n
        BY <2>1, <3>2, Zenon DEF TypeOK
      <4> QED BY <4>1
    <3>7. ASSUME NEW x \in LiveStates(r), x.root.hs = st.root.hs
          PROVE  Extends(x.root.dh, m.mac.gen.root.dh)
      <4>1. x = full
        BY <3>2, <3>6, <3>7, OneOfSecret, Zenon
      <4>2. st.root.dh \in Seq(SUBSET Keys)
        BY <3>2, OutputsType, Zenon
      <4>3. Len(st.root.dh) <= Len(st.root.dh)
        BY <4>2, SeqFunction
      <4> QED BY <3>2, <3>4, <3>5, <4>1, <4>3, Zenon DEF Extends
    <3>8. m.mac.gen.root.hs \in Secrets /\ Peer(m.to) = p
      BY <3>2, <3>4, <3>5, SecretsKnown, KeyTypes, Zenon
    <3>9. Posts(p, r)
      BY <3>2, <3>3, <3>4, <3>5, <3>7, <3>8, Zenon DEF Posts
    <3>10. {} \in SUBSET SessionStates
      OBVIOUS
    <3>11. StepOf(p, r, {})
      BY <2>1, <3>9, <3>10, Zenon DEF StepOf
    <3> QED BY <3>11, StepKeeps, Zenon
  <2> QED BY <2>2, <2>3
<1> QED BY <1>1, <1>2, <1>3 DEF Encrypt

\* Decrypt.
LEMMA DecryptRatchet ==
  ASSUME TypeOK, TypeOK', SessionInv, SessionInv', SendingInv, RatchetInv, StaysExhausted,
         NEW p \in Parties, NEW m \in net, Decrypt(p, m)
  PROVE  RatchetInv'
<1>1. UNCHANGED net
  BY Zenon DEF Decrypt
<1>2. PICK r : record' = [record EXCEPT ![p] = r] /\ Onward(p, r, {})
  BY DecryptOnward
<1> QED BY <1>1, <1>2, QuietKeeps, Zenon

\* DecryptPreKey: a new session starts with the DH ratchet step of its first
\* message.
LEMMA PreKeyRatchet ==
  ASSUME TypeOK, TypeOK', SessionInv, SessionInv', SendingInv, RatchetInv, StaysExhausted,
         NEW p \in Parties, NEW m \in net, DecryptPreKey(p, m)
  PROVE  RatchetInv'
<1> DEFINE w == PreKeyResult(p, m)
<1>0. m.to = p /\ m.pre # Nil /\ UNCHANGED net
  BY DEF DecryptPreKey
<1>1. CASE DecryptPreKeyRejected(p, m) \/ DecryptPreKeyReused(p, m)
  <2>1. UNCHANGED record
    BY <1>1 DEF DecryptPreKeyRejected, DecryptPreKeyReused, stores
  <2> QED BY <1>0, <2>1, StillKeeps
<1>2. ASSUME NEW last \in Nothing .. Stored, DecryptPreKeyCommit(p, m, last)
      PROVE  RatchetInv'
  <2>1. /\ w.err = "ok" /\ (w.matched \/ m.pre.base \notin baseKeysSeen[p])
        /\ record' = [record EXCEPT ![p] = IF last = Stored THEN w.r ELSE record[p]]
    BY <1>2 DEF DecryptPreKeyCommit, BaseKeyReused
  <2>2. PICK st \in SessionStates : ResumedOrNew(p, m, w, st)
    BY <1>0, <2>1, PreKeyResultProperties, Zenon
  <2> HIDE DEF w
  <2>3. CASE last # Stored
    <3>1. UNCHANGED record
      BY <2>1, <2>3, Zenon DEF TypeOK
    <3> QED BY <1>0, <3>1, StillKeeps
  <2>4. CASE last = Stored
    <3>1. PICK r, x : r = w.r /\ x = r.current
      BY Zenon
    <3>2. PICK new : new = IF w.matched THEN {} ELSE {x}
      BY Zenon
    <3>3. /\ Onward(p, r, new) /\ x \in SessionStates /\ Follows(x, st)
          /\ m.mac.gen.root.hs = st.root.hs
          /\ st.recv = <<>> => /\ OneFurther(m.mac.gen.root.dh, st.root.dh)
                               /\ OneFurther(x.root.dh, m.mac.gen.root.dh)
      BY <1>0, <2>2, <3>1, <3>2, PreKeyOnward, Zenon
    <3>4. ASSUME ~w.matched PROVE Accepts(p, x, m)
      <4>1. st = recipientPreKeyState(p, m.pre) /\ m.pre.base \notin baseKeysSeen[p]
        BY <2>1, <2>2, <3>4, ZenonT(40) DEF ResumedOrNew
      <4>2. st.recv = <<>> /\ Len(st.root.dh) = 0 /\ ~Exhausted(p, st.root.hs)
        BY <1>0, <4>1, AcceptedEnd, AcceptedUnused, Zenon
      <4>3. st.base = m.pre.base
        BY <1>0, <4>1, AcceptedState, Zenon
      <4>4. m.pre.base[2] # p
        BY <1>0, KeyTypes, Zenon DEF SessionInv, SoundMessage, PeersKey
      <4>5. x.base = st.base /\ x.root.hs = st.root.hs
        BY <3>3, Zenon DEF Follows
      <4>6. Len(m.mac.gen.root.dh) = 1
        <5>1. Len(m.mac.gen.root.dh) = 0 + 1
          BY <3>3, <4>2, Zenon DEF OneFurther
        <5> QED BY <5>1
      <4> QED BY <1>0, <3>3, <4>2, <4>3, <4>4, <4>5, <4>6, Zenon DEF Accepts, Initiated
    <3>5. /\ new \in SUBSET SessionStates /\ \A y \in new : Begins(p, y)
          /\ \A y1, y2 \in new : y1 = y2
      BY <3>2, <3>3, <3>4, Zenon DEF Begins
    <3>6. record' = [record EXCEPT ![p] = r]
      BY <2>1, <2>4, <3>1, Zenon
    <3>7. Posts(p, r)
      BY <1>0, Zenon DEF Posts
    <3>8. StepOf(p, r, new)
      BY <3>3, <3>5, <3>6, <3>7, Zenon DEF StepOf
    <3> QED BY <3>8, StepKeeps, Zenon
  <2> QED BY <2>3, <2>4
<1> QED BY <1>1, <1>2 DEF DecryptPreKey

\* Reinstall: no session is left.
LEMMA ReinstallRatchet ==
  ASSUME TypeOK, TypeOK', SessionInv, SessionInv', SendingInv, RatchetInv, StaysExhausted,
         NEW p \in Parties, Reinstall(p)
  PROVE  RatchetInv'
<1>1. PICK r : r = NewFreshSessionRecord
  BY Zenon
<1>2. record' = [record EXCEPT ![p] = r] /\ UNCHANGED net
  BY <1>1, Zenon DEF Reinstall
<1>3. LiveStates(r) = {} /\ r.current = Nil
  BY <1>1, FreshRecord DEF NewFreshSessionRecord
<1>4. Onward(p, r, {})
  BY <1>3, Zenon DEF Onward, Acknowledged
<1> QED BY <1>2, <1>4, QuietKeeps, Zenon

\* ArchiveCurrentState by the host.
LEMMA ArchiveRatchet ==
  ASSUME TypeOK, TypeOK', SessionInv, SessionInv', SendingInv, RatchetInv, StaysExhausted,
         NEW p \in Parties, ArchiveSession(p)
  PROVE  RatchetInv'
<1>1. PICK r : r = ArchiveCurrentState(record[p])
  BY Zenon
<1>2. record' = [record EXCEPT ![p] = r] /\ UNCHANGED net
  BY <1>1, Zenon DEF ArchiveSession
<1>3. Onward(p, r, {})
  BY <1>1, ArchiveOnward
<1> QED BY <1>2, <1>3, QuietKeeps, Zenon

\* Every step preserves RatchetInv.
LEMMA NextRatchet ==
  ASSUME TypeOK, TypeOK', SessionInv, SessionInv', SendingInv, RatchetInv, [Next]_vars
  PROVE  RatchetInv'
<1>1. StaysExhausted
  BY StepExhausts
<1>2. CASE Tick \/ UNCHANGED vars \/ \E p \in Parties : Reset(p)
  <2>1. UNCHANGED <<record, net>>
    BY <1>2 DEF Tick, Reset, vars, stores
  <2> QED BY <1>1, <2>1, StillKeeps, Zenon
<1> QED BY <1>1, <1>2, ProcessRatchet, EncryptRatchet, DecryptRatchet, PreKeyRatchet,
           ReinstallRatchet, ArchiveRatchet DEF Next

-----------------------------------------------------------------------------
\* The inductive invariant: a base key names one handshake, the root keys of its
\* two ends are one step apart and ahead of the messages, and no end moves on
\* before the other has the handshake.
THEOREM RatchetInvariant == Spec => []RatchetInv
<1>1. ASSUME Init PROVE RatchetInv
  <2>1. net = {} /\ \A p \in Parties : Live(p) = {} /\ record[p].current = Nil
    BY <1>1, FreshRecord DEF Init, Live, NewFreshSessionRecord
  <2>2. Secrets = {}
    BY <2>1, Zenon DEF Secrets
  <2>3. Alice \in Parties
    BY DEF Parties
  <2> QED BY <2>1, <2>2, <2>3, Zenon DEF RatchetInv, OneSecretPerBaseKey, RootsSent, EndsInStep,
                                   InitiatorsAnswered, BundlesWhole
<1>2. TypeOK /\ TypeOK' /\ SessionInv /\ SessionInv' /\ SendingInv /\ RatchetInv /\ [Next]_vars
        => RatchetInv'
  BY NextRatchet
<1> QED BY <1>1, <1>2, TypeCorrect, SessionInvariant, SendingInvariant, PTL DEF Spec

\* Where both parties hold the session of a base key, whatever messages were
\* lost, reordered or replayed in between, they derived one handshake secret and
\* their root keys are one Diffie-Hellman step apart.
THEOREM RatchetsStayInStep == Spec => []RatchetsInStep
<1>1. ASSUME TypeOK, SessionInv, RatchetInv PROVE RatchetsInStep
  <2>1. ASSUME NEW a \in Live(Alice), NEW b \in Live(Bob), a.base = b.base
        PROVE  LET s == a.root.dh
                   t == b.root.dh
               IN  /\ a.root.hs = b.root.hs
                   /\ \/ Len(t) = Len(s) + 1 /\ SubSeq(t, 1, Len(s)) = s
                      \/ Len(s) = Len(t) + 1 /\ SubSeq(s, 1, Len(t)) = t
    <3>1. Alice \in Parties /\ Bob \in Parties
      BY DEF Parties
    <3>2. BaseOf(a.root.hs) = BaseOf(b.root.hs)
      BY <1>1, <2>1, <3>1, LiveFacts, Zenon DEF SoundState
    <3>3. a.root.hs = b.root.hs
      BY <1>1, <3>1, <3>2, SecretsKnown, Zenon DEF RatchetInv, OneSecretPerBaseKey
    <3>4. OneFurther(a.root.dh, b.root.dh) \/ OneFurther(b.root.dh, a.root.dh)
      BY <1>1, <3>3, Zenon DEF RatchetInv, EndsInStep
    <3>5. a.root.dh \in Seq(SUBSET Keys) /\ b.root.dh \in Seq(SUBSET Keys)
      BY <1>1, <3>1, OutputsType, Zenon
    <3> QED BY <3>3, <3>4, <3>5, FurtherPrefix, Zenon
  <2> QED BY <2>1, Zenon DEF RatchetsInStep
<1> QED BY <1>1, TypeCorrect, SessionInvariant, RatchetInvariant, PTL

\* An initiator whose current session has no pending pre-key message any more has
\* a peer whose Kyber store remembers the handshake, unless that peer has been
\* installed anew since.
THEOREM PeerAcknowledged == Spec => []AcknowledgedByPeer
<1>1. ASSUME TypeOK, SessionInv, RatchetInv PROVE AcknowledgedByPeer
  <2>1. ASSUME NEW p \in Parties, NEW st, st = record[p].current, st # Nil, Initiated(p, st),
               st.pending = Nil, st.remote = IdentityKey(Peer(p))
        PROVE  st.base \in baseKeysSeen[Peer(p)]
    <3>0. PICK q \in Parties : q = Peer(p) /\ q # p
      BY <1>1, KeyTypes
    <3>1. st \in Live(p)
      BY <1>1, <2>1, RecordFields DEF TypeOK, Live
    <3>2. Exhausted(q, st.root.hs)
      BY <1>1, <2>1, <3>0, Zenon DEF RatchetInv, InitiatorsAnswered, Answered
    <3>3. BaseOf(st.root.hs) = st.base
      BY <1>1, <3>1, LiveFacts, Zenon DEF SoundState
    <3>4. PICK i \in Nat : /\ st.remote = <<"identity", q, i, 0>>
                           /\ KyberOf(st.root.hs) = <<"kyber", q, i, 0>>
      BY <1>1, <2>1, <3>0, <3>1, Zenon DEF RatchetInv, BundlesWhole, OfInstallation
    <3>5. i = installation[q]
      BY <2>1, <3>0, <3>4 DEF IdentityKey
    <3>6. ~Generated(q, BaseOf(st.root.hs))
      BY <2>1, <3>0, <3>3 DEF Generated, KeyPair, Initiated
    <3>7. ~\E j \in 0 .. installation[q] - 1 : KyberOf(st.root.hs) = <<"kyber", q, j, 0>>
      BY <3>4, <3>5
    <3> QED BY <3>0, <3>2, <3>3, <3>6, <3>7, Zenon DEF Exhausted
  <2> QED BY <2>1, Zenon DEF AcknowledgedByPeer
<1> QED BY <1>1, TypeCorrect, SessionInvariant, RatchetInvariant, PTL

-----------------------------------------------------------------------------
\* A message that Decrypt or DecryptPreKey rejects before the commit leaves every
\* store as it was: the state that decryptWithState changed is a copy, also where
\* LoadSession returned the stored object itself.
THEOREM RejectionsChangeNothing == Spec => RejectionChangesNothing
<1> DEFINE Rejects == /\ out'.op \in {"Decrypt", "DecryptPreKey"}
                      /\ out'.err \notin {"ok", "store", "ErrReusedBaseKey"}
<1>1. ASSUME [Next]_vars, Rejects PROVE UNCHANGED stores
  <2>1. ASSUME NEW p \in Parties, NEW m \in net, Decrypt(p, m) PROVE UNCHANGED stores
    <3>1. UNCHANGED <<known, preKeys, baseKeysSeen>>
      BY <2>1, Zenon DEF Decrypt
    <3>2. UNCHANGED record \/ out' = [op |-> "Decrypt", err |-> "ok"]
                           \/ out' = [op |-> "Decrypt", err |-> "store"]
      BY <2>1, Zenon DEF Decrypt, Return
    <3> QED BY <1>1, <3>1, <3>2 DEF stores
  <2>2. ASSUME NEW p \in Parties, NEW m \in net, DecryptPreKey(p, m) PROVE UNCHANGED stores
    <3>1. \/ UNCHANGED stores \/ out' = [op |-> "DecryptPreKey", err |-> "ErrReusedBaseKey"]
          \/ \E last : out' = [op |-> "DecryptPreKey",
                               err |-> IF last = Stored THEN "ok" ELSE "store"]
      BY <2>2, Zenon DEF DecryptPreKey, DecryptPreKeyRejected, DecryptPreKeyReused,
                         DecryptPreKeyCommit, Return
    <3> QED BY <1>1, <3>1
  <2>3. ASSUME \E op, err : out' = [op |-> op, err |-> err]
                             /\ op \notin {"Decrypt", "DecryptPreKey"}
        PROVE  UNCHANGED stores
    BY <1>1, <2>3
  <2>4. ASSUME NEW p \in Parties, ProcessPreKeyBundle(p) \/ Encrypt(p)
        PROVE  \E op, err : out' = [op |-> op, err |-> err]
                            /\ op \notin {"Decrypt", "DecryptPreKey"}
    <3>1. \E op \in {"ProcessPreKeyBundle", "Encrypt"} : \E err : out' = [op |-> op, err |-> err]
      BY <2>4, Zenon DEF ProcessPreKeyBundle, ProcessRejected, ProcessAccepted, Encrypt,
                         EncryptNoSession, EncryptRejected, EncryptAccepted, Return
    <3> QED BY <3>1
  <2>5. ASSUME NEW p \in Parties, ArchiveSession(p) \/ Reset(p) \/ Reinstall(p)
        PROVE  \E op, err : out' = [op |-> op, err |-> err]
                            /\ op \notin {"Decrypt", "DecryptPreKey"}
    <3>1. \E op \in {"ArchiveCurrentState", "Reset", "Reinstall"} :
            \E err : out' = [op |-> op, err |-> err]
      BY <2>5, Zenon DEF ArchiveSession, Reset, Reinstall, Return
    <3> QED BY <3>1
  <2>6. CASE Tick \/ UNCHANGED vars
    BY <2>6 DEF Tick, vars
  <2> QED BY <1>1, <2>1, <2>2, <2>3, <2>4, <2>5, <2>6, Zenon DEF Next
<1>2. [Next]_vars => [Rejects => UNCHANGED stores]_vars
  BY <1>1
<1> QED BY <1>2, PTL DEF Spec, RejectionChangesNothing

=============================================================================
