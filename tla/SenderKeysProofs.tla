-------------------------- MODULE SenderKeysProofs --------------------------
(***************************************************************************)
(* Proofs of the safety properties of group messaging, for every number of *)
(* members, chains, messages and every value of the caps.                  *)
(***************************************************************************)
EXTENDS SenderKeysProperties, FiniteSetTheorems, WellFoundedInduction, TLAPS

-----------------------------------------------------------------------------
(***************************************************************************)
(* Sets of natural numbers.                                                *)
(***************************************************************************)
\* A set of indices has a smallest one: the first match of a search loop.
LEMMA SmallestIndex ==
  ASSUME NEW T \in SUBSET Nat, T # {}
  PROVE  \E i \in T : \A j \in T : i <= j
<1> DEFINE R == OpToRel(<, Nat)
<1>1. \A i, j \in Nat : <<i, j>> \in R <=> i < j
  BY DEF OpToRel
<1>2. IsWellFoundedOn(R, Nat)
  BY NatLessThanWellFounded, Zenon
<1> HIDE DEF R
<1>3. PICK i \in T : \A j \in T : ~(<<j, i>> \in R)
  BY <1>2, WFMin, Zenon
<1>4. ASSUME NEW j \in T PROVE i <= j
  <2>1. i \in Nat /\ j \in Nat
    OBVIOUS
  <2>2. ~(j < i)
    BY <1>1, <1>3, <2>1, Zenon
  <2> QED BY <2>1, <2>2
<1> QED BY <1>4

\* At most n members of a finite set have fewer than n members above them: a
\* cache that drops its oldest entries beyond a cap respects the cap.
LEMMA LargestAreFew ==
  ASSUME NEW K \in SUBSET Nat, IsFiniteSet(K), NEW n \in Nat
  PROVE  LET T == {i \in K : Cardinality({j \in K : j > i}) < n}
         IN  IsFiniteSet(T) /\ Cardinality(T) <= n
<1> DEFINE Above(i) == {j \in K : j > i}
           T        == {i \in K : Cardinality(Above(i)) < n}
<1> SUFFICES IsFiniteSet(T) /\ Cardinality(T) <= n
  OBVIOUS
<1>1. IsFiniteSet(T)
  <2>1. T \in SUBSET K
    OBVIOUS
  <2> HIDE DEF T
  <2> QED BY <2>1, FS_Subset, Zenon
<1>2. CASE T = {}
  <2> HIDE DEF T
  <2>1. Cardinality(T) = 0
    BY <1>2, FS_EmptySet
  <2> QED BY <1>1, <2>1
<1>3. CASE T # {}
  <2>1. PICK i \in T : \A j \in T : i <= j
    BY <1>3, SmallestIndex, Zenon
  <2>2. IsFiniteSet(Above(i)) /\ Cardinality(Above(i)) < n
    <3>1. Above(i) \in SUBSET K /\ Cardinality(Above(i)) < n
      BY <2>1
    <3> HIDE DEF T, Above
    <3> QED BY <3>1, FS_Subset
  <2>3. Cardinality(Above(i)) \in Nat
    BY <2>2, FS_CardinalityType
  <2>4. ASSUME NEW j \in T PROVE j \in Above(i) \cup {i}
    <3>1. j \in K /\ j \in Nat /\ i \in Nat /\ i <= j
      BY <2>1
    <3>2. j = i \/ j > i
      BY <3>1
    <3> QED BY <3>1, <3>2
  <2> HIDE DEF T, Above
  <2>5. IsFiniteSet(Above(i) \cup {i}) /\ Cardinality(Above(i) \cup {i}) <= n
    <3>1. /\ IsFiniteSet(Above(i) \cup {i})
          /\ Cardinality(Above(i) \cup {i}) =
                IF i \in Above(i) THEN Cardinality(Above(i)) ELSE Cardinality(Above(i)) + 1
      BY <2>2, FS_AddElement
    <3> QED BY <3>1, <2>2, <2>3
  <2>6. Cardinality(T) <= Cardinality(Above(i) \cup {i})
    BY <2>4, <2>5, FS_Subset
  <2>7. Cardinality(T) \in Nat /\ Cardinality(Above(i) \cup {i}) \in Nat
    BY <1>1, <2>5, FS_CardinalityType
  <2> QED BY <1>1, <2>5, <2>6, <2>7
<1> QED BY <1>1, <1>2, <1>3

-----------------------------------------------------------------------------
(***************************************************************************)
(* Records.                                                                *)
(***************************************************************************)
\* A record that is well formed, of well-formed states.
Sound(rec) ==
    /\ rec \in SUBSET SenderKeyStates
    /\ Distinct(rec)
    /\ \A s \in rec : /\ s.place \in 1 .. MaxSenderKeyStates
                      /\ Cardinality(s.keys) <= maxMessageKeys
                      /\ \A i \in s.keys : i < s.iteration

\* t is the state s, at another place perhaps.
Moved(s, t) ==
    /\ t.chainID = s.chainID /\ t.signingKey = s.signingKey
    /\ t.iteration = s.iteration /\ t.keys = s.keys

\* The search from the head of a list finds the first of the candidates.
LEMMA FirstExists ==
  ASSUME NEW S \in SUBSET SenderKeyStates, S # {}
  PROVE  First(S) \in S
<1> DEFINE T == {s.place : s \in S}
<1>1. T \in SUBSET Nat /\ T # {}
  BY DEF SenderKeyStates
<1>2. PICK i \in T : \A j \in T : i <= j
  <2> HIDE DEF T
  <2> QED BY <1>1, SmallestIndex
<1>3. PICK s \in S : s.place = i
  OBVIOUS
<1>4. \A t \in S : s.place <= t.place
  BY <1>2, <1>3
<1> QED BY <1>4 DEF First

\* A record has finitely many states: their places are distinct and bounded.
LEMMA RecordFinite ==
  ASSUME NEW rec, Sound(rec)
  PROVE  IsFiniteSet(rec)
<1> DEFINE f == [s \in rec |-> s.place]
<1>1. f \in Injection(rec, 1 .. MaxSenderKeyStates)
  BY DEF Sound, Distinct, Injection, IsInjective
<1>2. IsFiniteSet(1 .. MaxSenderKeyStates)
  BY FS_Interval, SenderKeysAssumption
<1> HIDE DEF f
<1> QED BY <1>1, <1>2, FS_Injection

\* The number of states before a state tells the states of a list apart.
LEMMA RanksDiffer ==
  ASSUME NEW rec \in SUBSET SenderKeyStates, IsFiniteSet(rec),
         NEW s \in rec, NEW t \in rec, s.place < t.place
  PROVE  /\ Cardinality(Before(rec, s)) \in Nat
         /\ Cardinality(Before(rec, t)) \in Nat
         /\ Cardinality(Before(rec, s)) < Cardinality(Before(rec, t))
<1>1. Before(rec, t) \in SUBSET rec /\ Before(rec, s) \in SUBSET Before(rec, t)
  BY DEF Before, SenderKeyStates
<1>2. s \in Before(rec, t) /\ s \notin Before(rec, s)
  BY DEF Before, SenderKeyStates
<1>3. IsFiniteSet(Before(rec, t))
  BY <1>1, FS_Subset
<1>4. /\ IsFiniteSet(Before(rec, s))
      /\ Cardinality(Before(rec, s)) <= Cardinality(Before(rec, t))
      /\ Cardinality(Before(rec, s)) # Cardinality(Before(rec, t))
  BY <1>1, <1>2, <1>3, FS_Subset
<1>5. Cardinality(Before(rec, s)) \in Nat /\ Cardinality(Before(rec, t)) \in Nat
  BY <1>3, <1>4, FS_CardinalityType
<1> QED BY <1>4, <1>5

\* The states a record has after AddSenderKeyState: old ones that moved, or the
\* new one when its chain was not known.
LEMMA AddRecord ==
  ASSUME NEW rec, Sound(rec),
         NEW new \in SenderKeyStates, new.keys = {}, new.place = 1
  PROVE  /\ Sound(AddSenderKeyState(rec, new))
         /\ \A t \in AddSenderKeyState(rec, new) :
               \/ \E s \in rec : Moved(s, t)
               \/ /\ Moved(new, t)
                  /\ \A s \in rec : ~(s.chainID = new.chainID /\ s.signingKey = new.signingKey)
<1> DEFINE existing == removeState(rec, new)
           state    == IF existing = {} THEN new ELSE First(existing)
           others   == removeStatesWithChainID(rec, state)
           rank(s)  == Cardinality(Before(others, s))
           kept     == {s \in others : rank(s) < MaxSenderKeyStates - 1}
           head     == [state EXCEPT !.place = 1]
           tail     == {[s EXCEPT !.place = rank(s) + 2] : s \in kept}
<1>1. AddSenderKeyState(rec, new) = {head} \cup tail
  BY DEF AddSenderKeyState
<1>2. /\ state \in SenderKeyStates
      /\ state \in rec \/ (state = new /\ existing = {})
  <2>1. CASE existing = {}
    BY <2>1
  <2>2. CASE existing # {}
    <3>1. existing \in SUBSET rec /\ existing \in SUBSET SenderKeyStates
      BY DEF removeState, Sound
    <3>2. First(existing) \in existing
      <4> HIDE DEF existing
      <4> QED BY <2>2, <3>1, FirstExists
    <3> QED BY <2>2, <3>1, <3>2
  <2> QED BY <2>1, <2>2
<1>3. others \in SUBSET rec /\ \A s \in others : s.chainID # state.chainID
  <2> HIDE DEF state
  <2> QED BY DEF removeStatesWithChainID
<1>4. IsFiniteSet(others) /\ others \in SUBSET SenderKeyStates
  <2>1. IsFiniteSet(rec)
    BY RecordFinite
  <2> HIDE DEF others
  <2> QED BY <1>3, <2>1, FS_Subset DEF Sound
<1>5. \A s \in others : rank(s) \in Nat
  <2> TAKE s \in others
  <2>1. Before(others, s) \in SUBSET others
    BY DEF Before
  <2> HIDE DEF others
  <2>2. IsFiniteSet(Before(others, s))
    BY <1>4, <2>1, FS_Subset
  <2> QED BY <2>2, FS_CardinalityType
<1>6. \A s, t \in others : s # t => rank(s) # rank(t)
  <2> SUFFICES ASSUME NEW s \in others, NEW t \in others, s # t PROVE rank(s) # rank(t)
    OBVIOUS
  <2> HIDE DEF others
  <2>1. s.place \in Nat /\ t.place \in Nat /\ s.place # t.place
    BY <1>3, <1>4 DEF Sound, Distinct, SenderKeyStates
  <2>2. CASE s.place < t.place
    BY <1>4, <2>2, RanksDiffer
  <2>3. CASE t.place < s.place
    BY <1>4, <2>3, RanksDiffer
  <2> QED BY <2>1, <2>2, <2>3
<1>7. Cardinality(new.keys) <= maxMessageKeys
  BY FS_EmptySet, SenderKeysAssumption
<1> HIDE DEF state, others, rank
<1>8. /\ head \in SenderKeyStates /\ head.place = 1 /\ Moved(state, head)
  BY <1>2 DEF SenderKeyStates, Moved
<1>9. ASSUME NEW t \in tail
      PROVE  \E s \in kept : /\ t \in SenderKeyStates /\ Moved(s, t)
                             /\ t.place = rank(s) + 2
                             /\ t = [s EXCEPT !.place = rank(s) + 2]
  <2>1. PICK s \in kept : t = [s EXCEPT !.place = rank(s) + 2]
    OBVIOUS
  <2>2. s \in SenderKeyStates /\ rank(s) + 2 \in Nat
    BY <1>4, <1>5
  <2>3. t \in SenderKeyStates /\ Moved(s, t) /\ t.place = rank(s) + 2
    BY <2>1, <2>2 DEF SenderKeyStates, Moved
  <2> QED BY <2>1, <2>3
<1>10. kept \in SUBSET others /\ \A s \in kept : rank(s) < MaxSenderKeyStates - 1
  OBVIOUS
<1>11. AddSenderKeyState(rec, new) \in SUBSET SenderKeyStates
  BY <1>1, <1>8, <1>9
<1> HIDE DEF head, tail, kept, existing
<1>12. ASSUME NEW t \in tail PROVE t.chainID # head.chainID /\ t.place # head.place
  BY <1>3, <1>5, <1>8, <1>9, <1>10 DEF Moved
<1>13. ASSUME NEW t \in tail, NEW u \in tail, t # u
       PROVE  t.chainID # u.chainID /\ t.place # u.place
  <2>1. PICK s \in kept : /\ t \in SenderKeyStates /\ Moved(s, t)
                          /\ t.place = rank(s) + 2
                          /\ t = [s EXCEPT !.place = rank(s) + 2]
    BY <1>9
  <2>2. PICK w \in kept : /\ u \in SenderKeyStates /\ Moved(w, u)
                          /\ u.place = rank(w) + 2
                          /\ u = [w EXCEPT !.place = rank(w) + 2]
    BY <1>9
  <2>3. s # w
    BY <2>1, <2>2, <1>13
  <2>4. s \in rec /\ w \in rec /\ s.chainID # w.chainID
    BY <2>3, <1>3, <1>10 DEF Sound, Distinct
  <2>5. rank(s) \in Nat /\ rank(w) \in Nat /\ rank(s) # rank(w)
    BY <2>3, <1>5, <1>6, <1>10
  <2> QED BY <2>1, <2>2, <2>4, <2>5 DEF Moved
<1>14. Distinct(AddSenderKeyState(rec, new))
  BY <1>1, <1>12, <1>13 DEF Distinct
<1>15. ASSUME NEW t \in AddSenderKeyState(rec, new)
       PROVE  /\ t.place \in 1 .. MaxSenderKeyStates
              /\ \/ \E s \in rec : Moved(s, t)
                 \/ /\ Moved(new, t)
                    /\ existing = {}
  <2>1. CASE t = head
    BY <2>1, <1>2, <1>8, SenderKeysAssumption
  <2>2. CASE t \in tail
    <3>1. PICK s \in kept : Moved(s, t) /\ t.place = rank(s) + 2
      BY <2>2, <1>9
    <3>2. rank(s) \in Nat /\ rank(s) < MaxSenderKeyStates - 1 /\ s \in rec
      BY <1>3, <1>5, <1>10
    <3>3. t.place \in 1 .. MaxSenderKeyStates
      BY <3>1, <3>2, SenderKeysAssumption
    <3> QED BY <3>1, <3>2, <3>3
  <2> QED BY <1>1, <2>1, <2>2
<1>16. ASSUME NEW t \in AddSenderKeyState(rec, new)
       PROVE  Cardinality(t.keys) <= maxMessageKeys /\ \A i \in t.keys : i < t.iteration
  BY <1>7, <1>15, Zenon DEF Sound, Moved
<1>17. existing = {} =>
         \A s \in rec : ~(s.chainID = new.chainID /\ s.signingKey = new.signingKey)
  BY DEF existing, removeState
<1>18. Sound(AddSenderKeyState(rec, new))
  BY <1>11, <1>14, <1>15, <1>16 DEF Sound
<1> QED BY <1>15, <1>17, <1>18

\* senderKeyForIteration hands out only keys the state holds and leaves a state
\* without that key, with no key it did not hold before, within the cap.
LEMMA KeyForIteration ==
  ASSUME NEW st \in SenderKeyStates, \A i \in st.keys : i < st.iteration,
         Cardinality(st.keys) <= maxMessageKeys,
         NEW iteration \in Iterations,
         senderKeyForIteration(st, iteration).err = "ok"
  PROVE  LET new == senderKeyForIteration(st, iteration).st
         IN  /\ new \in SenderKeyStates
             /\ new.chainID = st.chainID /\ new.signingKey = st.signingKey
             /\ new.place = st.place
             /\ \A i \in new.keys : i < new.iteration
             /\ Cardinality(new.keys) <= maxMessageKeys
             /\ Holds(st, iteration)
             /\ \A i \in Iterations : Holds(new, i) => Holds(st, i) /\ i # iteration
             /\ new.iteration = st.iteration \/ new.iteration = iteration + 1
<1> DEFINE new == senderKeyForIteration(st, iteration).st
<1>1. st.iteration \in Nat /\ iteration \in Nat /\ st.keys \in SUBSET Iterations
  BY SenderKeysAssumption DEF SenderKeyStates, Iterations
<1>2. IsFiniteSet(Iterations) /\ Iterations \in SUBSET Nat
  BY FS_Interval, SenderKeysAssumption DEF Iterations
<1>3. CASE st.iteration > iteration /\ iteration \in st.keys
  <2>1. new = [st EXCEPT !.keys = st.keys \ {iteration}]
    BY <1>1, <1>3 DEF senderKeyForIteration, removeSenderMessageKey
  <2>2. /\ new \in SenderKeyStates /\ new.chainID = st.chainID
        /\ new.signingKey = st.signingKey /\ new.place = st.place
        /\ new.iteration = st.iteration /\ new.keys = st.keys \ {iteration}
    <3> HIDE DEF new
    <3> QED BY <1>1, <2>1 DEF SenderKeyStates
  <2> HIDE DEF new
  <2>3. Cardinality(new.keys) <= maxMessageKeys
    <3>1. IsFiniteSet(st.keys)
      BY <1>1, <1>2, FS_Subset
    <3>2. IsFiniteSet(new.keys) /\ Cardinality(new.keys) <= Cardinality(st.keys)
      BY <2>2, <3>1, FS_Subset
    <3>3. Cardinality(new.keys) \in Nat /\ Cardinality(st.keys) \in Nat
      BY <3>1, <3>2, FS_CardinalityType
    <3> QED BY <3>2, <3>3, SenderKeysAssumption
  <2>4. Holds(st, iteration)
    BY <1>3 DEF Holds
  <2>5. \A i \in Iterations : Holds(new, i) => Holds(st, i) /\ i # iteration
    BY <1>1, <1>2, <1>3, <2>2 DEF Holds
  <2> QED BY <2>2, <2>3, <2>4, <2>5 DEF new
<1>4. CASE ~(st.iteration > iteration)
  <2> DEFINE cached == addSenderMessageKeys(st.keys \cup Skipped(st, iteration))
  <2>1. /\ iteration - st.iteration <= MaxForwardJumps
        /\ CanAdvance(iteration)
        /\ new = [st EXCEPT !.iteration = iteration + 1, !.keys = cached]
    BY <1>1, <1>4, SenderKeysAssumption DEF senderKeyForIteration
  <2>2. iteration + 1 \in Iterations
    BY <1>1, <2>1, SenderKeysAssumption DEF CanAdvance, Iterations
  <2>3. /\ Skipped(st, iteration) \in SUBSET Iterations
        /\ \A i \in Skipped(st, iteration) : st.iteration <= i /\ i < iteration
    BY <1>1, SenderKeysAssumption DEF Skipped, Iterations
  <2>4. cached \in SUBSET (st.keys \cup Skipped(st, iteration))
    BY DEF addSenderMessageKeys
  <2>5. Cardinality(cached) <= maxMessageKeys
    <3> DEFINE K == st.keys \cup Skipped(st, iteration)
    <3>1. K \in SUBSET Iterations
      BY <1>1, <2>3
    <3> HIDE DEF K
    <3>2. K \in SUBSET Nat /\ IsFiniteSet(K)
      BY <1>2, <3>1, FS_Subset, Zenon
    <3>3. Cardinality({i \in K : Cardinality({j \in K : j > i}) < maxMessageKeys})
            <= maxMessageKeys
      BY <3>2, LargestAreFew, SenderKeysAssumption
    <3> QED BY <3>3 DEF addSenderMessageKeys, K
  <2> HIDE DEF cached
  <2>6. /\ new \in SenderKeyStates /\ new.chainID = st.chainID
        /\ new.signingKey = st.signingKey /\ new.place = st.place
        /\ new.iteration = iteration + 1 /\ new.keys = cached
    <3>1. cached \in SUBSET Iterations
      BY <1>1, <2>3, <2>4
    <3> HIDE DEF new
    <3> QED BY <2>1, <2>2, <3>1, Zenon DEF SenderKeyStates
  <2> HIDE DEF new
  <2>7. ASSUME NEW i \in new.keys PROVE i \in Nat /\ i < iteration
    <3>1. i \in st.keys \/ i \in Skipped(st, iteration)
      BY <2>4, <2>6
    <3>2. i \in Nat
      BY <1>1, <1>2, <2>3, <3>1, Zenon
    <3>3. i < st.iteration \/ i < iteration
      BY <2>3, <3>1
    <3> QED BY <1>1, <1>4, <3>2, <3>3
  <2>8. \A i \in new.keys : i < new.iteration
    BY <1>1, <2>6, <2>7
  <2>9. Holds(st, iteration)
    BY <1>1, <1>4 DEF Holds
  <2>10. ASSUME NEW i \in Iterations, Holds(new, i)
         PROVE  Holds(st, i) /\ i # iteration
    <3>1. i \in Nat
      BY <1>2, Zenon
    <3>2. CASE i >= new.iteration
      BY <1>1, <1>4, <2>6, <3>1, <3>2 DEF Holds
    <3>3. CASE i \in new.keys
      BY <1>1, <2>3, <2>4, <2>6, <2>7, <3>1, <3>3 DEF Holds
    <3> QED BY <2>10, <3>2, <3>3 DEF Holds
  <2> QED BY <2>5, <2>6, <2>8, <2>9, <2>10 DEF new
<1>5. st.iteration > iteration => iteration \in st.keys
  BY <1>1 DEF senderKeyForIteration
<1> QED BY <1>3, <1>4, <1>5

\* A decryption that succeeds replaces one state, that of the message's chain,
\* by one that lost the message's key.
LEMMA DecryptRecord ==
  ASSUME NEW rec, Sound(rec), NEW m \in SenderKeyMessages,
         DecryptResult(rec, m).err = "ok"
  PROVE  /\ Sound(DecryptResult(rec, m).rec)
         /\ \E st \in rec, new \in SenderKeyStates :
               /\ DecryptResult(rec, m).rec = (rec \ {st}) \cup {new}
               /\ Tag(st) = Tag(m) /\ Tag(new) = Tag(m)
               /\ Holds(st, m.iteration)
               /\ \A i \in Iterations : Holds(new, i) => Holds(st, i) /\ i # m.iteration
               /\ new.iteration = st.iteration \/ new.iteration = m.iteration + 1
<1> DEFINE matching == {s \in rec : s.chainID = m.chainID}
           st       == SenderKeyStateForChainID(rec, m.chainID)
           key      == senderKeyForIteration(st, m.iteration)
           new      == key.st
<1>1. matching # {} /\ st.signingKey = m.signingKey
  BY DEF DecryptResult
<1>2. st \in matching
  <2>1. matching \in SUBSET SenderKeyStates
    BY DEF Sound
  <2>2. First(matching) \in matching
    <3> HIDE DEF matching
    <3> QED BY <1>1, <2>1, FirstExists
  <2> QED BY <2>2 DEF SenderKeyStateForChainID
<1>3. key.err = "ok" /\ DecryptResult(rec, m).rec = (rec \ {st}) \cup {new}
  BY <1>1 DEF DecryptResult
<1>4. st \in rec /\ st.chainID = m.chainID
  BY <1>2
<1> HIDE DEF st, matching
<1>5. /\ st \in SenderKeyStates /\ \A i \in st.keys : i < st.iteration
      /\ Cardinality(st.keys) <= maxMessageKeys
      /\ m.iteration \in Iterations
  BY <1>4 DEF Sound, SenderKeyMessages
<1>6. /\ new \in SenderKeyStates
      /\ new.chainID = st.chainID /\ new.signingKey = st.signingKey
      /\ new.place = st.place
      /\ \A i \in new.keys : i < new.iteration
      /\ Cardinality(new.keys) <= maxMessageKeys
      /\ Holds(st, m.iteration)
      /\ \A i \in Iterations : Holds(new, i) => Holds(st, i) /\ i # m.iteration
      /\ new.iteration = st.iteration \/ new.iteration = m.iteration + 1
  BY <1>3, <1>5, KeyForIteration
<1> HIDE DEF key
<1>7. Sound((rec \ {st}) \cup {new})
  <2> HIDE DEF new
  <2> QED BY <1>4, <1>6 DEF Sound, Distinct
<1>8. Tag(st) = Tag(m) /\ Tag(new) = Tag(m)
  BY <1>1, <1>4, <1>6 DEF Tag
<1> HIDE DEF new
<1> QED BY <1>3, <1>4, <1>6, <1>7, <1>8

-----------------------------------------------------------------------------
(***************************************************************************)
(* The invariant.                                                          *)
(***************************************************************************)
\* The inductive invariant.
IInv == TypeOK /\ GroupInv

\* Each member's record is sound.
LEMMA RecordSound ==
  ASSUME IInv, NEW r \in Members
  PROVE  Sound(record[r])
<1>1. record[r] \in SUBSET SenderKeyStates
  BY DEF IInv, TypeOK
<1> QED BY <1>1 DEF IInv, GroupInv, RecordsWellFormed, DeliveriesSound, Sound

\* The sender's record has one state, its head.
LEMMA OneOwnState ==
  ASSUME IInv, own # {}
  PROVE  own = {SenderKeyState(own)} /\ SenderKeyState(own) \in SenderKeyStates
<1>1. SenderKeyState(own) \in own
  BY FirstExists DEF IInv, TypeOK, SenderKeyState
<1> QED BY <1>1 DEF IInv, TypeOK, GroupInv, TagsSound

\* Provisioning makes a record of one state.
LEMMA AddToEmpty ==
  ASSUME NEW new \in SenderKeyStates, new.place = 1
  PROVE  AddSenderKeyState({}, new) = {new} /\ SenderKeyState({new}) = new
<1>1. AddSenderKeyState({}, new) = {[new EXCEPT !.place = 1]}
  BY DEF AddSenderKeyState, removeState, removeStatesWithChainID
<1>2. [new EXCEPT !.place = 1] = new
  BY DEF SenderKeyStates
<1>3. First({new}) \in {new}
  BY FirstExists
<1> QED BY <1>1, <1>2, <1>3 DEF SenderKeyState

\* The fields of a new state.
LEMMA NewState ==
  ASSUME NEW id \in ChainIDs, NEW n \in Iterations, NEW g \in 1 .. MaxChains
  PROVE  LET new == newSenderKeyState(id, n, g)
         IN  /\ new \in SenderKeyStates
             /\ new.keys = {} /\ new.place = 1
             /\ new.chainID = id /\ new.iteration = n /\ new.signingKey = g
  BY DEF newSenderKeyState, SenderKeyStates

\* The tags of what is there are Tags.
LEMMA TagsOf ==
  /\ \A x \in own \cup skdms \cup net : Tag(x) \in Tags
  /\ \A r \in Members : \A s \in record[r] : Tag(s) \in Tags
  BY DEF Tags

\* A step that brings no tag but those of T.
LEMMA TagsWithin ==
  ASSUME NEW T,
         \A x \in own' \cup skdms' \cup net' : Tag(x) \in T,
         \A r \in Members : \A s \in record'[r] : Tag(s) \in T
  PROVE  Tags' \subseteq T
<1> SUFFICES ASSUME NEW a \in Tags' PROVE a \in T
  OBVIOUS
<1>1. CASE \E x \in own' \cup skdms' \cup net' : a = Tag(x)
  BY <1>1
<1>2. CASE \E r \in Members : \E s \in record'[r] : a = Tag(s)
  BY <1>2
<1>3. \/ \E x \in own' \cup skdms' \cup net' : a = Tag(x)'
      \/ \E r \in Members : \E s \in record'[r] : a = Tag(s)'
  BY DEF Tags
<1> QED BY <1>1, <1>2, <1>3 DEF Tag

\* Empty stores satisfy the invariant.
LEMMA InitInv == Init => IInv
<1> SUFFICES ASSUME Init PROVE IInv
  OBVIOUS
<1>1. TypeOK
  BY SenderKeysAssumption DEF Init, TypeOK
<1>2. TagsSound
  BY DEF Init, TagsSound, Tags
<1>3. RecordsWellFormed
  BY DEF Init, RecordsWellFormed, Distinct
<1>4. MessagesSound
  BY DEF Init, MessagesSound, NoMessageKeyReuse, MembersFollow
<1>5. DeliveriesSound
  BY DEF Init, DeliveriesSound, GroupAtMostOnce
<1> QED BY <1>1, <1>2, <1>3, <1>4, <1>5 DEF IInv, GroupInv

\* A host asks for another distribution message.
LEMMA CreateInv ==
  ASSUME IInv, CreateSKDM
  PROVE  IInv'
<1>1. PICK st \in SenderKeyStates : own = {st} /\ st = SenderKeyState(own)
  BY OneOwnState DEF CreateSKDM
<1>2. PICK d : d = Announcement(st)
  OBVIOUS
<1>3. /\ d \in Announcements /\ Tag(d) = Tag(st)
      /\ d.iteration = st.iteration /\ d.signingKey = st.signingKey
  BY <1>2 DEF Announcement, Announcements, SenderKeyStates, Tag
<1>4. /\ skdms' = skdms \cup {d}
      /\ UNCHANGED <<own, record, chains, net, sent, delivered, dropped>>
  BY <1>1, <1>2 DEF CreateSKDM
<1>5. TypeOK'
  BY <1>3, <1>4 DEF IInv, TypeOK
<1>6. TagsSound'
  <2>1. Tags' \subseteq Tags
    <3>1. \A x \in own' \cup skdms' \cup net' : Tag(x) \in Tags
      BY <1>1, <1>3, <1>4, TagsOf, Zenon
    <3>2. \A r \in Members : \A s \in record'[r] : Tag(s) \in Tags
      BY <1>4, TagsOf
    <3> QED BY <3>1, <3>2, TagsWithin
  <2> QED BY <1>4, <2>1 DEF IInv, GroupInv, TagsSound
<1>7. MessagesSound'
  <2>1. \A e \in skdms' : e.signingKey = st.signingKey => e.iteration <= st.iteration
    <3>1. d.iteration <= st.iteration
      BY <1>3, SenderKeysAssumption DEF SenderKeyStates, Iterations
    <3>2. \A e \in skdms : e.signingKey = st.signingKey => e.iteration <= st.iteration
      <4>1. st \in own
        BY <1>1
      <4> QED BY <4>1 DEF IInv, GroupInv, MessagesSound
    <3> QED BY <1>4, <3>1, <3>2
  <2> QED BY <1>1, <1>4, <2>1, Zenon DEF IInv, GroupInv, MessagesSound, NoMessageKeyReuse, MembersFollow
<1>8. RecordsWellFormed'
  BY <1>4 DEF IInv, GroupInv, RecordsWellFormed
<1>9. DeliveriesSound'
  BY <1>4 DEF IInv, GroupInv, DeliveriesSound, GroupAtMostOnce
<1> QED BY <1>5, <1>6, <1>7, <1>8, <1>9 DEF IInv, GroupInv

\* A new chain: its signing key is new, so nothing else is on it.
LEMMA ProvisionInv ==
  ASSUME IInv, ProvisionSKDM
  PROVE  IInv'
<1>1. PICK id \in ChainIDs : own' = AddSenderKeyState({}, newSenderKeyState(id, 0, chains + 1))
  BY DEF ProvisionSKDM
<1>2. PICK st : st = newSenderKeyState(id, 0, chains + 1)
  OBVIOUS
<1>3. /\ st \in SenderKeyStates /\ st.place = 1 /\ st.keys = {}
      /\ st.chainID = id /\ st.iteration = 0 /\ st.signingKey = chains + 1
  <2>1. 0 \in Iterations /\ chains + 1 \in 1 .. MaxChains
    BY SenderKeysAssumption DEF IInv, TypeOK, ProvisionSKDM, Iterations
  <2> QED BY <1>2, <2>1, NewState
<1>4. own' = {st} /\ SenderKeyState(own') = st
  BY <1>1, <1>2, <1>3, AddToEmpty, Zenon
<1>5. PICK d : d = Announcement(st)
  OBVIOUS
<1>6. /\ d \in Announcements /\ Tag(d) = Tag(st)
      /\ d.iteration = 0 /\ d.signingKey = chains + 1
  BY <1>3, <1>5 DEF Announcement, Announcements, SenderKeyStates, Tag
<1>7. /\ chains' = chains + 1 /\ skdms' = skdms \cup {d} /\ chains < MaxChains
      /\ UNCHANGED <<record, net, sent, delivered, dropped>>
  BY <1>4, <1>5 DEF ProvisionSKDM
<1>8. chains \in Nat /\ \A a \in Tags : a[1] <= chains
  BY SenderKeysAssumption DEF IInv, TypeOK, GroupInv, TagsSound
<1>9. TypeOK'
  BY <1>3, <1>4, <1>6, <1>7, SenderKeysAssumption DEF IInv, TypeOK
<1>10. /\ \A m \in net : m.signingKey \in Nat /\ m.signingKey <= chains
       /\ \A e \in skdms : e.signingKey \in Nat /\ e.signingKey <= chains
       /\ \A r \in Members : \A t \in record[r] : t.signingKey \in Nat /\ t.signingKey <= chains
  <2>1. ASSUME NEW x, Tag(x) \in Tags PROVE x.signingKey <= chains
    <3>1. Tag(x)[1] = x.signingKey
      BY DEF Tag
    <3> QED BY <1>8, <2>1, <3>1
  <2>2. \A m \in net : m.signingKey \in Nat /\ m.signingKey <= chains
    BY <2>1, TagsOf DEF IInv, TypeOK, SenderKeyMessages
  <2>3. \A e \in skdms : e.signingKey \in Nat /\ e.signingKey <= chains
    BY <2>1, TagsOf DEF IInv, TypeOK, Announcements
  <2>4. ASSUME NEW r \in Members, NEW t \in record[r]
        PROVE  t.signingKey \in Nat /\ t.signingKey <= chains
    <3>1. t \in SenderKeyStates
      BY DEF IInv, TypeOK
    <3> QED BY <2>1, <3>1, TagsOf DEF SenderKeyStates
  <2> QED BY <2>2, <2>3, <2>4
<1>11. TagsSound'
  <2>1. Tags' \subseteq Tags \cup {Tag(st)}
    <3>1. \A x \in own' \cup skdms' \cup net' : Tag(x) \in Tags \cup {Tag(st)}
      BY <1>4, <1>6, <1>7, TagsOf
    <3>2. \A r \in Members : \A s \in record'[r] : Tag(s) \in Tags \cup {Tag(st)}
      BY <1>7, TagsOf
    <3> QED BY <3>1, <3>2, TagsWithin, Zenon
  <2>2. Tag(st)[1] = chains + 1
    BY <1>3 DEF Tag
  <2>3. \A a \in Tags : a[1] \in Nat
    <3>1. \A x \in own \cup skdms \cup net : x.signingKey \in Nat
      BY <1>10 DEF ProvisionSKDM
    <3> QED BY <1>10, <3>1 DEF Tags, Tag
  <2>4. \A a, b \in Tags' : a[1] = b[1] => a = b
    BY <1>8, <2>1, <2>2, <2>3 DEF IInv, GroupInv, TagsSound
  <2>5. \A a \in Tags' : a[1] <= chains'
    BY <1>7, <1>8, <2>1, <2>2, <2>3
  <2> QED BY <1>3, <1>4, <1>7, <2>4, <2>5 DEF TagsSound
<1>12. MessagesSound'
  <2>1. \A m \in net : m.signingKey # st.signingKey
    BY <1>3, <1>8, <1>10
  <2>2. \A e \in skdms' : e.signingKey = st.signingKey => e.iteration <= st.iteration
    BY <1>3, <1>6, <1>7, <1>8, <1>10
  <2>3. \A r \in Members : \A t \in record[r] : t.signingKey # st.signingKey
    BY <1>3, <1>8, <1>10
  <2> QED BY <1>4, <1>7, <2>1, <2>2, <2>3
      DEF IInv, GroupInv, MessagesSound, NoMessageKeyReuse, MembersFollow
<1>13. RecordsWellFormed'
  BY <1>7 DEF IInv, GroupInv, RecordsWellFormed
<1>14. DeliveriesSound'
  BY <1>7 DEF IInv, GroupInv, DeliveriesSound, GroupAtMostOnce
<1> QED BY <1>9, <1>11, <1>12, <1>13, <1>14 DEF IInv, GroupInv

\* The sender forgets its chain.
LEMMA RenewInv ==
  ASSUME IInv, Renew
  PROVE  IInv'
<1>1. TypeOK'
  BY DEF IInv, TypeOK, Renew
<1>2. TagsSound'
  <2>1. Tags' \subseteq Tags
    <3>1. \A x \in own' \cup skdms' \cup net' : Tag(x) \in Tags
      BY TagsOf DEF Renew
    <3>2. \A r \in Members : \A s \in record'[r] : Tag(s) \in Tags
      BY TagsOf DEF Renew
    <3> QED BY <3>1, <3>2, TagsWithin
  <2> QED BY <2>1 DEF IInv, GroupInv, TagsSound, Renew
<1>3. MessagesSound'
  BY DEF IInv, GroupInv, MessagesSound, NoMessageKeyReuse, MembersFollow, Renew
<1>4. RecordsWellFormed'
  BY DEF IInv, GroupInv, RecordsWellFormed, Renew
<1>5. DeliveriesSound'
  BY DEF IInv, GroupInv, DeliveriesSound, GroupAtMostOnce, Renew
<1> QED BY <1>1, <1>2, <1>3, <1>4, <1>5 DEF IInv, GroupInv

\* A message takes the head's iteration, which the chain then leaves behind.
LEMMA EncryptInv ==
  ASSUME IInv, Encrypt
  PROVE  IInv'
<1>1. PICK st \in SenderKeyStates : own = {st} /\ st = SenderKeyState(own)
  BY OneOwnState DEF Encrypt
<1>2. PICK new : new = [st EXCEPT !.iteration = st.iteration + 1]
  BY Zenon
<1>3. PICK m : m = [num |-> sent + 1, chainID |-> st.chainID,
                    signingKey |-> st.signingKey, iteration |-> st.iteration]
  BY Zenon
<1>4. /\ own' = {new} /\ net' = net \cup {m} /\ sent' = sent + 1
      /\ CanAdvance(st.iteration) /\ sent < MaxSent
      /\ UNCHANGED <<record, chains, skdms, delivered, dropped>>
  <2>1. own' = (own \ {st}) \cup {new}
    BY <1>1, <1>2, Zenon DEF Encrypt, next
  <2>2. net' = net \cup {m}
    BY <1>1, <1>3 DEF Encrypt
  <2>3. own' = {new}
    BY <1>1, <2>1, Zenon
  <2> QED BY <1>1, <2>2, <2>3, Zenon DEF Encrypt
<1>5. st \in own /\ st.iteration \in Nat
  BY <1>1 DEF SenderKeyStates, Iterations
<1>6. /\ new \in SenderKeyStates /\ new.signingKey = st.signingKey
      /\ new.chainID = st.chainID /\ new.iteration = st.iteration + 1
  <2>1. st.iteration + 1 \in Iterations
    BY <1>4, SenderKeysAssumption DEF SenderKeyStates, Iterations, CanAdvance
  <2> QED BY <1>2, <2>1 DEF SenderKeyStates
<1>7. /\ m \in SenderKeyMessages /\ m.num = sent + 1 /\ m.chainID = st.chainID
      /\ m.signingKey = st.signingKey /\ m.iteration = st.iteration
  BY <1>3, <1>4, SenderKeysAssumption DEF IInv, TypeOK, SenderKeyStates, SenderKeyMessages
<1>8. sent \in Nat /\ net \in SUBSET SenderKeyMessages
  BY DEF IInv, TypeOK
<1>9. TypeOK'
  BY <1>4, <1>6, <1>7, SenderKeysAssumption DEF IInv, TypeOK
<1>10. TagsSound'
  <2>1. Tag(new) = Tag(st) /\ Tag(m) = Tag(st)
    BY <1>6, <1>7 DEF Tag
  <2>2. Tags' \subseteq Tags
    <3>1. \A x \in own' \cup skdms' \cup net' : Tag(x) \in Tags
      BY <1>4, <1>5, <2>1, TagsOf
    <3>2. \A r \in Members : \A s \in record'[r] : Tag(s) \in Tags
      BY <1>4, TagsOf
    <3> QED BY <3>1, <3>2, TagsWithin
  <2>3. st.signingKey = chains
    BY <1>5 DEF IInv, GroupInv, TagsSound
  <2> QED BY <1>4, <1>6, <2>2, <2>3 DEF IInv, GroupInv, TagsSound
<1>11. MessagesSound'
  <2>1. \A n \in net : n.num \in Nat /\ n.num <= sent /\ n.iteration \in Nat
    BY <1>8 DEF IInv, GroupInv, MessagesSound, SenderKeyMessages, Iterations
  <2>2. \A n \in net : n.signingKey = st.signingKey => n.iteration < st.iteration
    BY <1>5 DEF IInv, GroupInv, MessagesSound
  <2>3. \A n \in net' : n.num <= sent'
    BY <1>4, <1>7, <1>8, <2>1
  <2>4. \A n, o \in net' : n.num = o.num => n = o
    BY <1>4, <1>7, <1>8, <2>1 DEF IInv, GroupInv, MessagesSound
  <2>5. NoMessageKeyReuse'
    BY <1>4, <1>5, <1>7, <2>1, <2>2 DEF IInv, GroupInv, MessagesSound, NoMessageKeyReuse
  <2>6. \A n \in net' : n.signingKey = new.signingKey => n.iteration < new.iteration
    BY <1>4, <1>5, <1>6, <1>7, <2>1, <2>2
  <2>7. ASSUME NEW d \in skdms', d.signingKey = new.signingKey PROVE d.iteration <= new.iteration
    <3>1. d.iteration \in Nat /\ d.iteration <= st.iteration
      BY <1>4, <1>5, <1>6, <2>7 DEF IInv, TypeOK, GroupInv, MessagesSound, Announcements, Iterations
    <3> QED BY <1>5, <1>6, <3>1
  <2>8. ASSUME NEW r \in Members, NEW t \in record'[r], new.signingKey = t.signingKey
        PROVE  t.iteration <= new.iteration
    <3>1. t \in SenderKeyStates /\ t.iteration <= st.iteration
      BY <1>4, <1>5, <1>6, <2>8, Zenon DEF IInv, TypeOK, GroupInv, MessagesSound, MembersFollow
    <3> QED BY <1>5, <1>6, <3>1 DEF SenderKeyStates, Iterations
  <2> QED BY <1>4, <2>3, <2>4, <2>5, <2>6, <2>7, <2>8 DEF MessagesSound, MembersFollow
<1>12. RecordsWellFormed'
  BY <1>4 DEF IInv, GroupInv, RecordsWellFormed
<1>13. DeliveriesSound'
  <2>1. \A r \in Members : \A k \in 1 .. MaxSent : delivered[r][k] > 0 => k <= sent
    BY DEF IInv, GroupInv, DeliveriesSound
  <2>2. sent + 1 \in 1 .. MaxSent
    BY <1>4, <1>8, SenderKeysAssumption
  <2>3. ASSUME NEW r \in Members PROVE delivered[r][m.num] = 0
    <3>1. delivered[r] \in [1 .. MaxSent -> 0 .. 2]
      BY DEF IInv, TypeOK
    <3>2. delivered[r][sent + 1] \in 0 .. 2
      BY <2>2, <3>1, Zenon
    <3>3. ~(delivered[r][sent + 1] > 0)
      BY <1>8, <2>1, <2>2
    <3> QED BY <1>7, <3>2, <3>3
  <2>4. \A r \in Members : \A k \in 1 .. MaxSent : delivered'[r][k] > 0 => k <= sent'
    BY <1>4, <1>8, <2>1
  <2>5. \A r \in Members : \A n \in net' :
          (delivered'[r][n.num] > 0 /\ n.signingKey \notin dropped'[r]) =>
              \E s \in record'[r] : s.signingKey = n.signingKey /\ ~Holds(s, n.iteration)
    BY <1>4, <2>3 DEF IInv, GroupInv, DeliveriesSound
  <2>6. GroupAtMostOnce'
    BY <1>4, <2>3 DEF IInv, GroupInv, DeliveriesSound, GroupAtMostOnce
  <2>7. \A r \in Members : \A s \in record'[r] : \A i \in s.keys : i < s.iteration
    BY <1>4 DEF IInv, GroupInv, DeliveriesSound
  <2> QED BY <2>4, <2>5, <2>6, <2>7 DEF DeliveriesSound, Holds
<1> QED BY <1>9, <1>10, <1>11, <1>12, <1>13 DEF IInv, GroupInv

\* A member has one state of a chain.
LEMMA OneStatePerChain ==
  ASSUME IInv, NEW r \in Members, NEW s \in record[r]
  PROVE  /\ \A t \in record[r] : s.signingKey = t.signingKey => s = t
         /\ \A x \in own \cup skdms \cup net : s.signingKey = x.signingKey => s.chainID = x.chainID
<1>1. ASSUME NEW x, Tag(x) \in Tags, s.signingKey = x.signingKey
      PROVE  s.chainID = x.chainID
  <2>1. Tag(s) \in Tags /\ Tag(s)[1] = Tag(x)[1]
    BY <1>1, TagsOf DEF Tag
  <2>2. Tag(s) = Tag(x)
    BY <1>1, <2>1 DEF IInv, GroupInv, TagsSound
  <2> QED BY <2>2 DEF Tag
<1>2. \A t \in record[r] : s.signingKey = t.signingKey => s.chainID = t.chainID
  BY <1>1, TagsOf
<1>3. \A t \in record[r] : s.signingKey = t.signingKey => s = t
  BY <1>2 DEF IInv, GroupInv, RecordsWellFormed, Distinct
<1> QED BY <1>1, <1>3, TagsOf

\* A state that moved holds what it held.
LEMMA MovedHolds ==
  ASSUME NEW s, NEW t, Moved(s, t), NEW i
  PROVE  Holds(t, i) <=> Holds(s, i)
  BY DEF Moved, Holds

\* A distribution message, new or repeated, adds a chain or finds it unchanged.
LEMMA ProcessInv ==
  ASSUME IInv, NEW r \in Members, NEW d \in skdms, ProcessSKDM(r, d)
  PROVE  IInv' /\ RegainsNoKey
<1>1. PICK new : new = newSenderKeyState(d.chainID, d.iteration, d.signingKey)
  OBVIOUS
<1>2. PICK rec : rec = AddSenderKeyState(record[r], new)
  OBVIOUS
<1>3. PICK gone : gone = {s.signingKey : s \in record[r]} \ {s.signingKey : s \in rec}
  BY Zenon
<1>4. /\ record' = [record EXCEPT ![r] = rec]
      /\ dropped' = [dropped EXCEPT ![r] = dropped[r] \cup gone]
      /\ UNCHANGED <<own, chains, skdms, net, sent, delivered>>
  BY <1>1, <1>2, <1>3 DEF ProcessSKDM
<1>5. d \in Announcements
  BY DEF IInv, TypeOK
<1>6. /\ new \in SenderKeyStates /\ new.keys = {} /\ new.place = 1
      /\ new.chainID = d.chainID /\ new.iteration = d.iteration
      /\ new.signingKey = d.signingKey
  BY <1>1, <1>5, NewState DEF Announcements
<1>7. Sound(record[r])
  BY RecordSound
<1>8. /\ Sound(rec)
      /\ \A t \in rec :
            \/ \E s \in record[r] : Moved(s, t)
            \/ /\ Moved(new, t)
               /\ \A s \in record[r] : ~(s.chainID = new.chainID /\ s.signingKey = new.signingKey)
  BY <1>2, <1>6, <1>7, AddRecord
<1>9. record \in [Members -> SUBSET SenderKeyStates] /\ dropped \in [Members -> SUBSET (1 .. MaxChains)]
  BY DEF IInv, TypeOK
<1>10. /\ record'[r] = rec /\ \A p \in Members \ {r} : record'[p] = record[p]
       /\ dropped'[r] = dropped[r] \cup gone /\ \A p \in Members \ {r} : dropped'[p] = dropped[p]
  BY <1>4, <1>9
<1>11. ASSUME NEW t \in rec, NEW s \in record[r], s.signingKey = t.signingKey
       PROVE  Moved(s, t)
  <2>1. CASE \E u \in record[r] : Moved(u, t)
    BY <1>11, <2>1, OneStatePerChain DEF Moved
  <2>2. CASE Moved(new, t) /\ \A u \in record[r] : ~(u.chainID = new.chainID /\ u.signingKey = new.signingKey)
    <3>1. s.signingKey = d.signingKey
      BY <1>6, <1>11, <2>2 DEF Moved
    <3>2. s.chainID = d.chainID
      BY <3>1, OneStatePerChain
    <3> QED BY <1>6, <2>2, <3>1, <3>2
  <2> QED BY <1>8, <2>1, <2>2
<1>12. TypeOK'
  <2>1. rec \in SUBSET SenderKeyStates
    BY <1>8 DEF Sound
  <2>2. gone \in SUBSET (1 .. MaxChains)
    <3>1. \A s \in record[r] : s.signingKey \in 1 .. MaxChains
      BY <1>9 DEF SenderKeyStates
    <3> QED BY <1>3, <3>1
  <2>3. dropped[r] \cup gone \in SUBSET (1 .. MaxChains)
    BY <1>9, <2>2, Zenon
  <2>4. /\ record' \in [Members -> SUBSET SenderKeyStates]
        /\ dropped' \in [Members -> SUBSET (1 .. MaxChains)]
    BY <1>4, <1>9, <2>1, <2>3
  <2> QED BY <1>4, <2>4 DEF IInv, TypeOK
<1>13. TagsSound'
  <2>1. ASSUME NEW t \in rec PROVE Tag(t) \in Tags
    <3>1. Tag(new) = Tag(d)
      BY <1>6 DEF Tag
    <3>2. \A s : Moved(s, t) => Tag(t) = Tag(s)
      BY DEF Moved, Tag
    <3> QED BY <1>8, <3>1, <3>2, TagsOf
  <2>2. Tags' \subseteq Tags
    <3>1. \A x \in own' \cup skdms' \cup net' : Tag(x) \in Tags
      BY <1>4, TagsOf
    <3>2. \A p \in Members : \A s \in record'[p] : Tag(s) \in Tags
      BY <1>10, <2>1, TagsOf
    <3> QED BY <3>1, <3>2, TagsWithin
  <2> QED BY <1>4, <2>2 DEF IInv, GroupInv, TagsSound
<1>14. RecordsWellFormed'
  BY <1>8, <1>10 DEF IInv, GroupInv, RecordsWellFormed, Sound
<1>15. MessagesSound'
  <2>1. ASSUME NEW s \in own, NEW t \in rec, s.signingKey = t.signingKey
        PROVE  t.iteration <= s.iteration
    <3>1. CASE \E u \in record[r] : Moved(u, t)
      BY <2>1, <3>1 DEF IInv, GroupInv, MessagesSound, MembersFollow, Moved
    <3>2. CASE Moved(new, t)
      BY <1>6, <2>1, <3>2 DEF IInv, GroupInv, MessagesSound, Moved
    <3> QED BY <1>8, <3>1, <3>2
  <2>2. MembersFollow'
    BY <1>4, <1>10, <2>1 DEF IInv, GroupInv, MessagesSound, MembersFollow
  <2> QED BY <1>4, <2>2 DEF IInv, GroupInv, MessagesSound, NoMessageKeyReuse
<1>16. DeliveriesSound'
  <2>1. \A p \in Members : \A s \in record'[p] : \A i \in s.keys : i < s.iteration
    BY <1>8, <1>10 DEF IInv, GroupInv, DeliveriesSound, Sound
  <2>2. ASSUME NEW m \in net, delivered[r][m.num] > 0, m.signingKey \notin dropped'[r]
        PROVE  \E t \in rec : t.signingKey = m.signingKey /\ ~Holds(t, m.iteration)
    <3>1. PICK s \in record[r] : s.signingKey = m.signingKey /\ ~Holds(s, m.iteration)
      BY <1>10, <2>2 DEF IInv, GroupInv, DeliveriesSound
    <3>2. PICK t \in rec : t.signingKey = s.signingKey
      BY <1>3, <1>10, <2>2, <3>1
    <3>3. Moved(s, t)
      BY <1>11, <3>2
    <3> QED BY <3>1, <3>2, <3>3, MovedHolds
  <2>3. \A p \in Members : \A m \in net' :
          (delivered'[p][m.num] > 0 /\ m.signingKey \notin dropped'[p]) =>
              \E t \in record'[p] : t.signingKey = m.signingKey /\ ~Holds(t, m.iteration)
    BY <1>4, <1>10, <2>2 DEF IInv, GroupInv, DeliveriesSound
  <2>4. GroupAtMostOnce'
    BY <1>4, <1>10 DEF IInv, GroupInv, DeliveriesSound, GroupAtMostOnce
  <2> QED BY <1>4, <2>1, <2>3, <2>4, SMTT(20) DEF IInv, GroupInv, DeliveriesSound, Holds
<1>17. RegainsNoKey
  <2> SUFFICES ASSUME NEW p \in Members, NEW s \in record[p], NEW t \in record'[p],
                      s.signingKey = t.signingKey, NEW i \in Iterations, Holds(t, i)
               PROVE  Holds(s, i)
    BY DEF RegainsNoKey
  <2>1. CASE p = r
    BY <1>10, <1>11, <2>1, MovedHolds
  <2>2. CASE p # r
    BY <1>10, <2>2, OneStatePerChain
  <2> QED BY <2>1, <2>2
<1> QED BY <1>12, <1>13, <1>14, <1>15, <1>16, <1>17 DEF IInv, GroupInv

\* A message is returned from the one state of its chain, which then has lost
\* its key.
LEMMA DecryptInv ==
  ASSUME IInv, NEW r \in Members, NEW m \in net,
         DecryptResult(record[r], m).err = "ok", Decrypt(r, m)
  PROVE  IInv' /\ RegainsNoKey
<1>1. PICK rec : rec = DecryptResult(record[r], m).rec
  OBVIOUS
<1>2. PICK count : count = CountOne(delivered[r][m.num])
  OBVIOUS
<1>3. /\ record' = [record EXCEPT ![r] = rec]
      /\ delivered' = [delivered EXCEPT ![r] = [delivered[r] EXCEPT ![m.num] = count]]
      /\ UNCHANGED <<own, chains, skdms, net, sent, dropped>>
  BY <1>1, <1>2 DEF Decrypt
<1>4. m \in SenderKeyMessages
  BY DEF IInv, TypeOK
<1>5. m.num \in 1 .. MaxSent /\ m.iteration \in Iterations /\ m.iteration \in Nat
  BY <1>4 DEF SenderKeyMessages, Iterations
<1>6. Sound(record[r])
  BY RecordSound
<1>7. /\ Sound(rec)
      /\ \E st \in record[r], new \in SenderKeyStates :
            /\ rec = (record[r] \ {st}) \cup {new}
            /\ Tag(st) = Tag(m) /\ Tag(new) = Tag(m)
            /\ Holds(st, m.iteration)
            /\ \A i \in Iterations : Holds(new, i) => Holds(st, i) /\ i # m.iteration
            /\ new.iteration = st.iteration \/ new.iteration = m.iteration + 1
  BY <1>1, <1>4, <1>6, DecryptRecord
<1>8. PICK st \in record[r], new \in SenderKeyStates :
            /\ rec = (record[r] \ {st}) \cup {new}
            /\ Tag(st) = Tag(m) /\ Tag(new) = Tag(m)
            /\ Holds(st, m.iteration)
            /\ \A i \in Iterations : Holds(new, i) => Holds(st, i) /\ i # m.iteration
            /\ new.iteration = st.iteration \/ new.iteration = m.iteration + 1
  BY <1>7
<1>9. st.signingKey = m.signingKey /\ new.signingKey = m.signingKey
  BY <1>8 DEF Tag
<1>10. record \in [Members -> SUBSET SenderKeyStates]
       /\ delivered \in [Members -> [1 .. MaxSent -> 0 .. 2]]
  BY DEF IInv, TypeOK
<1>11. /\ record'[r] = rec /\ \A p \in Members \ {r} : record'[p] = record[p]
       /\ delivered'[r][m.num] = count
       /\ \A k \in 1 .. MaxSent : k # m.num => delivered'[r][k] = delivered[r][k]
       /\ \A p \in Members \ {r} : delivered'[p] = delivered[p]
  <2>1. delivered[r] \in [1 .. MaxSent -> 0 .. 2]
    BY <1>10
  <2>2. delivered'[r] = [delivered[r] EXCEPT ![m.num] = count]
    BY <1>3, <1>10
  <2> QED BY <1>3, <1>5, <1>10, <2>1, <2>2
<1>12. count \in 0 .. 2 /\ (count > 1 => delivered[r][m.num] > 0)
  <2>1. delivered[r] \in [1 .. MaxSent -> 0 .. 2]
    BY <1>10
  <2>2. delivered[r][m.num] \in 0 .. 2
    BY <1>5, <2>1, Zenon
  <2> QED BY <1>2, <2>2 DEF CountOne
<1>13. \A n \in net : n \in SenderKeyMessages /\ (n.num = m.num => n = m)
  BY DEF IInv, TypeOK, GroupInv, MessagesSound
<1>14. \A n \in net : n.num \in 1 .. MaxSent /\ n.iteration \in Iterations
  BY <1>13 DEF SenderKeyMessages
<1>15. TypeOK'
  <2>1. rec \in SUBSET SenderKeyStates
    BY <1>7 DEF Sound
  <2>2. record' \in [Members -> SUBSET SenderKeyStates]
    BY <1>3, <1>10, <2>1
  <2>3. [delivered[r] EXCEPT ![m.num] = count] \in [1 .. MaxSent -> 0 .. 2]
    BY <1>10, <1>12, Zenon
  <2>4. delivered' \in [Members -> [1 .. MaxSent -> 0 .. 2]]
    BY <1>3, <1>10, <2>3
  <2> QED BY <1>3, <2>2, <2>4 DEF IInv, TypeOK
<1>16. TagsSound'
  <2>1. Tags' \subseteq Tags
    <3>1. \A x \in own' \cup skdms' \cup net' : Tag(x) \in Tags
      BY <1>3, TagsOf
    <3>2. \A t \in rec : Tag(t) \in Tags
      BY <1>8, TagsOf
    <3>3. \A p \in Members : \A s \in record'[p] : Tag(s) \in Tags
      BY <1>11, <3>2, TagsOf
    <3> QED BY <3>1, <3>3, TagsWithin
  <2> QED BY <1>3, <2>1 DEF IInv, GroupInv, TagsSound
<1>17. RecordsWellFormed'
  BY <1>7, <1>11, Zenon DEF IInv, GroupInv, RecordsWellFormed, Sound
<1>18. MessagesSound'
  <2>1. ASSUME NEW s \in own, s.signingKey = new.signingKey PROVE new.iteration <= s.iteration
    <3>1. st.iteration <= s.iteration
      BY <1>9, <2>1 DEF IInv, GroupInv, MessagesSound, MembersFollow
    <3>2. m.iteration < s.iteration
      BY <1>9, <2>1 DEF IInv, GroupInv, MessagesSound
    <3>3. s.iteration \in Nat
      BY DEF IInv, TypeOK, SenderKeyStates, Iterations
    <3> QED BY <1>5, <1>8, <3>1, <3>2, <3>3
  <2>2. MembersFollow'
    BY <1>3, <1>8, <1>11, <2>1, SMTT(20) DEF IInv, GroupInv, MessagesSound, MembersFollow
  <2> QED BY <1>3, <2>2 DEF IInv, GroupInv, MessagesSound, NoMessageKeyReuse
<1>19. new \in rec /\ ~Holds(new, m.iteration)
  BY <1>5, <1>8
<1>20. DeliveriesSound'
  <2>1. \A p \in Members : \A s \in record'[p] : \A i \in s.keys : i < s.iteration
    BY <1>7, <1>11 DEF IInv, GroupInv, DeliveriesSound, Sound
  <2>2. \A p \in Members : \A k \in 1 .. MaxSent : delivered'[p][k] > 0 => k <= sent'
    <3>1. m.num <= sent
      BY DEF IInv, GroupInv, MessagesSound
    <3> QED BY <1>3, <1>11, <3>1 DEF IInv, GroupInv, DeliveriesSound
  <2>3. ASSUME NEW n \in net, delivered'[r][n.num] > 0, n.signingKey \notin dropped[r]
        PROVE  \E t \in rec : t.signingKey = n.signingKey /\ ~Holds(t, n.iteration)
    <3>1. CASE n = m
      BY <1>9, <1>19, <3>1
    <3>2. CASE n # m
      <4>1. delivered[r][n.num] > 0
        BY <1>11, <1>13, <1>14, <2>3, <3>2, SMTT(20)
      <4>2. PICK s \in record[r] : s.signingKey = n.signingKey /\ ~Holds(s, n.iteration)
        BY <2>3, <4>1, SMTT(20) DEF IInv, GroupInv, DeliveriesSound
      <4>3. CASE s = st
        BY <1>8, <1>9, <1>14, <1>19, <4>2, <4>3
      <4>4. CASE s # st
        BY <1>8, <4>2, <4>4
      <4> QED BY <4>3, <4>4
    <3> QED BY <3>1, <3>2
  <2>4. \A p \in Members : \A n \in net' :
          (delivered'[p][n.num] > 0 /\ n.signingKey \notin dropped'[p]) =>
              \E t \in record'[p] : t.signingKey = n.signingKey /\ ~Holds(t, n.iteration)
    BY <1>3, <1>11, <2>3 DEF IInv, GroupInv, DeliveriesSound
  <2>5. ASSUME count > 1 PROVE m.signingKey \in dropped[r]
    <3>1. SUFFICES ASSUME m.signingKey \notin dropped[r] PROVE FALSE
      OBVIOUS
    <3>2. PICK s \in record[r] : s.signingKey = m.signingKey /\ ~Holds(s, m.iteration)
      BY <1>12, <2>5, <3>1 DEF IInv, GroupInv, DeliveriesSound
    <3>3. s = st
      BY <1>9, <3>2, OneStatePerChain
    <3> QED BY <1>8, <3>2, <3>3
  <2>6. GroupAtMostOnce'
    <3> SUFFICES ASSUME NEW p \in Members, NEW n \in net, delivered'[p][n.num] > 1
                 PROVE  n.signingKey \in dropped[p]
      BY <1>3 DEF GroupAtMostOnce
    <3>1. CASE p = r /\ n = m
      BY <1>11, <2>5, <3>1
    <3>2. CASE ~(p = r /\ n = m)
      <4>1. delivered[p][n.num] > 1
        BY <1>11, <1>13, <1>14, <3>2
      <4> QED BY <4>1 DEF IInv, GroupInv, DeliveriesSound, GroupAtMostOnce
    <3> QED BY <3>1, <3>2
  <2> QED BY <2>1, <2>2, <2>4, <2>6, SMTT(20) DEF DeliveriesSound, Holds
<1>21. RegainsNoKey
  <2> SUFFICES ASSUME NEW p \in Members, NEW s \in record[p], NEW t \in record'[p],
                      s.signingKey = t.signingKey, NEW i \in Iterations, Holds(t, i)
               PROVE  Holds(s, i)
    BY DEF RegainsNoKey
  <2>1. CASE t \in record[p]
    BY <2>1, OneStatePerChain
  <2>2. CASE t \notin record[p]
    <3>1. p = r /\ t = new
      BY <1>8, <1>11, <2>2
    <3>2. s = st
      BY <1>9, <3>1, OneStatePerChain
    <3> QED BY <1>8, <3>1, <3>2, SMTT(20)
  <2> QED BY <2>1, <2>2
<1> QED BY <1>15, <1>16, <1>17, <1>18, <1>20, <1>21 DEF IInv, GroupInv

\* A step that leaves the records alone regains nothing.
LEMMA SameRecords ==
  ASSUME IInv, UNCHANGED record
  PROVE  RegainsNoKey
  BY OneStatePerChain DEF RegainsNoKey

\* Every step keeps the invariant and regains no key.
LEMMA NextInv ==
  ASSUME IInv, [Next]_vars
  PROVE  IInv' /\ RegainsNoKey
<1>1. CASE UNCHANGED vars
  <2>1. /\ own' = own /\ record' = record /\ chains' = chains /\ skdms' = skdms
        /\ net' = net /\ sent' = sent /\ delivered' = delivered /\ dropped' = dropped
    BY <1>1 DEF vars
  <2>2. TypeOK'
    BY <2>1 DEF IInv, TypeOK
  <2>3. TagsSound'
    <3>1. Tags' \subseteq Tags
      BY <2>1, TagsOf, TagsWithin
    <3> QED BY <2>1, <3>1 DEF IInv, GroupInv, TagsSound
  <2>4. RecordsWellFormed'
    BY <2>1 DEF IInv, GroupInv, RecordsWellFormed
  <2>5. MessagesSound'
    BY <2>1, SMTT(20) DEF IInv, GroupInv, MessagesSound, NoMessageKeyReuse, MembersFollow
  <2>6. DeliveriesSound'
    BY <2>1 DEF IInv, GroupInv, DeliveriesSound, GroupAtMostOnce
  <2>7. IInv'
    BY <2>2, <2>3, <2>4, <2>5, <2>6 DEF IInv, GroupInv
  <2> QED BY <2>1, <2>7, SameRecords
<1>2. CASE CreateSKDM
  BY <1>2, CreateInv, SameRecords DEF CreateSKDM
<1>3. CASE ProvisionSKDM
  BY <1>3, ProvisionInv, SameRecords DEF ProvisionSKDM
<1>4. CASE Renew
  BY <1>4, RenewInv, SameRecords DEF Renew
<1>5. CASE Encrypt
  BY <1>5, EncryptInv, SameRecords DEF Encrypt
<1>6. CASE EncryptRejected
  BY <1>1, <1>6 DEF EncryptRejected
<1>7. ASSUME NEW r \in Members, NEW d \in skdms, ProcessSKDM(r, d)
      PROVE  IInv' /\ RegainsNoKey
  BY <1>7, ProcessInv
<1>8. ASSUME NEW r \in Members, NEW m \in net, Decrypt(r, m)
      PROVE  IInv' /\ RegainsNoKey
  <2>1. CASE DecryptResult(record[r], m).err = "ok"
    BY <1>8, <2>1, DecryptInv
  <2>2. CASE DecryptResult(record[r], m).err # "ok"
    BY <1>1, <1>8, <2>2 DEF Decrypt
  <2> QED BY <2>1, <2>2
<1> QED BY <1>1, <1>2, <1>3, <1>4, <1>5, <1>6, <1>7, <1>8 DEF Next

-----------------------------------------------------------------------------
(***************************************************************************)
(* The theorems.                                                           *)
(***************************************************************************)
\* The invariant holds in every reachable state.
LEMMA Invariance == Spec => []IInv
<1>1. IInv /\ [Next]_vars => IInv'
  BY NextInv
<1> QED BY <1>1, InitInv, PTL DEF Spec

\* Iterations stay within 32 bits, and everything else within its type.
THEOREM GroupTypes == Spec => []TypeOK
<1>1. IInv => TypeOK
  BY DEF IInv
<1> QED BY <1>1, Invariance, PTL

\* The invariant that the run group_evict checks holds of every instance.
THEOREM GroupInvariant == Spec => []GroupInv
<1>1. IInv => GroupInv
  BY DEF IInv
<1> QED BY <1>1, Invariance, PTL

\* A record never exceeds its caps and never holds two states of a chain id,
\* after any sequence of AddSenderKeyState and Decrypt.
THEOREM GroupRecords == Spec => []RecordsWellFormed
<1>1. IInv => RecordsWellFormed
  BY DEF IInv, GroupInv
<1> QED BY <1>1, Invariance, PTL

\* Decrypt returns a message at most once to a member that keeps its chain.
THEOREM GroupOnce == Spec => []GroupAtMostOnce
<1>1. IInv => GroupAtMostOnce
  BY DEF IInv, GroupInv, DeliveriesSound
<1> QED BY <1>1, Invariance, PTL

\* The key of a message that Decrypt returned is in no state of its chain.
THEOREM GroupKeysForgotten == Spec => []GroupForwardSecrecy
<1>1. IInv => GroupForwardSecrecy
  <2> SUFFICES ASSUME IInv, NEW r \in Members, NEW m \in net,
                      delivered[r][m.num] > 0, m.signingKey \notin dropped[r],
                      NEW s \in record[r], s.signingKey = m.signingKey
               PROVE  ~Holds(s, m.iteration)
    BY DEF GroupForwardSecrecy
  <2>1. PICK t \in record[r] : t.signingKey = m.signingKey /\ ~Holds(t, m.iteration)
    BY DEF IInv, GroupInv, DeliveriesSound
  <2>2. s = t
    BY <2>1, OneStatePerChain
  <2> QED BY <2>1, <2>2
<1> QED BY <1>1, Invariance, PTL

\* Encrypt uses no message key twice, whatever chain ids are drawn.
THEOREM GroupKeysFresh == Spec => []NoMessageKeyReuse
<1>1. IInv => NoMessageKeyReuse
  BY DEF IInv, GroupInv, MessagesSound
<1> QED BY <1>1, Invariance, PTL

\* No member's chain overtakes the sender's.
THEOREM GroupNeverAhead == Spec => []MembersFollow
<1>1. IInv => MembersFollow
  BY DEF IInv, GroupInv, MessagesSound
<1> QED BY <1>1, Invariance, PTL

\* No step of any handler gives a member back a key of a chain it keeps.
THEOREM GroupNeverRegains == Spec => KeysOnlyShrink
<1>1. IInv /\ [Next]_vars => [RegainsNoKey]_vars
  BY NextInv
<1> QED BY <1>1, Invariance, PTL DEF Spec, KeysOnlyShrink

=============================================================================
