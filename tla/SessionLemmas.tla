---------------------------- MODULE SessionLemmas ---------------------------
(***************************************************************************)
(* What the operators on keys, chains, session states, session records,    *)
(* new sessions and received messages return and preserve, for every value *)
(* of the constants.                                                       *)
(***************************************************************************)
EXTENDS SessionProperties, WellFoundedInduction, TLAPS

-----------------------------------------------------------------------------
(***************************************************************************)
(* Indices and sequences.                                                  *)
(***************************************************************************)
\* A set of indices has a smallest one: the first match of a search loop.
LEMMA SmallestIndex ==
  ASSUME NEW T \in SUBSET Nat, T # {}
  PROVE  \E i \in T : \A j \in T : i <= j
<1> DEFINE R == OpToRel(<, Nat)
<1>1. \A i, j \in Nat : <<i, j>> \in R <=> i < j
  BY DEF OpToRel
<1>2. IsWellFoundedOn(R, Nat)
  BY NatLessThanWellFounded, Zenon
<1> HIDE DEF R
<1>3. PICK i \in T : \A j \in T : ~(<<j, i>> \in R)
  BY <1>2, WFMin, Zenon
<1>4. ASSUME NEW j \in T PROVE i <= j
  <2>1. i \in Nat /\ j \in Nat
    OBVIOUS
  <2>2. ~(j < i)
    BY <1>1, <1>3, <2>1, Zenon
  <2> QED BY <2>1, <2>2
<1> QED BY <1>4

\* A sequence is a function on its positions.
LEMMA SeqFunction ==
  ASSUME NEW S, NEW s \in Seq(S)
  PROVE  Len(s) \in Nat /\ DOMAIN s = 1 .. Len(s) /\ s \in [1 .. Len(s) -> S]
  OBVIOUS

\* Its entries are in the set it is a sequence over.
LEMMA SeqElement ==
  ASSUME NEW S, NEW s \in Seq(S), NEW i \in 1 .. Len(s)
  PROVE  s[i] \in S
  OBVIOUS

\* The sequence without entries.
LEMMA SeqEmpty ==
  ASSUME NEW S
  PROVE  <<>> \in Seq(S) /\ Len(<<>>) = 0
  OBVIOUS

\* Replacing an entry touches no other.
LEMMA SeqExcept ==
  ASSUME NEW S, NEW s \in Seq(S), NEW i \in 1 .. Len(s), NEW x \in S
  PROVE  LET t == [s EXCEPT ![i] = x]
         IN  /\ t \in Seq(S) /\ Len(t) = Len(s)
             /\ \A j \in 1 .. Len(s) : t[j] = IF j = i THEN x ELSE s[j]
  OBVIOUS

\* Concatenation, entry by entry.
LEMMA SeqConcat ==
  ASSUME NEW S, NEW s \in Seq(S), NEW t \in Seq(S)
  PROVE  /\ s \o t \in Seq(S) /\ Len(s \o t) = Len(s) + Len(t)
         /\ \A i \in 1 .. Len(s) + Len(t) :
               (s \o t)[i] = IF i <= Len(s) THEN s[i] ELSE t[i - Len(s)]
  OBVIOUS

\* A part of a sequence, entry by entry.
LEMMA SeqSub ==
  ASSUME NEW S, NEW s, NEW m \in Int, NEW n \in Int, \A i \in m .. n : s[i] \in S
  PROVE  /\ SubSeq(s, m, n) \in Seq(S)
         /\ Len(SubSeq(s, m, n)) = IF m <= n THEN n - m + 1 ELSE 0
         /\ \A i \in 1 .. n - m + 1 : SubSeq(s, m, n)[i] = s[m + i - 1]
  OBVIOUS

\* All of a sequence is that sequence.
LEMMA SeqWhole ==
  ASSUME NEW S, NEW s \in Seq(S)
  PROVE  SubSeq(s, 1, Len(s)) = s
  OBVIOUS

\* Dropping the first entry.
LEMMA SeqTail ==
  ASSUME NEW S, NEW s \in Seq(S), s # <<>>
  PROVE  /\ Head(s) \in S /\ Tail(s) \in Seq(S) /\ Len(Tail(s)) = Len(s) - 1
         /\ \A i \in 1 .. Len(Tail(s)) : Tail(s)[i] = s[i + 1]
  OBVIOUS

\* Adding an entry at the end.
LEMMA SeqAppend ==
  ASSUME NEW S, NEW s \in Seq(S), NEW x \in S
  PROVE  /\ Append(s, x) \in Seq(S) /\ Append(s, x) # <<>>
         /\ Len(Append(s, x)) = Len(s) + 1 /\ Append(s, x)[Len(s) + 1] = x
         /\ \A i \in 1 .. Len(s) : Append(s, x)[i] = s[i]
  OBVIOUS

\* A function on 1 .. k is a sequence of length k.
LEMMA FunctionIsSeq ==
  ASSUME NEW S, NEW k \in Nat, NEW f \in [1 .. k -> S]
  PROVE  f \in Seq(S) /\ Len(f) = k
  OBVIOUS

\* Dropping one entry of a sequence keeps the order of the others.
LEMMA WithoutProperties ==
  ASSUME NEW S, NEW s \in Seq(S), NEW i \in 1 .. Len(s)
  PROVE  /\ Without(s, i) \in Seq(S)
         /\ Len(Without(s, i)) = Len(s) - 1
         /\ \A j \in 1 .. Len(s) - 1 :
               Without(s, i)[j] = IF j < i THEN s[j] ELSE s[j + 1]
<1> DEFINE a == SubSeq(s, 1, i - 1)
           b == SubSeq(s, i + 1, Len(s))
<1>0. Len(s) \in Nat /\ \A j \in 1 .. Len(s) : s[j] \in S
  BY SeqFunction, SeqElement
<1>1. /\ a \in Seq(S) /\ Len(a) = i - 1
      /\ \A j \in 1 .. i - 1 : a[j] = s[j]
  <2>1. \A j \in 1 .. i - 1 : s[j] \in S
    BY <1>0
  <2> QED BY <1>0, <2>1, SeqSub
<1>2. /\ b \in Seq(S) /\ Len(b) = Len(s) - i
      /\ \A j \in 1 .. Len(s) - i : b[j] = s[i + j]
  <2>1. \A j \in i + 1 .. Len(s) : s[j] \in S
    BY <1>0
  <2>2. /\ b \in Seq(S)
        /\ Len(b) = IF i + 1 <= Len(s) THEN Len(s) - (i + 1) + 1 ELSE 0
        /\ \A j \in 1 .. Len(s) - (i + 1) + 1 : b[j] = s[(i + 1) + j - 1]
    BY <1>0, <2>1, SeqSub
  <2> QED BY <1>0, <2>2
<1>3. Without(s, i) = a \o b
  BY DEF Without
<1> HIDE DEF a, b
<1>4. /\ a \o b \in Seq(S)
      /\ Len(a \o b) = Len(a) + Len(b)
      /\ \A j \in 1 .. Len(a) + Len(b) :
            (a \o b)[j] = IF j <= Len(a) THEN a[j] ELSE b[j - Len(a)]
  BY <1>1, <1>2, SeqConcat
<1>5. Len(a) + Len(b) = Len(s) - 1
  BY <1>0, <1>1, <1>2
<1>6. ASSUME NEW j \in 1 .. Len(s) - 1
      PROVE  (a \o b)[j] = IF j < i THEN s[j] ELSE s[j + 1]
  <2>1. CASE j < i
    BY <1>0, <1>1, <1>4, <1>5, <2>1
  <2>2. CASE ~(j < i)
    <3>1. (a \o b)[j] = b[j - Len(a)]
      BY <1>0, <1>1, <1>4, <1>5, <2>2
    <3>2. j - Len(a) \in 1 .. Len(s) - i /\ i + (j - Len(a)) = j + 1
      BY <1>0, <1>1, <2>2
    <3> QED BY <1>2, <2>2, <3>1, <3>2, Zenon
  <2> QED BY <2>1, <2>2, Zenon
<1> QED BY <1>3, <1>4, <1>5, <1>6

-----------------------------------------------------------------------------
(***************************************************************************)
(* Types.                                                                  *)
(***************************************************************************)
\* A wire counter is a natural number.
LEMMA WireNat == ASSUME NEW n \in Nat PROVE Wire(n) \in Nat
  BY WordAssumption DEF Wire

\* keyHistory.gc only drops keys.
LEMMA HistoryGCSubset ==
  ASSUME NEW prev, NEW k, NEW maxOOO
  PROVE  HistoryGC(prev, k, maxOOO) \subseteq prev
  BY DEF HistoryGC

\* chainEpochDirection.key leaves a direction and names a position.
LEMMA DirectionKeyType ==
  ASSUME NEW d \in Directions, NEW at \in Nat
  PROVE  LET k == DirectionKey(d, at, ChainParams)
         IN  k.err \in Errors /\ k.pos \in Nat /\ k.d \in Directions
<1> DEFINE maxOOO == MaxMessageKeys
           held == {i \in d.prev : Wire(i) = at}
           pos == CHOOSE i \in held : TRUE
           target == d.ctr + (at - Wire(d.ctr))
<1>1. d.ctr \in Nat /\ d.prev \in SUBSET Nat /\ d = [ctr |-> d.ctr, prev |-> d.prev]
  BY DEF Directions
<1>2. Wire(d.ctr) \in Nat
  BY <1>1, WireNat
<1> HIDE DEF pos
<1>3. LET k == HistoryGet(d, at, maxOOO)
      IN  k.err \in Errors /\ k.pos \in Nat /\ k.d \in Directions
  <2>1. CASE held = {}
    <3>1. \/ HistoryGet(d, at, maxOOO) = [err |-> "ErrKeyTrimmed", pos |-> 0, d |-> d]
          \/ HistoryGet(d, at, maxOOO) = [err |-> "ErrKeyAlreadyRequested", pos |-> 0, d |-> d]
      BY <2>1, WireNat, <1>1, BoundsAssumption DEF HistoryGet
    <3> QED BY <3>1 DEF Errors
  <2>2. CASE held # {}
    <3>1. pos \in held
      BY <2>2 DEF pos
    <3>2. pos \in Nat
      BY <3>1, <1>1
    <3>3. [d EXCEPT !.prev = @ \ {pos}] \in Directions
      BY <1>1 DEF Directions
    <3>4. \/ HistoryGet(d, at, maxOOO) = [err |-> "ErrKeyTrimmed", pos |-> 0, d |-> d]
          \/ HistoryGet(d, at, maxOOO)
                = [err |-> "ok", pos |-> pos, d |-> [d EXCEPT !.prev = @ \ {pos}]]
      BY <2>2 DEF HistoryGet, pos
    <3> QED BY <3>2, <3>3, <3>4 DEF Errors
  <2> QED BY <2>1, <2>2
<1>4. ASSUME at > Wire(d.ctr)
      PROVE  LET k == HistoryAdvance(d, at, maxOOO)
             IN  k.err \in Errors /\ k.pos \in Nat /\ k.d \in Directions
  <2> DEFINE kept == IF at > Wire(d.ctr + maxOOO) THEN {} ELSE d.prev
             skipped == {i \in d.ctr + 1 .. target - 1 : Wire(i + maxOOO) >= at}
             gc == HistoryGC(kept \cup skipped, target - 1, maxOOO)
  <2>1. target \in Nat
    BY <1>1, <1>2, <1>4
  <2>2. kept \cup skipped \in SUBSET Nat
    BY <1>1, <2>1
  <2>3. gc \in SUBSET Nat
    BY <2>2, HistoryGCSubset
  <2>4. HistoryAdvance(d, at, maxOOO)
          = [err |-> "ok", pos |-> target, d |-> [ctr |-> target, prev |-> gc]]
    BY DEF HistoryAdvance
  <2> HIDE DEF gc, target
  <2> QED BY <2>1, <2>3, <2>4 DEF Directions, Errors
<1>5. ChainParams.maxOOO = maxOOO
  BY DEF ChainParams
<1> HIDE DEF maxOOO
<1> QED BY <1>2, <1>3, <1>4, <1>5 DEF DirectionKey, Errors

-----------------------------------------------------------------------------
(***************************************************************************)
(* Receiver chains.                                                        *)
(***************************************************************************)
\* The chain key derivations are typed; a ratchet step lengthens the root key.
LEMMA KeyScheduleType ==
  ASSUME NEW root \in Roots, NEW a \in Keys, NEW b \in Keys
  PROVE  /\ NewChainKey(root) \in ChainKeys
         /\ NewChainKey(root).root = root /\ NewChainKey(root).n = 0
         /\ CreateChain(root, a, b) \in Roots
         /\ CreateChain(root, a, b).hs = root.hs
         /\ Len(CreateChain(root, a, b).dh) = Len(root.dh) + 1
<1> DEFINE D == SUBSET Keys
<1>1. root.hs \in Handshakes /\ root.dh \in Seq(D)
  BY DEF Roots
<1>2. DH(a, b) \in D
  BY DEF DH
<1>3. Append(root.dh, DH(a, b)) \in Seq(D) /\ Len(Append(root.dh, DH(a, b))) = Len(root.dh) + 1
  BY <1>1, <1>2, SeqAppend
<1>4. NewChainKey(root) \in ChainKeys
  BY DEF NewChainKey, ChainKeys
<1>5. CreateChain(root, a, b) = [hs |-> root.hs, dh |-> Append(root.dh, DH(a, b))]
  BY DEF CreateChain, Roots
<1>6. [hs |-> root.hs, dh |-> Append(root.dh, DH(a, b))] \in Roots
  BY <1>1, <1>3 DEF Roots
<1> QED BY <1>3, <1>4, <1>5, <1>6 DEF NewChainKey

\* AddReceiverChain appends the chain and drops at most the oldest one.
LEMMA AddReceiverChainProperties ==
  ASSUME NEW chains \in Seq(Chains), NEW ratchet \in Keys, NEW ck \in ChainKeys
  PROVE  LET added == AddReceiverChain(chains, ratchet, ck)
         IN  /\ added \in Seq(Chains) /\ Len(added) >= 1
             /\ added[Len(added)] = [ratchet |-> ratchet, ck |-> ck, keys |-> <<>>]
             /\ Len(chains) <= MaxReceiverChains => Len(added) <= MaxReceiverChains
             /\ \E drop \in {0, 1} :
                   /\ Len(added) = Len(chains) + 1 - drop
                   /\ \A i \in 1 .. Len(added) - 1 : added[i] = chains[i + drop]
<1> DEFINE c == [ratchet |-> ratchet, ck |-> ck, keys |-> <<>>]
           grown == Append(chains, c)
<1>1. c \in Chains
  BY SeqEmpty DEF Chains
<1>2. Len(chains) \in Nat
  BY SeqFunction
<1>3. AddReceiverChain(chains, ratchet, ck)
        = IF Len(grown) > MaxReceiverChains THEN Tail(grown) ELSE grown
  BY DEF AddReceiverChain
<1>4. c = [ratchet |-> ratchet, ck |-> ck, keys |-> <<>>]
  OBVIOUS
<1> HIDE DEF c
<1>5. /\ grown \in Seq(Chains) /\ grown # <<>> /\ Len(grown) = Len(chains) + 1
      /\ \A i \in 1 .. Len(chains) : grown[i] = chains[i]
      /\ grown[Len(chains) + 1] = c
  BY <1>1, SeqAppend
<1> HIDE DEF grown
<1>6. /\ Tail(grown) \in Seq(Chains) /\ Len(Tail(grown)) = Len(chains)
      /\ \A i \in 1 .. Len(chains) : Tail(grown)[i] = grown[i + 1]
  BY <1>2, <1>5, SeqTail
<1> DEFINE added == AddReceiverChain(chains, ratchet, ck)
<1>7. CASE Len(grown) > MaxReceiverChains
  <2>1. added = Tail(grown)
    BY <1>3, <1>7
  <2> HIDE DEF added
  <2>2. added \in Seq(Chains) /\ Len(added) >= 1 /\ added[Len(added)] = c
    BY <1>2, <1>5, <1>6, <1>7, <2>1, BoundsAssumption
  <2>3. /\ Len(added) = Len(chains) + 1 - 1
        /\ \A i \in 1 .. Len(added) - 1 : added[i] = chains[i + 1]
    BY <1>2, <1>5, <1>6, <2>1
  <2>4. \E drop \in {0, 1} :
           /\ Len(added) = Len(chains) + 1 - drop
           /\ \A i \in 1 .. Len(added) - 1 : added[i] = chains[i + drop]
    BY <2>3
  <2>5. Len(chains) <= MaxReceiverChains => Len(added) <= MaxReceiverChains
    BY <1>6, <2>1
  <2> QED BY <1>4, <2>2, <2>4, <2>5 DEF added
<1>8. CASE ~(Len(grown) > MaxReceiverChains)
  <2>1. added = grown
    BY <1>3, <1>8
  <2> HIDE DEF added
  <2>2. added \in Seq(Chains) /\ Len(added) >= 1 /\ added[Len(added)] = c
    BY <1>2, <1>5, <2>1
  <2>3. /\ Len(added) = Len(chains) + 1 - 0
        /\ \A i \in 1 .. Len(added) - 1 : added[i] = chains[i + 0]
    BY <1>2, <1>5, <2>1
  <2>4. \E drop \in {0, 1} :
           /\ Len(added) = Len(chains) + 1 - drop
           /\ \A i \in 1 .. Len(added) - 1 : added[i] = chains[i + drop]
    BY <2>3
  <2>5. Len(chains) <= MaxReceiverChains => Len(added) <= MaxReceiverChains
    BY <1>2, <1>5, <1>8, <2>1, BoundsAssumption
  <2> QED BY <1>4, <2>2, <2>4, <2>5 DEF added
<1> QED BY <1>7, <1>8

\* CacheMessageKeys, k times: the k keys from ck on come first, newest in
\* front, then the ones cached before, as far as the cap allows.
LEMMA CacheMessageKeysProperties ==
  ASSUME NEW keys \in Seq(ChainKeys), NEW ck \in ChainKeys, NEW k \in Nat
  PROVE  LET cached == CacheMessageKeys(keys, ck, k)
         IN  /\ cached \in Seq(ChainKeys) /\ Len(cached) <= MaxMessageKeys
             /\ \A i \in 1 .. Len(cached) :
                   \/ i <= k /\ cached[i] = [root |-> ck.root, n |-> ck.n + k - i]
                   \/ i - k \in 1 .. Len(keys) /\ cached[i] = keys[i - k]
<1> DEFINE skipped == [i \in 1 .. k |-> Advance(ck, k - i)]
           all == skipped \o keys
           limit == IF Len(all) > MaxMessageKeys THEN MaxMessageKeys ELSE Len(all)
           cached == SubSeq(all, 1, limit)
<1>1. ck.root \in Roots /\ ck.n \in Nat /\ ck = [root |-> ck.root, n |-> ck.n]
  BY DEF ChainKeys
<1>3. \A i \in 1 .. k : [root |-> ck.root, n |-> ck.n + k - i] \in ChainKeys
  BY <1>1 DEF ChainKeys
<1>4. /\ skipped \in Seq(ChainKeys) /\ Len(skipped) = k
      /\ \A i \in 1 .. k : skipped[i] = [root |-> ck.root, n |-> ck.n + k - i]
  <2>1. DOMAIN skipped = 1 .. k
    OBVIOUS
  <2>2. \A i \in 1 .. k : skipped[i] = [root |-> ck.root, n |-> ck.n + k - i]
    BY <1>1 DEF Advance
  <2>3. skipped \in [1 .. k -> ChainKeys]
    BY <1>3, <2>2, Zenon
  <2> HIDE DEF skipped
  <2> QED BY <2>1, <2>2, <2>3, FunctionIsSeq
<1> HIDE DEF skipped
<1>5. /\ all \in Seq(ChainKeys) /\ Len(all) = k + Len(keys)
      /\ \A i \in 1 .. k + Len(keys) :
            all[i] = IF i <= k THEN skipped[i] ELSE keys[i - k]
  BY <1>4, SeqConcat, ZenonT(40)
<1>6. Len(keys) \in Nat /\ \A i \in 1 .. Len(all) : all[i] \in ChainKeys
  BY <1>5, SeqFunction, SeqElement
<1> HIDE DEF all
<1>7. limit \in Nat /\ limit <= MaxMessageKeys /\ limit <= Len(all)
  BY <1>5, <1>6, BoundsAssumption
<1> HIDE DEF limit
<1>8. /\ cached \in Seq(ChainKeys) /\ Len(cached) = limit
      /\ \A i \in 1 .. limit : cached[i] = all[i]
  <2>1. \A i \in 1 .. limit : all[i] \in ChainKeys
    BY <1>5, <1>6, <1>7
  <2>2. /\ cached \in Seq(ChainKeys)
        /\ Len(cached) = IF 1 <= limit THEN limit - 1 + 1 ELSE 0
        /\ \A i \in 1 .. limit - 1 + 1 : cached[i] = all[1 + i - 1]
    BY <1>7, <2>1, SeqSub
  <2> QED BY <1>7, <2>2
<1>9. CacheMessageKeys(keys, ck, k) = cached
  BY DEF CacheMessageKeys, cached, limit, all, skipped
<1> HIDE DEF cached
<1>10. ASSUME NEW i \in 1 .. Len(cached)
       PROVE  \/ i <= k /\ cached[i] = [root |-> ck.root, n |-> ck.n + k - i]
              \/ i - k \in 1 .. Len(keys) /\ cached[i] = keys[i - k]
  <2>1. i \in 1 .. k + Len(keys) /\ cached[i] = IF i <= k THEN skipped[i] ELSE keys[i - k]
    BY <1>5, <1>6, <1>7, <1>8
  <2>2. CASE i <= k
    BY <1>4, <2>1, <2>2
  <2>3. CASE ~(i <= k)
    BY <1>6, <2>1, <2>3
  <2> QED BY <2>2, <2>3
<1> QED BY <1>7, <1>8, <1>9, <1>10

\* The search for a receiver chain returns one that matches, or 0 when there is
\* none.
LEMMA ChainSearch ==
  ASSUME NEW st \in SessionStates, NEW ratchet
  PROVE  /\ receiverChainIndex(st, ratchet) \in 0 .. Len(st.recv)
         /\ receiverChainIndex(st, ratchet) # 0 =>
               st.recv[receiverChainIndex(st, ratchet)].ratchet = ratchet
         /\ receiverChainIndex(st, ratchet) = 0 =>
               \A i \in 1 .. Len(st.recv) : st.recv[i].ratchet # ratchet
<1>1. Len(st.recv) \in Nat
  BY SeqFunction DEF SessionStates
<1> DEFINE found == {i \in 1 .. Len(st.recv) : st.recv[i].ratchet = ratchet}
<1>2. found \in SUBSET Nat
  OBVIOUS
<1>3. /\ found # {} => receiverChainIndex(st, ratchet) \in found
      /\ found = {} => receiverChainIndex(st, ratchet) = 0
  BY <1>2, SmallestIndex, Zenon DEF receiverChainIndex
<1> QED BY <1>1, <1>3

\* The search for a cached key returns an index of the cache, or 0.
LEMMA CacheSearch ==
  ASSUME NEW keys \in Seq(ChainKeys), NEW counter
  PROVE  CachedAt(keys, counter) \in 0 .. Len(keys)
<1> DEFINE found == {i \in 1 .. Len(keys) : Index(keys[i]) = counter}
<1>1. found \in SUBSET Nat /\ Len(keys) \in Nat
  BY SeqFunction
<1>2. /\ found # {} => CachedAt(keys, counter) \in found
      /\ found = {} => CachedAt(keys, counter) = 0
  BY <1>1, SmallestIndex, Zenon DEF CachedAt
<1> QED BY <1>1, <1>2

\* The three outcomes of getOrCreateMessageKeys: an error that leaves the chain
\* alone, a cached key taken, or the chain advanced past the requested key.
LEMMA MessageKeysCases ==
  ASSUME NEW c \in Chains, NEW counter \in Nat
  PROVE  LET mk == getOrCreateMessageKeys(c, counter)
         IN  \/ /\ mk.err \in {"ErrDuplicateMessage", "ErrInvalidMessage"}
                /\ mk.gen = c.ck /\ mk.chain = c
             \/ \E at \in 1 .. Len(c.keys) :
                   /\ mk.err = "ok" /\ mk.gen = c.keys[at]
                   /\ mk.chain = [ratchet |-> c.ratchet, ck |-> c.ck,
                                  keys |-> Without(c.keys, at)]
             \/ \E jump \in Nat :
                   /\ mk.err = "ok" /\ mk.gen = Advance(c.ck, jump)
                   /\ mk.chain = [ratchet |-> c.ratchet, ck |-> Advance(c.ck, jump + 1),
                                  keys |-> CacheMessageKeys(c.keys, c.ck, jump)]
<1> DEFINE mk == getOrCreateMessageKeys(c, counter)
           at == CachedAt(c.keys, counter)
           jump == counter - Index(c.ck)
<1>1. /\ c.ratchet \in Keys /\ c.ck \in ChainKeys /\ c.keys \in Seq(ChainKeys)
      /\ c = [ratchet |-> c.ratchet, ck |-> c.ck, keys |-> c.keys]
  BY DEF Chains
<1>2. c.ck.n \in Nat /\ c.ck = [root |-> c.ck.root, n |-> c.ck.n]
  BY <1>1 DEF ChainKeys
<1>3. jump \in Int
  BY <1>2, WireNat DEF Index
<1>4. at \in 0 .. Len(c.keys)
  BY <1>1, CacheSearch
<1>5. CASE jump < 0 /\ at = 0
  BY <1>5 DEF getOrCreateMessageKeys
<1>6. CASE jump < 0 /\ at # 0
  <2>0. mk = [err |-> "ok", gen |-> c.keys[at],
              chain |-> [ratchet |-> c.ratchet, ck |-> c.ck,
                         keys |-> TakeMessageKeys(c.keys, at)]]
    BY <1>3, <1>6, BoundsAssumption DEF getOrCreateMessageKeys
  <2>1. /\ mk.err = "ok" /\ mk.gen = c.keys[at]
        /\ mk.chain = [ratchet |-> c.ratchet, ck |-> c.ck, keys |-> Without(c.keys, at)]
    BY <2>0 DEF TakeMessageKeys
  <2>2. at \in 1 .. Len(c.keys)
    BY <1>4, <1>6
  <2> HIDE DEF mk, at
  <2> QED BY <2>1, <2>2, Zenon DEF mk
<1>7. CASE ~(jump < 0) /\ jump > MaxForwardJumps
  BY <1>7 DEF getOrCreateMessageKeys
<1>8. CASE ~(jump < 0) /\ ~(jump > MaxForwardJumps)
  <2>1. /\ mk.err = "ok" /\ mk.gen = Advance(c.ck, jump)
        /\ mk.chain = [ratchet |-> c.ratchet, ck |-> Advance(c.ck, jump + 1),
                       keys |-> CacheMessageKeys(c.keys, c.ck, jump)]
    BY <1>8 DEF getOrCreateMessageKeys
  <2>2. jump \in Nat
    BY <1>3, <1>8
  <2> HIDE DEF mk, jump
  <2> QED BY <2>1, <2>2, Zenon DEF mk
<1> QED BY <1>5, <1>6, <1>7, <1>8, Zenon

\* getOrCreateMessageKeys is typed, stays on its chain and keeps the cap.
LEMMA MessageKeysType ==
  ASSUME NEW c \in Chains, NEW counter \in Nat
  PROVE  LET mk == getOrCreateMessageKeys(c, counter)
         IN  /\ mk.err \in Errors /\ mk.gen \in ChainKeys /\ mk.chain \in Chains
             /\ mk.chain.ck.root = c.ck.root /\ mk.chain.ratchet = c.ratchet
             /\ Len(c.keys) <= MaxMessageKeys => Len(mk.chain.keys) <= MaxMessageKeys
<1> DEFINE mk == getOrCreateMessageKeys(c, counter)
<1>1. /\ c.ratchet \in Keys /\ c.ck \in ChainKeys /\ c.keys \in Seq(ChainKeys)
      /\ Len(c.keys) \in Nat
  BY SeqFunction DEF Chains
<1>2. ASSUME NEW k \in Nat
      PROVE  /\ Advance(c.ck, k) \in ChainKeys
             /\ Advance(c.ck, k).root = c.ck.root /\ Advance(c.ck, k).n = c.ck.n + k
  BY <1>1 DEF Advance, ChainKeys
<1> HIDE DEF mk
<1>3. CASE /\ mk.err \in {"ErrDuplicateMessage", "ErrInvalidMessage"}
           /\ mk.gen = c.ck /\ mk.chain = c
  BY <1>1, <1>3 DEF Errors, mk
<1>4. ASSUME NEW at \in 1 .. Len(c.keys), mk.err = "ok", mk.gen = c.keys[at],
             mk.chain = [ratchet |-> c.ratchet, ck |-> c.ck, keys |-> Without(c.keys, at)]
      PROVE  /\ mk.err \in Errors /\ mk.gen \in ChainKeys /\ mk.chain \in Chains
             /\ mk.chain.ck.root = c.ck.root /\ mk.chain.ratchet = c.ratchet
             /\ Len(c.keys) <= MaxMessageKeys => Len(mk.chain.keys) <= MaxMessageKeys
  <2>1. Without(c.keys, at) \in Seq(ChainKeys) /\ Len(Without(c.keys, at)) = Len(c.keys) - 1
    BY <1>1, WithoutProperties, Zenon
  <2>2. c.keys[at] \in ChainKeys
    BY <1>1, SeqElement
  <2>3. Len(c.keys) <= MaxMessageKeys => Len(Without(c.keys, at)) <= MaxMessageKeys
    BY <1>1, <2>1, BoundsAssumption
  <2> QED BY <1>1, <1>4, <2>1, <2>2, <2>3 DEF Errors, Chains
<1>5. ASSUME NEW jump \in Nat, mk.err = "ok", mk.gen = Advance(c.ck, jump),
             mk.chain = [ratchet |-> c.ratchet, ck |-> Advance(c.ck, jump + 1),
                         keys |-> CacheMessageKeys(c.keys, c.ck, jump)]
      PROVE  /\ mk.err \in Errors /\ mk.gen \in ChainKeys /\ mk.chain \in Chains
             /\ mk.chain.ck.root = c.ck.root /\ mk.chain.ratchet = c.ratchet
             /\ Len(c.keys) <= MaxMessageKeys => Len(mk.chain.keys) <= MaxMessageKeys
  <2>1. /\ CacheMessageKeys(c.keys, c.ck, jump) \in Seq(ChainKeys)
        /\ Len(CacheMessageKeys(c.keys, c.ck, jump)) <= MaxMessageKeys
    BY <1>1, CacheMessageKeysProperties
  <2>2. /\ Advance(c.ck, jump) \in ChainKeys /\ Advance(c.ck, jump + 1) \in ChainKeys
        /\ Advance(c.ck, jump + 1).root = c.ck.root
    BY <1>2
  <2> QED BY <1>1, <1>5, <2>1, <2>2 DEF Errors, Chains
<1> QED BY <1>3, <1>4, <1>5, MessageKeysCases, Zenon DEF mk

\* A key that getOrCreateMessageKeys hands out was held by the chain and is not
\* held afterwards, and the chain holds nothing it did not hold before.
LEMMA MessageKeysSpent ==
  ASSUME NEW c \in Chains, NEW counter \in Nat, WellFormedChain(c),
         getOrCreateMessageKeys(c, counter).err = "ok"
  PROVE  LET mk == getOrCreateMessageKeys(c, counter)
         IN  /\ WellFormedChain(mk.chain)
             /\ ChainHolds(c, mk.gen) /\ ~ChainHolds(mk.chain, mk.gen)
             /\ \A g \in ChainKeys : ChainHolds(mk.chain, g) => ChainHolds(c, g)
<1> DEFINE mk == getOrCreateMessageKeys(c, counter)
<1>1. /\ c.ratchet \in Keys /\ c.ck \in ChainKeys /\ c.keys \in Seq(ChainKeys)
      /\ Len(c.keys) \in Nat /\ c.ck.n \in Nat
      /\ \A i \in 1 .. Len(c.keys) : c.keys[i] \in ChainKeys /\ c.keys[i].n \in Nat
  <2>1. c.ratchet \in Keys /\ c.ck \in ChainKeys /\ c.keys \in Seq(ChainKeys)
    BY DEF Chains
  <2>2. Len(c.keys) \in Nat /\ \A i \in 1 .. Len(c.keys) : c.keys[i] \in ChainKeys
    BY <2>1, SeqFunction, SeqElement
  <2>3. \A g \in ChainKeys : g.n \in Nat
    BY DEF ChainKeys
  <2> QED BY <2>1, <2>2, <2>3
<1>2. /\ \A i \in 1 .. Len(c.keys) : c.keys[i].root = c.ck.root /\ c.keys[i].n < c.ck.n
      /\ \A i, j \in 1 .. Len(c.keys) : i < j => c.keys[j].n < c.keys[i].n
  BY DEF WellFormedChain
<1> HIDE DEF mk
<1>3. ASSUME NEW at \in 1 .. Len(c.keys), mk.gen = c.keys[at],
             mk.chain = [ratchet |-> c.ratchet, ck |-> c.ck, keys |-> Without(c.keys, at)]
      PROVE  /\ WellFormedChain(mk.chain)
             /\ ChainHolds(c, mk.gen) /\ ~ChainHolds(mk.chain, mk.gen)
             /\ \A g \in ChainKeys : ChainHolds(mk.chain, g) => ChainHolds(c, g)
  <2> DEFINE keys == Without(c.keys, at)
  <2>1. /\ Len(keys) = Len(c.keys) - 1
        /\ \A j \in 1 .. Len(c.keys) - 1 :
              keys[j] = IF j < at THEN c.keys[j] ELSE c.keys[j + 1]
    BY <1>1, WithoutProperties, Zenon
  <2>2. mk.chain.ck = c.ck /\ mk.chain.keys = keys
    BY <1>3
  <2> HIDE DEF keys
  <2>3. \A j \in 1 .. Len(keys) :
           \E i \in 1 .. Len(c.keys) :
              i # at /\ keys[j] = c.keys[i] /\ i = IF j < at THEN j ELSE j + 1
    BY <1>1, <2>1
  <2>4. WellFormedChain(mk.chain)
    <3>1. \A j \in 1 .. Len(keys) : keys[j].root = c.ck.root /\ keys[j].n < c.ck.n
      BY <1>2, <2>3
    <3>2. ASSUME NEW j \in 1 .. Len(keys), NEW k \in 1 .. Len(keys), j < k
          PROVE  keys[k].n < keys[j].n
      <4>1. PICK a \in 1 .. Len(c.keys) :
               keys[j] = c.keys[a] /\ a = IF j < at THEN j ELSE j + 1
        BY <2>3
      <4>2. PICK b \in 1 .. Len(c.keys) :
               keys[k] = c.keys[b] /\ b = IF k < at THEN k ELSE k + 1
        BY <2>3
      <4>3. a < b
        BY <1>1, <2>1, <3>2, <4>1, <4>2
      <4> QED BY <1>2, <4>1, <4>2, <4>3
    <3> QED BY <2>2, <3>1, <3>2 DEF WellFormedChain
  <2>5. ChainHolds(c, mk.gen)
    BY <1>2, <1>3 DEF ChainHolds
  <2>6. ~ChainHolds(mk.chain, mk.gen)
    <3>1. ~(c.ck.n <= mk.gen.n)
      BY <1>1, <1>2, <1>3
    <3>2. ASSUME NEW i \in 1 .. Len(c.keys), i # at PROVE c.keys[i] # c.keys[at]
      <4>1. c.keys[i].n # c.keys[at].n
        BY <1>1, <1>2, <3>2
      <4> QED BY <4>1
    <3>3. \A j \in 1 .. Len(keys) : keys[j] # mk.gen
      BY <1>3, <2>3, <3>2
    <3> QED BY <2>2, <3>1, <3>3 DEF ChainHolds
  <2>7. \A g \in ChainKeys : ChainHolds(mk.chain, g) => ChainHolds(c, g)
    BY <2>2, <2>3 DEF ChainHolds
  <2> QED BY <2>4, <2>5, <2>6, <2>7
<1>4. ASSUME NEW jump \in Nat, mk.gen = Advance(c.ck, jump),
             mk.chain = [ratchet |-> c.ratchet, ck |-> Advance(c.ck, jump + 1),
                         keys |-> CacheMessageKeys(c.keys, c.ck, jump)]
      PROVE  /\ WellFormedChain(mk.chain)
             /\ ChainHolds(c, mk.gen) /\ ~ChainHolds(mk.chain, mk.gen)
             /\ \A g \in ChainKeys : ChainHolds(mk.chain, g) => ChainHolds(c, g)
  <2> DEFINE keys == CacheMessageKeys(c.keys, c.ck, jump)
  <2>1. /\ keys \in Seq(ChainKeys)
        /\ \A i \in 1 .. Len(keys) :
              \/ i <= jump /\ keys[i] = [root |-> c.ck.root, n |-> c.ck.n + jump - i]
              \/ i - jump \in 1 .. Len(c.keys) /\ keys[i] = c.keys[i - jump]
    BY <1>1, CacheMessageKeysProperties, Zenon
  <2>2. mk.chain.ck = [root |-> c.ck.root, n |-> c.ck.n + (jump + 1)] /\ mk.chain.keys = keys
    BY <1>4 DEF Advance
  <2>3. mk.gen.root = c.ck.root /\ mk.gen.n = c.ck.n + jump
    BY <1>4 DEF Advance
  <2>4. Len(keys) \in Nat
    BY <2>1, SeqFunction
  <2> HIDE DEF keys
  <2>5. ASSUME NEW i \in 1 .. Len(keys)
        PROVE  /\ keys[i].root = c.ck.root /\ keys[i].n \in Nat /\ keys[i].n < c.ck.n + jump
               /\ c.ck.n <= keys[i].n \/ \E j \in 1 .. Len(c.keys) : keys[i] = c.keys[j]
    <3>1. CASE i <= jump /\ keys[i] = [root |-> c.ck.root, n |-> c.ck.n + jump - i]
      BY <1>1, <2>4, <3>1
    <3>2. CASE i - jump \in 1 .. Len(c.keys) /\ keys[i] = c.keys[i - jump]
      <4>1. PICK j \in 1 .. Len(c.keys) : keys[i] = c.keys[j]
        BY <3>2
      <4> QED BY <1>1, <1>2, <4>1
    <3> QED BY <2>1, <3>1, <3>2
  <2>6. WellFormedChain(mk.chain)
    <3>1. ASSUME NEW i \in 1 .. Len(keys), NEW j \in 1 .. Len(keys), i < j
          PROVE  keys[j].n < keys[i].n
      <4>1. CASE j <= jump /\ keys[j] = [root |-> c.ck.root, n |-> c.ck.n + jump - j]
        <5>1. ~(i - jump \in 1 .. Len(c.keys))
          BY <1>1, <2>4, <3>1, <4>1
        <5>2. keys[i] = [root |-> c.ck.root, n |-> c.ck.n + jump - i]
          BY <2>1, <5>1
        <5> QED BY <1>1, <2>4, <3>1, <4>1, <5>2
      <4>2. CASE j - jump \in 1 .. Len(c.keys) /\ keys[j] = c.keys[j - jump]
        <5>1. CASE i <= jump /\ keys[i] = [root |-> c.ck.root, n |-> c.ck.n + jump - i]
          <6>1. keys[i].n >= c.ck.n
            BY <1>1, <2>4, <5>1
          <6>2. keys[j].n < c.ck.n /\ keys[j].n \in Nat
            BY <1>1, <1>2, <4>2
          <6> QED BY <1>1, <2>5, <6>1, <6>2
        <5>2. CASE i - jump \in 1 .. Len(c.keys) /\ keys[i] = c.keys[i - jump]
          <6>1. i - jump < j - jump
            BY <2>4, <3>1
          <6> QED BY <1>2, <4>2, <5>2, <6>1
        <5> QED BY <2>1, <5>1, <5>2
      <4> QED BY <2>1, <4>1, <4>2
    <3>2. \A i \in 1 .. Len(keys) : keys[i].n < c.ck.n + (jump + 1)
      BY <1>1, <2>5
    <3> QED BY <2>2, <2>5, <3>1, <3>2 DEF WellFormedChain
  <2>7. ChainHolds(c, mk.gen)
    BY <1>1, <2>3 DEF ChainHolds
  <2>8. ~ChainHolds(mk.chain, mk.gen)
    <3>1. ~(c.ck.n + (jump + 1) <= mk.gen.n)
      BY <1>1, <2>3
    <3>2. \A i \in 1 .. Len(keys) : keys[i] # mk.gen
      BY <1>1, <2>3, <2>5
    <3> QED BY <2>2, <3>1, <3>2 DEF ChainHolds
  <2>9. ASSUME NEW g \in ChainKeys, ChainHolds(mk.chain, g) PROVE ChainHolds(c, g)
    <3>1. g.n \in Nat
      BY DEF ChainKeys
    <3>2. c.ck.root = g.root
      BY <2>2, <2>9 DEF ChainHolds
    <3>3. CASE c.ck.n + (jump + 1) <= g.n
      BY <1>1, <3>1, <3>2, <3>3 DEF ChainHolds
    <3>4. CASE \E j \in 1 .. Len(keys) : keys[j] = g
      BY <2>5, <3>2, <3>4 DEF ChainHolds
    <3> QED BY <2>2, <2>9, <3>3, <3>4 DEF ChainHolds
  <2> QED BY <2>6, <2>7, <2>8, <2>9
<1> QED BY <1>3, <1>4, MessageKeysCases, Zenon DEF mk


-----------------------------------------------------------------------------
(***************************************************************************)
(* Session states.                                                         *)
(***************************************************************************)
\* The fields of a session state.
LEMMA StateFields ==
  ASSUME NEW st \in SessionStates
  PROVE  /\ st.base \in Keys /\ st.local \in Keys /\ st.remote \in Keys
         /\ st.root \in Roots /\ st.ratchet \in Keys /\ st.ck \in ChainKeys
         /\ st.previousCounter \in Nat /\ st.recv \in Seq(Chains)
         /\ st.pq \in PQStates /\ st.pending \in Pendings \cup {Nil}
         /\ Len(st.recv) \in Nat
         /\ \A i \in 1 .. Len(st.recv) : st.recv[i] \in Chains
         /\ st.root.hs \in Handshakes /\ Len(st.root.dh) \in Nat
<1>1. /\ st.base \in Keys /\ st.local \in Keys /\ st.remote \in Keys
      /\ st.root \in Roots /\ st.ratchet \in Keys /\ st.ck \in ChainKeys
      /\ st.previousCounter \in Nat /\ st.recv \in Seq(Chains)
      /\ st.pq \in PQStates /\ st.pending \in Pendings \cup {Nil}
  BY DEF SessionStates
<1>2. Len(st.recv) \in Nat /\ \A i \in 1 .. Len(st.recv) : st.recv[i] \in Chains
  BY <1>1, SeqFunction, SeqElement
<1>3. st.root.hs \in Handshakes /\ st.root.dh \in Seq(SUBSET Keys)
  BY <1>1 DEF Roots
<1>4. Len(st.root.dh) \in Nat
  BY <1>3, SeqFunction
<1> QED BY <1>1, <1>2, <1>3, <1>4

\* The fields of a receiver chain.
LEMMA ChainFields ==
  ASSUME NEW c \in Chains
  PROVE  /\ c.ratchet \in Keys /\ c.ck \in ChainKeys /\ c.keys \in Seq(ChainKeys)
         /\ c.ck.root \in Roots /\ c.ck.n \in Nat /\ Len(c.keys) \in Nat
         /\ Len(c.ck.root.dh) \in Nat
<1>1. c.ratchet \in Keys /\ c.ck \in ChainKeys /\ c.keys \in Seq(ChainKeys)
  BY DEF Chains
<1>2. c.ck.root \in Roots /\ c.ck.n \in Nat
  BY <1>1 DEF ChainKeys
<1>3. c.ck.root.dh \in Seq(SUBSET Keys)
  BY <1>2 DEF Roots
<1> QED BY <1>1, <1>2, <1>3, SeqFunction

\* A DH ratchet step changes the root, the ratchet key, the sending chain and
\* the receiver chains, and nothing else.
LEMMA RatchetStepType ==
  ASSUME NEW st \in SessionStates, NEW theirs \in Keys, NEW ourNew \in Keys
  PROVE  LET st1 == getOrCreateChainKey(st, theirs, ourNew)
         IN  /\ st1 \in SessionStates
             /\ st1.base = st.base /\ st1.local = st.local /\ st1.remote = st.remote
             /\ st1.pq = st.pq /\ st1.pending = st.pending
             /\ st1.root.hs = st.root.hs
             /\ receiverChainIndex(st1, theirs) \in 1 .. Len(st1.recv)
             /\ WithinCaps(st) => WithinCaps(st1)
<1> DEFINE st1 == getOrCreateChainKey(st, theirs, ourNew)
           receiverRoot == CreateChain(st.root, theirs, st.ratchet)
           senderRoot == CreateChain(receiverRoot, theirs, ourNew)
           added == AddReceiverChain(st.recv, theirs, NewChainKey(receiverRoot))
           counter == PreviousCounter(Index(st.ck))
<1>1. CASE receiverChainIndex(st, theirs) # 0
  <2>1. st1 = st
    BY <1>1 DEF getOrCreateChainKey
  <2>2. receiverChainIndex(st, theirs) \in 1 .. Len(st.recv)
    BY <1>1, ChainSearch
  <2> QED BY <2>1, <2>2
<1>2. CASE receiverChainIndex(st, theirs) = 0
  <2>1. st1 = [st EXCEPT !.root = senderRoot, !.recv = added, !.previousCounter = counter,
                         !.ratchet = ourNew, !.ck = NewChainKey(senderRoot)]
    BY <1>2 DEF getOrCreateChainKey
  <2>2. receiverRoot \in Roots /\ receiverRoot.hs = st.root.hs
    BY StateFields, KeyScheduleType, Zenon
  <2> HIDE DEF receiverRoot
  <2>3. senderRoot \in Roots /\ senderRoot.hs = st.root.hs
    BY <2>2, StateFields, KeyScheduleType
  <2>4. NewChainKey(receiverRoot) \in ChainKeys /\ NewChainKey(senderRoot) \in ChainKeys
    BY <2>2, <2>3, StateFields, KeyScheduleType
  <2>5. counter \in Nat
    <3>1. Index(st.ck) \in Nat
      BY StateFields, WireNat DEF Index, ChainKeys
    <3> QED BY <3>1 DEF PreviousCounter
  <2> HIDE DEF counter
  <2>6. /\ added \in Seq(Chains) /\ Len(added) >= 1
        /\ added[Len(added)] = [ratchet |-> theirs, ck |-> NewChainKey(receiverRoot),
                                keys |-> <<>>]
        /\ Len(st.recv) <= MaxReceiverChains => Len(added) <= MaxReceiverChains
        /\ \E drop \in {0, 1} :
              /\ Len(added) = Len(st.recv) + 1 - drop
              /\ \A i \in 1 .. Len(added) - 1 : added[i] = st.recv[i + drop]
    BY <2>4, StateFields, AddReceiverChainProperties, Zenon
  <2> HIDE DEF senderRoot, added, st1
  <2>7. st1 \in SessionStates
    BY <2>1, <2>3, <2>4, <2>5, <2>6, Zenon DEF SessionStates
  <2>8. /\ st1.base = st.base /\ st1.local = st.local /\ st1.remote = st.remote
        /\ st1.pq = st.pq /\ st1.pending = st.pending
        /\ st1.root = senderRoot /\ st1.recv = added
    BY <2>1 DEF SessionStates
  <2>9. receiverChainIndex(st1, theirs) \in 1 .. Len(st1.recv)
    <3>1. Len(added) \in 1 .. Len(added) /\ added[Len(added)].ratchet = theirs
      BY <2>6, SeqFunction
    <3>2. receiverChainIndex(st1, theirs) # 0
      BY <2>7, <2>8, <3>1, ChainSearch
    <3> QED BY <2>7, <3>2, ChainSearch
  <2>10. WithinCaps(st) => WithinCaps(st1)
    <3> SUFFICES ASSUME WithinCaps(st), NEW i \in 1 .. Len(added)
                 PROVE  Len(added[i].keys) <= MaxMessageKeys
      BY <2>6, <2>8 DEF WithinCaps
    <3>1. CASE i = Len(added)
      BY <2>6, <3>1, SeqEmpty, BoundsAssumption
    <3>2. CASE i # Len(added)
      <4>1. PICK drop \in {0, 1} :
              /\ Len(added) = Len(st.recv) + 1 - drop
              /\ \A k \in 1 .. Len(added) - 1 : added[k] = st.recv[k + drop]
        BY <2>6
      <4>2. i + drop \in 1 .. Len(st.recv) /\ added[i] = st.recv[i + drop]
        BY <3>2, <4>1, StateFields
      <4> QED BY <4>2 DEF WithinCaps
    <3> QED BY <3>1, <3>2
  <2> QED BY <2>3, <2>7, <2>8, <2>9, <2>10 DEF st1
<1> QED BY <1>1, <1>2, ChainSearch


\* A DH ratchet step keeps the receiver chains in order and gives the state no
\* key it could not derive before.
LEMMA RatchetStepSound ==
  ASSUME NEW st \in SessionStates, NEW theirs \in Keys, NEW ourNew \in Keys, WellFormed(st)
  PROVE  LET st1 == getOrCreateChainKey(st, theirs, ourNew)
         IN  /\ WellFormed(st1)
             /\ \A g \in ChainKeys : CanDerive(st1, g) => CanDerive(st, g)
<1> DEFINE st1 == getOrCreateChainKey(st, theirs, ourNew)
           receiverRoot == CreateChain(st.root, theirs, st.ratchet)
           senderRoot == CreateChain(receiverRoot, theirs, ourNew)
           added == AddReceiverChain(st.recv, theirs, NewChainKey(receiverRoot))
           size(i) == Len(st.recv[i].ck.root.dh)
<1>1. CASE receiverChainIndex(st, theirs) # 0
  <2>1. st1 = st
    BY <1>1 DEF getOrCreateChainKey
  <2> QED BY <2>1
<1>2. CASE receiverChainIndex(st, theirs) = 0
  <2>1. st1.root = senderRoot /\ st1.recv = added
    BY <1>2 DEF getOrCreateChainKey, SessionStates
  <2>2. /\ receiverRoot \in Roots /\ receiverRoot.hs = st.root.hs
        /\ Len(receiverRoot.dh) = Len(st.root.dh) + 1
    BY StateFields, KeyScheduleType, ZenonT(40)
  <2> HIDE DEF receiverRoot
  <2>3. /\ senderRoot.hs = st.root.hs
        /\ Len(senderRoot.dh) = Len(receiverRoot.dh) + 1
    BY <2>2, StateFields, KeyScheduleType, Zenon
  <2>4. /\ NewChainKey(receiverRoot) \in ChainKeys
        /\ NewChainKey(receiverRoot).root = receiverRoot
    BY <2>2, StateFields, KeyScheduleType
  <2> DEFINE c == [ratchet |-> theirs, ck |-> NewChainKey(receiverRoot), keys |-> <<>>]
  <2>5. /\ added \in Seq(Chains) /\ Len(added) >= 1 /\ added[Len(added)] = c
        /\ \E drop \in {0, 1} :
              /\ Len(added) = Len(st.recv) + 1 - drop
              /\ \A i \in 1 .. Len(added) - 1 : added[i] = st.recv[i + drop]
    BY <2>4, StateFields, AddReceiverChainProperties, Zenon
  <2>6. c.ck.root = receiverRoot /\ WellFormedChain(c)
    BY <2>4, SeqEmpty DEF WellFormedChain
  <2> HIDE DEF senderRoot, added, st1, c
  <2>7. PICK drop \in {0, 1} :
              /\ Len(added) = Len(st.recv) + 1 - drop
              /\ \A i \in 1 .. Len(added) - 1 : added[i] = st.recv[i + drop]
    BY <2>5
  <2>8. Len(added) \in Nat /\ Len(st.recv) \in Nat /\ Len(st.root.dh) \in Nat
    BY <2>5, SeqFunction, StateFields
  <2>9. ASSUME NEW i \in 1 .. Len(added)
        PROVE  \/ i = Len(added) /\ added[i] = c
               \/ /\ i < Len(added) /\ i + drop \in 1 .. Len(st.recv)
                  /\ added[i] = st.recv[i + drop]
    BY <2>5, <2>7, <2>8
  <2>10. \A i \in 1 .. Len(st.recv) : /\ size(i) \in Nat /\ size(i) <= Len(st.root.dh)
                                      /\ WellFormedChain(st.recv[i])
                                      /\ st.recv[i].ck.root.hs = st.root.hs
    BY StateFields, ChainFields, Zenon DEF WellFormed
  <2>11. WellFormed(st1)
    <3>1. ASSUME NEW i \in 1 .. Len(added)
          PROVE  /\ WellFormedChain(added[i])
                 /\ added[i].ck.root.hs = st.root.hs
                 /\ Len(added[i].ck.root.dh) <= Len(senderRoot.dh)
      <4>1. CASE added[i] = c
        BY <2>2, <2>3, <2>6, <2>8, <4>1
      <4>2. CASE i + drop \in 1 .. Len(st.recv) /\ added[i] = st.recv[i + drop]
        <5>1. PICK k \in 1 .. Len(st.recv) : added[i] = st.recv[k]
          BY <4>2
        <5>2. /\ WellFormedChain(added[i]) /\ added[i].ck.root.hs = st.root.hs
              /\ Len(added[i].ck.root.dh) \in Nat
              /\ Len(added[i].ck.root.dh) <= Len(st.root.dh)
          BY <2>10, <5>1
        <5> QED BY <2>2, <2>3, <2>8, <5>2
      <4> QED BY <2>9, <4>1, <4>2
    <3>2. ASSUME NEW i \in 1 .. Len(added), NEW j \in 1 .. Len(added), i < j
          PROVE  Len(added[i].ck.root.dh) < Len(added[j].ck.root.dh)
      <4>1. i + drop \in 1 .. Len(st.recv) /\ added[i] = st.recv[i + drop]
        BY <2>8, <2>9, <3>2
      <4>2. CASE added[j] = c
        <5>1. PICK k \in 1 .. Len(st.recv) : added[i] = st.recv[k]
          BY <4>1
        <5>2. Len(added[i].ck.root.dh) \in Nat /\ Len(added[i].ck.root.dh) <= Len(st.root.dh)
          BY <2>10, <5>1
        <5>3. Len(added[j].ck.root.dh) = Len(st.root.dh) + 1
          BY <2>2, <2>6, <4>2
        <5> QED BY <2>8, <5>2, <5>3
      <4>3. CASE j + drop \in 1 .. Len(st.recv) /\ added[j] = st.recv[j + drop]
        <5>1. i + drop < j + drop
          BY <2>8, <3>2
        <5> QED BY <4>1, <4>3, <5>1 DEF WellFormed
      <4> QED BY <2>9, <4>2, <4>3
    <3> QED BY <2>1, <2>3, <3>1, <3>2 DEF WellFormed
  <2>12. ASSUME NEW g \in ChainKeys, CanDerive(st1, g) PROVE CanDerive(st, g)
    <3>0. Len(g.root.dh) \in Nat
      BY SeqFunction DEF ChainKeys, Roots
    <3>1. st.root.hs = g.root.hs
      BY <2>1, <2>3, <2>12 DEF CanDerive
    <3>2. CASE Len(senderRoot.dh) < Len(g.root.dh)
      BY <2>2, <2>3, <2>8, <3>0, <3>1, <3>2 DEF CanDerive
    <3>3. ASSUME NEW i \in 1 .. Len(added), ChainHolds(added[i], g)
          PROVE  CanDerive(st, g)
      <4>1. CASE added[i] = c
        <5>1. g.root = receiverRoot
          BY <2>6, <3>3, <4>1 DEF ChainHolds
        <5> QED BY <2>2, <2>8, <3>1, <5>1 DEF CanDerive
      <4>2. CASE i + drop \in 1 .. Len(st.recv) /\ added[i] = st.recv[i + drop]
        BY <3>1, <3>3, <4>2 DEF CanDerive
      <4> QED BY <2>9, <4>1, <4>2
    <3> QED BY <2>1, <2>12, <3>2, <3>3 DEF CanDerive
  <2> QED BY <2>11, <2>12 DEF st1
<1> QED BY <1>1, <1>2, ChainSearch


\* PQRatchetRecv and PQRatchetSend change the SPQR half of the state only.
LEMMA PQRatchetType ==
  ASSUME NEW st \in SessionStates, NEW index \in Nat
  PROVE  /\ PQRatchetRecv(st, index).err \in Errors
         /\ \E pq \in PQStates : PQRatchetRecv(st, index).st = [st EXCEPT !.pq = pq]
         /\ \E pq \in PQStates : PQRatchetSend(st) = [st EXCEPT !.pq = pq]
<1>1. st.pq \in PQStates /\ st = [st EXCEPT !.pq = st.pq]
  BY DEF SessionStates
<1>2. st.pq.send \in Directions /\ st.pq.recv \in Directions
  BY <1>1 DEF PQStates
<1>3. DirectionNextKey(st.pq.send) \in Directions
  BY <1>2 DEF DirectionNextKey, Directions
<1>4. ASSUME NEW d \in Directions
      PROVE  [st.pq EXCEPT !.send = d] \in PQStates /\ [st.pq EXCEPT !.recv = d] \in PQStates
  BY <1>1 DEF PQStates
<1>5. \E pq \in PQStates : PQRatchetSend(st) = [st EXCEPT !.pq = pq]
  <2> DEFINE pq == [st.pq EXCEPT !.send = DirectionNextKey(st.pq.send)]
  <2>1. PQRatchetSend(st) = [st EXCEPT !.pq = pq]
    BY DEF PQRatchetSend
  <2>2. pq \in PQStates
    BY <1>3, <1>4, Zenon
  <2> QED BY <2>1, <2>2
<1>6. CASE index = 0
  BY <1>1, <1>5, <1>6 DEF PQRatchetRecv, Errors
<1>7. CASE index # 0
  <2> DEFINE k == DirectionKey(st.pq.recv, index, ChainParams)
  <2>1. k.err \in Errors /\ k.d \in Directions
    BY <1>2, DirectionKeyType
  <2>2. /\ PQRatchetRecv(st, index).err = k.err
        /\ PQRatchetRecv(st, index).st = [st EXCEPT !.pq = [@ EXCEPT !.recv = k.d]]
    BY <1>7 DEF PQRatchetRecv
  <2> HIDE DEF k
  <2> QED BY <1>4, <1>5, <2>1, <2>2, Zenon
<1> QED BY <1>6, <1>7, Zenon

\* The stages of decryptWithState: the ratchet step, the chain it uses, its key.
Stepped(st, m, ourNew)   == getOrCreateChainKey(st, m.ratchet, ourNew)
UsedChain(st, m, ourNew) == receiverChainIndex(Stepped(st, m, ourNew), m.ratchet)
UsedKeys(st, m, ourNew)  ==
    getOrCreateMessageKeys(Stepped(st, m, ourNew).recv[UsedChain(st, m, ourNew)], m.counter)

\* What decryptWithState leaves of the state it was given: the ratchet step, the
\* chain that was used, the SPQR half, and no pending pre-key message.
LEMMA DecryptShape ==
  ASSUME NEW st \in SessionStates, NEW m \in Messages, NEW ourNew \in Keys
  PROVE  LET d   == decryptWithState(st, m, ourNew)
             st1 == Stepped(st, m, ourNew)
             i   == UsedChain(st, m, ourNew)
             mk  == UsedKeys(st, m, ourNew)
         IN  /\ d.err \in Errors
             /\ d.err = "ok" => mk.err = "ok" /\ mk.gen = m.mac.gen
             /\ \E pq \in PQStates :
                   d.st = [st1 EXCEPT !.recv = [st1.recv EXCEPT ![i] = mk.chain],
                                      !.pq = pq, !.pending = Nil]
<1> DEFINE st1 == Stepped(st, m, ourNew)
           i   == UsedChain(st, m, ourNew)
           mk  == UsedKeys(st, m, ourNew)
           st2 == [st1 EXCEPT !.recv = [@ EXCEPT ![i] = mk.chain]]
           rcv == PQRatchetRecv(st2, m.pqIndex)
           mac == MacOf(mk.gen, rcv.key, st.remote, st.local)
           d   == decryptWithState(st, m, ourNew)
<1>1. m.ratchet \in Keys /\ m.counter \in Nat /\ m.pqIndex \in Nat
  BY DEF Messages
<1>2. st1 \in SessionStates /\ i \in 1 .. Len(st1.recv)
  BY <1>1, RatchetStepType, Zenon DEF Stepped, UsedChain
<1>3. d.st = ClearUnacknowledgedPreKeyMessage(rcv.st)
  BY DEF decryptWithState, Stepped, UsedChain, UsedKeys
<1>4. d.err = CASE mk.err # "ok" -> mk.err
                [] mk.err = "ok" /\ rcv.err # "ok" -> rcv.err
                [] mk.err = "ok" /\ rcv.err = "ok" /\ mac # m.mac -> "ErrInvalidMessage"
                [] OTHER -> "ok"
  BY DEF decryptWithState, Stepped, UsedChain, UsedKeys
<1>5. mac.gen = mk.gen
  BY DEF MacOf
<1> HIDE DEF st1, i
<1>6. st1.recv[i] \in Chains /\ st1.recv \in Seq(Chains)
  BY <1>2, StateFields, Zenon
<1>7. mk.err \in Errors /\ mk.chain \in Chains
  BY <1>1, <1>6, MessageKeysType DEF UsedKeys, st1, i
<1> HIDE DEF mk, d
<1>8. [st1.recv EXCEPT ![i] = mk.chain] \in Seq(Chains)
  BY <1>2, <1>6, <1>7, SeqExcept
<1>9. st2 \in SessionStates
  BY <1>2, <1>8, Zenon DEF SessionStates
<1>10. rcv.err \in Errors /\ \E pq \in PQStates : rcv.st = [st2 EXCEPT !.pq = pq]
  <2> HIDE DEF st2
  <2> QED BY <1>1, <1>9, PQRatchetType
<1> HIDE DEF rcv, mac
<1>11. d.err \in Errors /\ (d.err = "ok" => mk.err = "ok" /\ mac = m.mac)
  BY <1>4, <1>7, <1>10 DEF Errors
<1>12. \E pq \in PQStates :
          d.st = [st1 EXCEPT !.recv = [st1.recv EXCEPT ![i] = mk.chain],
                             !.pq = pq, !.pending = Nil]
  <2>1. PICK pq \in PQStates : rcv.st = [st2 EXCEPT !.pq = pq]
    BY <1>10, Zenon
  <2>2. d.st = [[st2 EXCEPT !.pq = pq] EXCEPT !.pending = Nil]
    BY <1>3, <2>1 DEF ClearUnacknowledgedPreKeyMessage
  <2> DEFINE recv == [st1.recv EXCEPT ![i] = mk.chain]
  <2>3. st2 = [st1 EXCEPT !.recv = recv]
    OBVIOUS
  <2> HIDE DEF recv, st2
  <2>4. [[[st1 EXCEPT !.recv = recv] EXCEPT !.pq = pq] EXCEPT !.pending = Nil]
           = [st1 EXCEPT !.recv = recv, !.pq = pq, !.pending = Nil]
    BY <1>2 DEF SessionStates
  <2> QED BY <2>2, <2>3, <2>4, Zenon DEF recv
<1> QED BY <1>5, <1>11, <1>12, Zenon DEF st1, i, mk, d


\* decryptWithState is typed, keeps the session's handshake and parties, and
\* keeps the caps.
LEMMA DecryptType ==
  ASSUME NEW st \in SessionStates, NEW m \in Messages, NEW ourNew \in Keys
  PROVE  LET d == decryptWithState(st, m, ourNew)
         IN  /\ d.err \in Errors /\ d.st \in SessionStates
             /\ d.st.base = st.base /\ d.st.local = st.local /\ d.st.remote = st.remote
             /\ d.st.root.hs = st.root.hs /\ d.st.pending = Nil
             /\ WithinCaps(st) => WithinCaps(d.st)
<1> DEFINE st1  == Stepped(st, m, ourNew)
           i    == UsedChain(st, m, ourNew)
           mk   == UsedKeys(st, m, ourNew)
           recv == [st1.recv EXCEPT ![i] = mk.chain]
           d    == decryptWithState(st, m, ourNew)
<1>1. m.ratchet \in Keys /\ m.counter \in Nat
  BY DEF Messages
<1>2. /\ st1 \in SessionStates /\ i \in 1 .. Len(st1.recv)
      /\ st1.base = st.base /\ st1.local = st.local /\ st1.remote = st.remote
      /\ st1.root.hs = st.root.hs
      /\ WithinCaps(st) => WithinCaps(st1)
  BY <1>1, RatchetStepType, Zenon DEF Stepped, UsedChain
<1>3. d.err \in Errors
  BY DecryptShape, Zenon
<1>4. PICK pq \in PQStates : d.st = [st1 EXCEPT !.recv = recv, !.pq = pq, !.pending = Nil]
  BY DecryptShape, ZenonT(30)
<1> HIDE DEF st1, i, d
<1>5. st1.recv[i] \in Chains /\ st1.recv \in Seq(Chains)
  BY <1>2, StateFields
<1>6. /\ mk.chain \in Chains
      /\ Len(st1.recv[i].keys) <= MaxMessageKeys => Len(mk.chain.keys) <= MaxMessageKeys
  BY <1>1, <1>5, MessageKeysType, Zenon DEF UsedKeys, st1, i
<1> HIDE DEF mk
<1>7. /\ recv \in Seq(Chains) /\ Len(recv) = Len(st1.recv)
      /\ \A j \in 1 .. Len(st1.recv) : recv[j] = IF j = i THEN mk.chain ELSE st1.recv[j]
  BY <1>2, <1>5, <1>6, SeqExcept, SMTT(20)
<1> HIDE DEF recv
<1>8. d.st \in SessionStates
  BY <1>2, <1>4, <1>7, Zenon DEF SessionStates
<1>9. /\ d.st.base = st1.base /\ d.st.local = st1.local /\ d.st.remote = st1.remote
      /\ d.st.root = st1.root /\ d.st.pending = Nil /\ d.st.recv = recv
  BY <1>2, <1>4 DEF SessionStates
<1>10. WithinCaps(st1) => WithinCaps(d.st)
  BY <1>2, <1>6, <1>7, <1>9 DEF WithinCaps
<1> QED BY <1>2, <1>3, <1>8, <1>9, <1>10 DEF d

\* Forward secrecy of one session: what decryptWithState decrypts, the state
\* could derive before and cannot derive afterwards, and it gains no other key.
LEMMA DecryptSpent ==
  ASSUME NEW st \in SessionStates, NEW m \in Messages, NEW ourNew \in Keys, WellFormed(st),
         decryptWithState(st, m, ourNew).err = "ok"
  PROVE  LET d == decryptWithState(st, m, ourNew)
         IN  /\ WellFormed(d.st)
             /\ CanDerive(st, m.mac.gen) /\ ~CanDerive(d.st, m.mac.gen)
             /\ \A g \in ChainKeys : CanDerive(d.st, g) => CanDerive(st, g)
<1> DEFINE st1  == Stepped(st, m, ourNew)
           i    == UsedChain(st, m, ourNew)
           mk   == UsedKeys(st, m, ourNew)
           recv == [st1.recv EXCEPT ![i] = mk.chain]
           d    == decryptWithState(st, m, ourNew)
<1>1. m.ratchet \in Keys /\ m.counter \in Nat
  BY DEF Messages
<1>2. st1 \in SessionStates /\ i \in 1 .. Len(st1.recv)
  BY <1>1, RatchetStepType, Zenon DEF Stepped, UsedChain
<1>3. WellFormed(st1) /\ \A g \in ChainKeys : CanDerive(st1, g) => CanDerive(st, g)
  BY <1>1, RatchetStepSound DEF Stepped
<1>4. mk.err = "ok" /\ mk.gen = m.mac.gen
  BY DecryptShape, ZenonT(40)
<1>5. PICK pq \in PQStates : d.st = [st1 EXCEPT !.recv = recv, !.pq = pq, !.pending = Nil]
  BY DecryptShape, ZenonT(40)
<1> HIDE DEF st1, i, d
<1>6. /\ Len(st1.recv) \in Nat /\ st1.recv \in Seq(Chains)
      /\ \A j \in 1 .. Len(st1.recv) : st1.recv[j] \in Chains
  BY <1>2, StateFields
<1> DEFINE c == st1.recv[i]
<1>7. c \in Chains /\ WellFormedChain(c) /\ c.ck.root.hs = st1.root.hs
      /\ Len(c.ck.root.dh) <= Len(st1.root.dh)
  BY <1>2, <1>3, <1>6, SMTT(20) DEF WellFormed
<1>8. mk.gen \in ChainKeys /\ mk.chain \in Chains /\ mk.chain.ck.root = c.ck.root
  BY <1>1, <1>7, MessageKeysType, Zenon DEF UsedKeys, st1, i
<1>9. /\ WellFormedChain(mk.chain) /\ ChainHolds(c, mk.gen) /\ ~ChainHolds(mk.chain, mk.gen)
      /\ \A g \in ChainKeys : ChainHolds(mk.chain, g) => ChainHolds(c, g)
  BY <1>1, <1>4, <1>7, MessageKeysSpent, Zenon DEF UsedKeys, st1, i
<1> HIDE DEF mk
<1> HIDE DEF c
<1>10. /\ Len(recv) = Len(st1.recv)
       /\ \A j \in 1 .. Len(st1.recv) : recv[j] = IF j = i THEN mk.chain ELSE st1.recv[j]
  BY <1>2, <1>6, <1>8, SeqExcept
<1> USE DEF c
<1> HIDE DEF recv
<1>11. d.st.root = st1.root /\ d.st.recv = recv
  BY <1>2, <1>5 DEF SessionStates
<1>12. \A j \in 1 .. Len(recv) : recv[j].ck.root = st1.recv[j].ck.root
  BY <1>8, <1>10
<1>13. WellFormed(d.st)
  <2>1. ASSUME NEW j \in 1 .. Len(recv)
        PROVE  /\ WellFormedChain(recv[j]) /\ recv[j].ck.root.hs = st1.root.hs
               /\ Len(recv[j].ck.root.dh) <= Len(st1.root.dh)
    BY <1>3, <1>9, <1>10, <1>12, ZenonT(40) DEF WellFormed
  <2>2. ASSUME NEW j \in 1 .. Len(recv), NEW k \in 1 .. Len(recv), j < k
        PROVE  Len(recv[j].ck.root.dh) < Len(recv[k].ck.root.dh)
    BY <1>3, <1>10, <1>12, <2>2, SMTT(20) DEF WellFormed
  <2> QED BY <1>11, <2>1, <2>2, Zenon DEF WellFormed
<1>14. CanDerive(st, m.mac.gen)
  <2>1. CanDerive(st1, mk.gen)
    <3>1. st1.root.hs = mk.gen.root.hs
      BY <1>7, <1>9 DEF ChainHolds
    <3> QED BY <1>2, <1>9, <3>1, Zenon DEF CanDerive
  <2> QED BY <1>3, <1>4, <1>8, <2>1
<1>15. ~CanDerive(d.st, m.mac.gen)
  <2>1. mk.gen.root = c.ck.root
    BY <1>9 DEF ChainHolds
  <2>2. ~(Len(st1.root.dh) < Len(mk.gen.root.dh))
    <3>1. Len(st1.root.dh) \in Nat /\ Len(c.ck.root.dh) \in Nat
      BY <1>2, <1>7, StateFields, ChainFields
    <3> HIDE DEF c
    <3> QED BY <1>7, <2>1, <3>1, SMTT(20)
  <2>3. ASSUME NEW j \in 1 .. Len(recv), j # i PROVE ~ChainHolds(recv[j], mk.gen)
    <3>1. recv[j] = st1.recv[j] /\ j \in 1 .. Len(st1.recv)
      BY <1>10, <2>3, ZenonT(40)
    <3>2. Len(st1.recv[j].ck.root.dh) \in Nat /\ Len(c.ck.root.dh) \in Nat
      BY <1>6, <1>7, <3>1, ChainFields, SMTT(20)
    <3>3. j < i \/ i < j
      BY <1>2, <1>6, <2>3, <3>1
    <3>4. Len(st1.recv[j].ck.root.dh) # Len(c.ck.root.dh)
      <4>1. \/ Len(st1.recv[j].ck.root.dh) < Len(c.ck.root.dh)
            \/ Len(c.ck.root.dh) < Len(st1.recv[j].ck.root.dh)
        BY <1>2, <1>3, <3>1, <3>3, Zenon DEF WellFormed
      <4> QED BY <3>2, <4>1, SMTT(20)
    <3> QED BY <2>1, <3>1, <3>4, Zenon DEF ChainHolds
  <2>4. \A j \in 1 .. Len(recv) : ~ChainHolds(recv[j], mk.gen)
    BY <1>9, <1>10, <2>3, Zenon
  <2> QED BY <1>4, <1>11, <2>2, <2>4, ZenonT(40) DEF CanDerive
<1>16. ASSUME NEW g \in ChainKeys, CanDerive(d.st, g) PROVE CanDerive(st, g)
  <2>1. ASSUME NEW j \in 1 .. Len(recv), ChainHolds(recv[j], g)
        PROVE  ChainHolds(st1.recv[j], g) /\ j \in 1 .. Len(st1.recv)
    BY <1>9, <1>10, <2>1
  <2>2. CanDerive(st1, g)
    BY <1>11, <1>16, <2>1 DEF CanDerive
  <2> QED BY <1>3, <2>2
<1> QED BY <1>13, <1>14, <1>15, <1>16 DEF d

-----------------------------------------------------------------------------
(***************************************************************************)
(* Session records.                                                        *)
(***************************************************************************)
Archived(r) == {r.previous[i] : i \in 1 .. Len(r.previous)}

\* The sessions of r, with or without the pending pre-key message.
Kept(r) == LiveStates(r) \cup {ClearUnacknowledgedPreKeyMessage(st) : st \in LiveStates(r)}

\* ClearUnacknowledgedPreKeyMessage changes nothing but the pending message.
LEMMA ClearProperties ==
  ASSUME NEW st \in SessionStates
  PROVE  LET c == ClearUnacknowledgedPreKeyMessage(st)
         IN  /\ c \in SessionStates /\ c.pending = Nil
             /\ c.base = st.base /\ c.root = st.root /\ c.recv = st.recv
             /\ c.local = st.local /\ c.remote = st.remote /\ c.ck = st.ck /\ c.pq = st.pq
  BY DEF ClearUnacknowledgedPreKeyMessage, SessionStates

\* The fields of a record.
LEMMA RecordFields ==
  ASSUME NEW r \in Records
  PROVE  /\ r.current \in SessionStates \cup {Nil} /\ r.previous \in Seq(SessionStates)
         /\ Len(r.previous) \in Nat
         /\ \A i \in 1 .. Len(r.previous) :
               r.previous[i] \in SessionStates /\ r.previous[i] \in LiveStates(r)
         /\ r.current # Nil => r.current \in SessionStates /\ r.current \in LiveStates(r)
         /\ LiveStates(r) \subseteq SessionStates
<1>1. r.current \in SessionStates \cup {Nil} /\ r.previous \in Seq(SessionStates)
  BY DEF Records
<1>2. Len(r.previous) \in Nat /\ \A i \in 1 .. Len(r.previous) : r.previous[i] \in SessionStates
  BY <1>1, SeqFunction, SeqElement
<1> QED BY <1>1, <1>2 DEF LiveStates

\* ArchiveCurrentState: the current session goes to the front of the archive,
\* the others keep their order, and the last one is dropped at the cap.
LEMMA ArchiveShape ==
  ASSUME NEW r \in Records, r.current # Nil
  PROVE  LET a == ArchiveCurrentState(r)
         IN  /\ a \in Records /\ a.current = Nil
             /\ Len(a.previous) \in 1 .. Len(r.previous) + 1
             /\ Len(r.previous) <= ArchivedStatesMaxLength =>
                   Len(a.previous) <= ArchivedStatesMaxLength
             /\ a.previous[1] = ClearUnacknowledgedPreKeyMessage(r.current)
             /\ \A i \in 2 .. Len(a.previous) : a.previous[i] = r.previous[i - 1]
<1> DEFINE old == r.previous
           size == IF Len(old) >= ArchivedStatesMaxLength THEN Len(old) - 1 ELSE Len(old)
           room == SubSeq(old, 1, size)
           c == ClearUnacknowledgedPreKeyMessage(r.current)
           a == ArchiveCurrentState(r)
<1>1. /\ old \in Seq(SessionStates) /\ Len(old) \in Nat
      /\ \A i \in 1 .. Len(old) : old[i] \in SessionStates
      /\ r.current \in SessionStates
  BY RecordFields
<1>2. c \in SessionStates
  BY <1>1, ClearProperties
<1>3. size \in Nat /\ size <= Len(old)
  BY <1>1, ArchiveAssumption
<1>4. a = [current |-> Nil, previous |-> <<c>> \o room]
  <2>1. SubSeq(old, 1, Len(old)) = old
    BY <1>1, SeqWhole
  <2> QED BY <2>1, Zenon DEF ArchiveCurrentState
<1> HIDE DEF old, c, a
<1>5. /\ room \in Seq(SessionStates) /\ Len(room) = size
      /\ \A i \in 1 .. size : room[i] = old[i]
  <2> HIDE DEF size
  <2>1. \A i \in 1 .. size : old[i] \in SessionStates
    BY <1>1, <1>3
  <2>2. /\ room \in Seq(SessionStates)
        /\ Len(room) = IF 1 <= size THEN size - 1 + 1 ELSE 0
        /\ \A i \in 1 .. size - 1 + 1 : room[i] = old[1 + i - 1]
    BY <1>3, <2>1, SeqSub
  <2> QED BY <1>3, <2>2
<1> HIDE DEF room
<1>6. <<c>> \in Seq(SessionStates) /\ Len(<<c>>) = 1 /\ <<c>>[1] = c
  BY <1>2
<1>7. /\ <<c>> \o room \in Seq(SessionStates) /\ Len(<<c>> \o room) = 1 + size
      /\ \A i \in 1 .. 1 + size :
            (<<c>> \o room)[i] = IF i <= 1 THEN <<c>>[i] ELSE room[i - 1]
  BY <1>5, <1>6, SeqConcat
<1> DEFINE prev == <<c>> \o room
<1> HIDE DEF prev
<1>8. /\ prev \in Seq(SessionStates) /\ Len(prev) = 1 + size /\ prev[1] = c
      /\ \A i \in 2 .. Len(prev) : prev[i] = old[i - 1]
  <2> HIDE DEF size
  <2>1. prev \in Seq(SessionStates) /\ Len(prev) = 1 + size /\ prev[1] = c
    BY <1>3, <1>6, <1>7 DEF prev
  <2>2. ASSUME NEW i \in 2 .. 1 + size PROVE prev[i] = old[i - 1]
    <3>1. prev[i] = room[i - 1] /\ i - 1 \in 1 .. size
      BY <1>3, <1>7 DEF prev
    <3> QED BY <1>5, <3>1
  <2> QED BY <2>1, <2>2
<1>9. a.current = Nil /\ a.previous = prev /\ a \in Records
  BY <1>4, <1>8 DEF Records, prev
<1>10. /\ Len(prev) \in 1 .. Len(old) + 1
       /\ Len(old) <= ArchivedStatesMaxLength => Len(prev) <= ArchivedStatesMaxLength
  BY <1>1, <1>8, ArchiveAssumption
<1> QED BY <1>8, <1>9, <1>10 DEF a, c, old


\* What archiving the current session preserves.
LEMMA ArchiveProperties ==
  ASSUME NEW r \in Records
  PROVE  LET a == ArchiveCurrentState(r)
         IN  /\ a \in Records /\ a.current = Nil
             /\ Archived(a) \subseteq Kept(r)
             /\ DistinctBases(r) => DistinctBases(a)
             /\ RecordWithinCaps(r) => RecordWithinCaps(a)
<1> DEFINE a == ArchiveCurrentState(r)
<1>1. CASE r.current = Nil
  <2>1. a = r
    BY <1>1 DEF ArchiveCurrentState
  <2> QED BY <1>1, <2>1, RecordFields DEF Archived, Kept
<1>2. CASE r.current # Nil
  <2> DEFINE c == ClearUnacknowledgedPreKeyMessage(r.current)
  <2>1. /\ a \in Records /\ a.current = Nil
        /\ Len(a.previous) \in 1 .. Len(r.previous) + 1
        /\ Len(r.previous) <= ArchivedStatesMaxLength =>
              Len(a.previous) <= ArchivedStatesMaxLength
        /\ a.previous[1] = c
        /\ \A i \in 2 .. Len(a.previous) : a.previous[i] = r.previous[i - 1]
    BY <1>2, ArchiveShape
  <2>2. /\ r.current \in SessionStates /\ r.current \in LiveStates(r)
        /\ Len(r.previous) \in Nat
        /\ \A i \in 1 .. Len(r.previous) : r.previous[i] \in LiveStates(r)
    BY <1>2, RecordFields
  <2>3. /\ c \in SessionStates /\ c.base = r.current.base /\ c.pending = Nil
        /\ c.recv = r.current.recv /\ c \in Kept(r)
    BY <2>2, ClearProperties DEF Kept
  <2> HIDE DEF a, c
  <2>4. ASSUME NEW i \in 1 .. Len(a.previous)
        PROVE  \/ i = 1 /\ a.previous[i] = c
               \/ i - 1 \in 1 .. Len(r.previous) /\ a.previous[i] = r.previous[i - 1]
    BY <2>1, <2>2
  <2>5. Archived(a) \subseteq Kept(r)
    BY <2>2, <2>3, <2>4 DEF Archived, Kept
  <2>6. ASSUME DistinctBases(r) PROVE DistinctBases(a)
    <3>1. ASSUME NEW i \in 1 .. Len(a.previous), NEW j \in 1 .. Len(a.previous),
                 a.previous[i].base = a.previous[j].base
          PROVE  i = j
      <4>1. CASE i = 1 /\ a.previous[i] = c
        BY <1>2, <2>3, <2>4, <2>6, <3>1, <4>1 DEF DistinctBases
      <4>2. CASE i - 1 \in 1 .. Len(r.previous) /\ a.previous[i] = r.previous[i - 1]
        <5>1. CASE j = 1 /\ a.previous[j] = c
          BY <1>2, <2>3, <2>6, <3>1, <4>2, <5>1 DEF DistinctBases
        <5>2. CASE j - 1 \in 1 .. Len(r.previous) /\ a.previous[j] = r.previous[j - 1]
          <6>1. i - 1 = j - 1
            BY <2>6, <3>1, <4>2, <5>2 DEF DistinctBases
          <6> QED BY <2>1, <2>2, <6>1
        <5> QED BY <2>4, <5>1, <5>2
      <4> QED BY <2>4, <4>1, <4>2
    <3> QED BY <2>1, <3>1 DEF DistinctBases
  <2>7. ASSUME RecordWithinCaps(r) PROVE RecordWithinCaps(a)
    <3>1. \A i \in 1 .. Len(a.previous) : a.previous[i].pending = Nil
      BY <2>3, <2>4, <2>7 DEF RecordWithinCaps
    <3>2. WithinCaps(c)
      BY <2>2, <2>3, <2>7, Zenon DEF RecordWithinCaps, WithinCaps
    <3>3. \A i \in 1 .. Len(a.previous) : WithinCaps(a.previous[i])
      BY <2>2, <2>4, <2>7, <3>2 DEF RecordWithinCaps
    <3> QED BY <2>1, <2>7, <3>1, <3>3 DEF RecordWithinCaps, LiveStates
  <2> QED BY <2>1, <2>5, <2>6, <2>7 DEF a
<1> QED BY <1>1, <1>2

\* What promoting a new session preserves.
LEMMA PromoteProperties ==
  ASSUME NEW r \in Records, NEW st \in SessionStates
  PROVE  LET n == PromoteState(r, st)
         IN  /\ n \in Records /\ n.current = st
             /\ Archived(n) \subseteq Kept(r)
             /\ (DistinctBases(r) /\ \A x \in LiveStates(r) : x.base # st.base)
                   => DistinctBases(n) /\ \A x \in Archived(n) : x.base # st.base
             /\ (RecordWithinCaps(r) /\ WithinCaps(st)) => RecordWithinCaps(n)
<1> DEFINE a == ArchiveCurrentState(r)
           n == PromoteState(r, st)
<1>1. /\ a \in Records /\ a.current = Nil /\ Archived(a) \subseteq Kept(r)
      /\ DistinctBases(r) => DistinctBases(a)
      /\ RecordWithinCaps(r) => RecordWithinCaps(a)
  BY ArchiveProperties
<1>2. n = [a EXCEPT !.current = st]
  BY DEF PromoteState
<1> HIDE DEF a, n
<1>3. n \in Records /\ n.current = st /\ n.previous = a.previous
  BY <1>1, <1>2 DEF Records
<1>4. Archived(n) \subseteq Kept(r)
  BY <1>1, <1>3 DEF Archived
<1>5. ASSUME DistinctBases(r), \A x \in LiveStates(r) : x.base # st.base
      PROVE  DistinctBases(n) /\ \A x \in Archived(n) : x.base # st.base
  <2>1. \A x \in Kept(r) : x.base # st.base
    BY <1>5, ClearProperties, RecordFields DEF Kept
  <2>2. \A i \in 1 .. Len(a.previous) : a.previous[i].base # st.base
    BY <1>1, <2>1 DEF Archived
  <2> QED BY <1>1, <1>3, <1>5, <2>2 DEF DistinctBases, Archived
<1>6. ASSUME RecordWithinCaps(r), WithinCaps(st) PROVE RecordWithinCaps(n)
  BY <1>1, <1>3, <1>6 DEF RecordWithinCaps, LiveStates
<1> QED BY <1>3, <1>4, <1>5, <1>6 DEF n

\* What resuming an archived session preserves.
LEMMA PromoteOldProperties ==
  ASSUME NEW r \in Records, NEW i \in 1 .. Len(r.previous)
  PROVE  LET n == PromoteOldSession(r, i)
         IN  /\ n \in Records /\ n.current = r.previous[i]
             /\ Archived(n) \subseteq Kept(r)
             /\ DistinctBases(r) =>
                   DistinctBases(n) /\ \A x \in Archived(n) : x.base # r.previous[i].base
             /\ RecordWithinCaps(r) => RecordWithinCaps(n)
<1> DEFINE rest == Without(r.previous, i)
           q == [r EXCEPT !.previous = rest]
           st == r.previous[i]
           n == PromoteOldSession(r, i)
<1>1. /\ r.previous \in Seq(SessionStates) /\ Len(r.previous) \in Nat
      /\ st \in SessionStates /\ st \in LiveStates(r)
  BY RecordFields
<1>2. /\ rest \in Seq(SessionStates) /\ Len(rest) = Len(r.previous) - 1
      /\ \A j \in 1 .. Len(r.previous) - 1 :
            rest[j] = IF j < i THEN r.previous[j] ELSE r.previous[j + 1]
  BY <1>1, WithoutProperties, Zenon
<1>3. n = PromoteState(q, st)
  BY DEF PromoteOldSession
<1> HIDE DEF rest, n, st
<1>4. q \in Records /\ q.current = r.current /\ q.previous = rest
  BY <1>2 DEF Records
<1> HIDE DEF q
<1>5. ASSUME NEW j \in 1 .. Len(rest)
      PROVE  \E k \in 1 .. Len(r.previous) :
                /\ k # i /\ rest[j] = r.previous[k]
                /\ k = IF j < i THEN j ELSE j + 1
  BY <1>1, <1>2
<1>6. LiveStates(q) \subseteq LiveStates(r)
  BY <1>4, <1>5 DEF LiveStates
<1>7. /\ n \in Records /\ n.current = st
      /\ Archived(n) \subseteq Kept(q)
      /\ (DistinctBases(q) /\ \A x \in LiveStates(q) : x.base # st.base)
            => DistinctBases(n) /\ \A x \in Archived(n) : x.base # st.base
      /\ (RecordWithinCaps(q) /\ WithinCaps(st)) => RecordWithinCaps(n)
  BY <1>1, <1>3, <1>4, PromoteProperties, Zenon
<1>8. Kept(q) \subseteq Kept(r)
  BY <1>6 DEF Kept
<1>9. ASSUME DistinctBases(r)
      PROVE  DistinctBases(q) /\ \A x \in LiveStates(q) : x.base # st.base
  <2>1. ASSUME NEW j \in 1 .. Len(rest), NEW k \in 1 .. Len(rest), rest[j].base = rest[k].base
        PROVE  j = k
    <3>1. PICK a \in 1 .. Len(r.previous) :
             rest[j] = r.previous[a] /\ a = IF j < i THEN j ELSE j + 1
      BY <1>5
    <3>2. PICK b \in 1 .. Len(r.previous) :
             rest[k] = r.previous[b] /\ b = IF k < i THEN k ELSE k + 1
      BY <1>5
    <3>3. a = b
      BY <1>9, <2>1, <3>1, <3>2 DEF DistinctBases
    <3> QED BY <1>1, <1>2, <3>1, <3>2, <3>3
  <2>2. r.current # Nil => \A j \in 1 .. Len(rest) : rest[j].base # r.current.base
    BY <1>5, <1>9 DEF DistinctBases
  <2>3. \A j \in 1 .. Len(rest) : rest[j].base # st.base
    BY <1>5, <1>9 DEF DistinctBases, st
  <2>4. r.current # Nil => r.current.base # st.base
    BY <1>9 DEF DistinctBases, st
  <2> QED BY <1>4, <2>1, <2>2, <2>3, <2>4 DEF DistinctBases, LiveStates
<1>10. ASSUME RecordWithinCaps(r) PROVE RecordWithinCaps(q) /\ WithinCaps(st)
  <2>1. \A j \in 1 .. Len(rest) : rest[j].pending = Nil
    BY <1>5, <1>10 DEF RecordWithinCaps
  <2>2. Len(rest) <= ArchivedStatesMaxLength
    BY <1>1, <1>2, <1>10, ArchiveAssumption DEF RecordWithinCaps
  <2> QED BY <1>1, <1>4, <1>6, <1>10, <2>1, <2>2 DEF RecordWithinCaps
<1> QED BY <1>7, <1>8, <1>9, <1>10 DEF n, st


\* What replacing the current session by its next state preserves.
LEMMA SetCurrentProperties ==
  ASSUME NEW r \in Records, NEW st \in SessionStates
  PROVE  LET n == SetCurrentState(r, st)
         IN  /\ n \in Records /\ n.current = st /\ Archived(n) = Archived(r)
             /\ (DistinctBases(r) /\ \A x \in Archived(r) : x.base # st.base)
                   => DistinctBases(n)
             /\ (RecordWithinCaps(r) /\ WithinCaps(st)) => RecordWithinCaps(n)
<1> DEFINE n == SetCurrentState(r, st)
<1>1. n \in Records /\ n.current = st /\ n.previous = r.previous
  BY DEF SetCurrentState, Records
<1> HIDE DEF n
<1> QED BY <1>1 DEF DistinctBases, RecordWithinCaps, LiveStates, Archived, n

\* promoteMatchingPreKeySession makes the session of the base key the current
\* one, or leaves the record alone when there is none.
LEMMA MatchProperties ==
  ASSUME NEW r \in Records, NEW base
  PROVE  LET f == promoteMatchingPreKeySession(r, base)
         IN  /\ f.matched =>
                   /\ f.r \in Records
                   /\ f.r.current \in SessionStates /\ f.r.current \in LiveStates(r)
                   /\ f.r.current.base = base
                   /\ Archived(f.r) \subseteq Kept(r)
                   /\ DistinctBases(r) =>
                         DistinctBases(f.r) /\ \A x \in Archived(f.r) : x.base # base
                   /\ RecordWithinCaps(r) => RecordWithinCaps(f.r)
             /\ ~f.matched => \A x \in LiveStates(r) : x.base # base
<1> DEFINE f == promoteMatchingPreKeySession(r, base)
           found == {i \in 1 .. Len(r.previous) : r.previous[i].base = base}
           first == CHOOSE i \in found : \A j \in found : i <= j
<1>1. CASE r.current # Nil /\ r.current.base = base
  <2>1. f = [matched |-> TRUE, r |-> r]
    BY <1>1 DEF promoteMatchingPreKeySession
  <2>2. DistinctBases(r) => \A x \in Archived(r) : x.base # base
    BY <1>1 DEF DistinctBases, Archived
  <2>3. Archived(r) \subseteq Kept(r)
    BY DEF Archived, Kept, LiveStates
  <2>4. r.current \in SessionStates /\ r.current \in LiveStates(r)
    BY <1>1, RecordFields DEF LiveStates
  <2>5. f.matched /\ f.r = r
    BY <2>1
  <2> HIDE DEF f
  <2> QED BY <1>1, <2>2, <2>3, <2>4, <2>5, Zenon DEF f
<1>2. CASE ~(r.current # Nil /\ r.current.base = base) /\ found # {}
  <2>1. f = [matched |-> TRUE, r |-> PromoteOldSession(r, first)]
    BY <1>2 DEF promoteMatchingPreKeySession
  <2>2. first \in found
    <3>1. found \in SUBSET Nat
      OBVIOUS
    <3> HIDE DEF found
    <3> QED BY <1>2, <3>1, SmallestIndex, Zenon
  <2>3. first \in 1 .. Len(r.previous) /\ r.previous[first].base = base
    BY <2>2
  <2> HIDE DEF first, f
  <2> QED BY <2>1, <2>3, PromoteOldProperties, RecordFields DEF f
<1>3. CASE ~(r.current # Nil /\ r.current.base = base) /\ found = {}
  <2>1. ~f.matched
    BY <1>3 DEF promoteMatchingPreKeySession
  <2>2. \A x \in LiveStates(r) : x.base # base
    BY <1>3 DEF LiveStates
  <2> QED BY <2>1, <2>2
<1> QED BY <1>1, <1>2, <1>3, Zenon


-----------------------------------------------------------------------------
(***************************************************************************)
(* New sessions.                                                           *)
(***************************************************************************)
\* The secret of the PQXDH handshake is typed and names the base key and the
\* Kyber key it came from.
LEMMA InitialKeysType ==
  ASSUME NEW dh1 \in SUBSET Keys, NEW dh2 \in SUBSET Keys, NEW dh3 \in SUBSET Keys,
         NEW dh4 \in SUBSET Keys, NEW kyber \in Keys, NEW ct \in Ciphertexts
  PROVE  LET root == DeriveInitialKeys(dh1, dh2, dh3, dh4, Decapsulate(kyber, ct))
         IN  /\ root \in Roots /\ Len(root.dh) = 0
             /\ BaseOf(root.hs) = ct.by /\ KyberOf(root.hs) = kyber
<1> DEFINE ss == Decapsulate(kyber, ct)
           hs == [dh1 |-> dh1, dh2 |-> dh2, dh3 |-> dh3, dh4 |-> dh4, ss |-> ss]
           root == DeriveInitialKeys(dh1, dh2, dh3, dh4, ss)
<1>1. ss \in [key : Keys, ct : Ciphertexts] /\ ss.ct = ct /\ ss.key = kyber
  BY DEF Decapsulate
<1> HIDE DEF ss
<1>2. hs \in Handshakes /\ hs.ss = ss
  BY <1>1 DEF Handshakes
<1>3. root = [hs |-> hs, dh |-> <<>>]
  BY DEF DeriveInitialKeys
<1> HIDE DEF hs, root
<1>4. <<>> \in Seq(SUBSET Keys) /\ Len(<<>>) = 0
  BY SeqEmpty
<1>5. root \in Roots /\ root.hs = hs /\ Len(root.dh) = 0
  BY <1>2, <1>3, <1>4 DEF Roots
<1> QED BY <1>1, <1>2, <1>5 DEF BaseOf, KyberOf, root, ss

\* The initiator's new session.
LEMMA InitiatorState ==
  ASSUME NEW identity \in Keys, NEW base \in Keys, NEW ratchet \in Keys,
         NEW b \in Bundles, NEW id \in PreKeyIDs \cup {Nil}, NEW now \in Nat
  PROVE  LET st == SetUnacknowledgedPreKeyMessage(
                       initializeAliceSession(identity, base, ratchet, b),
                       id, Encapsulate(b.kyber, base), now)
         IN  /\ st \in SessionStates /\ st.base = base /\ st.pending.ct.by = base
             /\ BaseOf(st.root.hs) = base /\ KyberOf(st.root.hs) = b.kyber
             /\ WellFormed(st) /\ WithinCaps(st)
<1> DEFINE ct == Encapsulate(b.kyber, base)
           dh4 == IF b.oneTime = Nil THEN {} ELSE DH(base, b.oneTime)
           initial == DeriveInitialKeys(DH(identity, b.signed), DH(base, b.identity),
                                        DH(base, b.signed), dh4, Decapsulate(b.kyber, ct))
           root == CreateChain(initial, b.signed, ratchet)
           recv == AddReceiverChain(<<>>, b.signed, NewChainKey(initial))
           pending == [id |-> id, ct |-> ct, at |-> now]
           st == SetUnacknowledgedPreKeyMessage(
                     initializeAliceSession(identity, base, ratchet, b), id, ct, now)
<1>0. /\ b.identity \in Keys /\ b.signed \in Keys /\ b.kyber \in Keys
      /\ b.oneTime \in Keys \cup {Nil}
  BY DEF Bundles
<1>1. ct \in Ciphertexts /\ ct.by = base
  BY <1>0 DEF Encapsulate, Ciphertexts
<1>2. st = [base |-> base, local |-> identity, remote |-> b.identity,
            root |-> root, ratchet |-> ratchet, ck |-> NewChainKey(root),
            previousCounter |-> 0, recv |-> recv, pq |-> pqrInitialState("A2B"),
            pending |-> pending]
  BY DEF SetUnacknowledgedPreKeyMessage, initializeAliceSession
<1> HIDE DEF ct, st
<1>3. /\ DH(identity, b.signed) \in SUBSET Keys /\ DH(base, b.identity) \in SUBSET Keys
      /\ DH(base, b.signed) \in SUBSET Keys /\ dh4 \in SUBSET Keys
  BY <1>0 DEF DH
<1> HIDE DEF dh4
<1>4. /\ initial \in Roots /\ Len(initial.dh) = 0
      /\ BaseOf(initial.hs) = base /\ KyberOf(initial.hs) = b.kyber
  <2>1. PICK d1, d2, d3, d4, kyber :
          /\ d1 = DH(identity, b.signed) /\ d2 = DH(base, b.identity)
          /\ d3 = DH(base, b.signed) /\ d4 = dh4 /\ kyber = b.kyber
    OBVIOUS
  <2>2. /\ d1 \in SUBSET Keys /\ d2 \in SUBSET Keys /\ d3 \in SUBSET Keys
        /\ d4 \in SUBSET Keys /\ kyber \in Keys
    BY <1>0, <1>3, <2>1
  <2>3. initial = DeriveInitialKeys(d1, d2, d3, d4, Decapsulate(kyber, ct))
    BY <2>1
  <2> HIDE DEF initial
  <2> QED BY <1>1, <2>1, <2>2, <2>3, InitialKeysType
<1> HIDE DEF initial
<1>5. root \in Roots /\ root.hs = initial.hs /\ Len(root.dh) = Len(initial.dh) + 1
  <2>1. \A x, y \in Keys : /\ CreateChain(initial, x, y) \in Roots
                           /\ CreateChain(initial, x, y).hs = initial.hs
                           /\ Len(CreateChain(initial, x, y).dh) = Len(initial.dh) + 1
    BY <1>4, KeyScheduleType, ZenonT(40)
  <2> QED BY <1>0, <2>1
<1> HIDE DEF root
<1>6. /\ NewChainKey(initial) \in ChainKeys /\ NewChainKey(root) \in ChainKeys
      /\ NewChainKey(initial).root = initial
  BY <1>0, <1>4, <1>5, KeyScheduleType
<1> DEFINE c == [ratchet |-> b.signed, ck |-> NewChainKey(initial), keys |-> <<>>]
<1>7. recv \in Seq(Chains) /\ Len(recv) = 1 /\ recv[1] = c
  <2>1. <<>> \in Seq(Chains) /\ Len(<<>>) = 0
    BY SeqEmpty
  <2>2. /\ recv \in Seq(Chains) /\ Len(recv) >= 1 /\ recv[Len(recv)] = c
        /\ \E drop \in {0, 1} : Len(recv) = Len(<<>>) + 1 - drop
    BY <1>0, <1>6, <2>1, AddReceiverChainProperties, ZenonT(40)
  <2> HIDE DEF recv, c
  <2>3. Len(recv) = 1
    BY <2>1, <2>2
  <2> QED BY <2>2, <2>3
<1>8. c.ck.root = initial /\ c.keys = <<>>
  BY <1>6
<1> HIDE DEF recv, c
<1>9. pqrInitialState("A2B") \in PQStates
  BY DEF pqrInitialState, PQStates, newChainEpochDirection, Directions
<1>10. pending \in Pendings /\ pending.ct.by = base
  BY <1>1 DEF Pendings
<1> HIDE DEF pending
<1>11. st \in SessionStates
  BY <1>0, <1>2, <1>5, <1>6, <1>7, <1>9, <1>10 DEF SessionStates
<1>12. st.base = base /\ st.root = root /\ st.recv = recv /\ st.pending = pending
  BY <1>2
<1> HIDE DEF st
<1>13. Len(st.recv) = 1 /\ st.recv[1] = c /\ \A i \in 1 .. Len(st.recv) : i = 1
  <2>1. Len(st.recv) = 1 /\ st.recv[1] = c
    BY <1>7, <1>12
  <2>2. \A i \in 1 .. 1 : i = 1
    OBVIOUS
  <2> QED BY <2>1, <2>2
<1>14. WellFormed(st)
  <2>1. WellFormedChain(c)
    BY <1>8, SeqEmpty DEF WellFormedChain
  <2>2. c.ck.root.hs = root.hs /\ Len(c.ck.root.dh) <= Len(root.dh)
    BY <1>4, <1>5, <1>8
  <2> QED BY <1>12, <1>13, <2>1, <2>2 DEF WellFormed
<1>15. WithinCaps(st)
  <2>1. Len(st.recv) <= MaxReceiverChains
    BY <1>13, BoundsAssumption
  <2>2. Len(c.keys) <= MaxMessageKeys
    BY <1>8, SeqEmpty, BoundsAssumption
  <2> QED BY <1>13, <2>1, <2>2 DEF WithinCaps
<1> QED BY <1>4, <1>5, <1>10, <1>11, <1>12, <1>14, <1>15, Zenon DEF st, ct

\* The recipient's new session.
LEMMA RecipientState ==
  ASSUME NEW identity \in Keys, NEW signed \in Keys, NEW oneTime \in Keys \cup {Nil},
         NEW kyber \in Keys, NEW pre \in PreParts
  PROVE  LET st == InitializeBobSession(identity, signed, oneTime, kyber, pre)
         IN  /\ st \in SessionStates /\ st.base = pre.base /\ st.pending = Nil
             /\ BaseOf(st.root.hs) = pre.ct.by /\ KyberOf(st.root.hs) = kyber
             /\ WellFormed(st) /\ WithinCaps(st)
<1> DEFINE dh4 == IF oneTime = Nil THEN {} ELSE DH(oneTime, pre.base)
           initial == DeriveInitialKeys(DH(signed, pre.identity), DH(identity, pre.base),
                                        DH(signed, pre.base), dh4,
                                        Decapsulate(kyber, pre.ct))
           st == InitializeBobSession(identity, signed, oneTime, kyber, pre)
<1>1. pre.base \in Keys /\ pre.identity \in Keys /\ pre.ct \in Ciphertexts
  BY DEF PreParts
<1>2. st = [base |-> pre.base, local |-> identity, remote |-> pre.identity,
            root |-> initial, ratchet |-> signed, ck |-> NewChainKey(initial),
            previousCounter |-> 0, recv |-> <<>>, pq |-> pqrInitialState("B2A"),
            pending |-> Nil]
  BY Zenon DEF InitializeBobSession
<1> HIDE DEF st
<1>3. /\ DH(signed, pre.identity) \in SUBSET Keys /\ DH(identity, pre.base) \in SUBSET Keys
      /\ DH(signed, pre.base) \in SUBSET Keys /\ dh4 \in SUBSET Keys
  BY <1>1 DEF DH
<1> HIDE DEF dh4
<1>4. initial \in Roots /\ BaseOf(initial.hs) = pre.ct.by /\ KyberOf(initial.hs) = kyber
  <2>1. PICK d1, d2, d3, d4, ct :
          /\ d1 = DH(signed, pre.identity) /\ d2 = DH(identity, pre.base)
          /\ d3 = DH(signed, pre.base) /\ d4 = dh4 /\ ct = pre.ct
    OBVIOUS
  <2>2. /\ d1 \in SUBSET Keys /\ d2 \in SUBSET Keys /\ d3 \in SUBSET Keys
        /\ d4 \in SUBSET Keys /\ ct \in Ciphertexts
    BY <1>1, <1>3, <2>1
  <2>3. initial = DeriveInitialKeys(d1, d2, d3, d4, Decapsulate(kyber, ct))
    BY <2>1
  <2> HIDE DEF initial
  <2> QED BY <2>1, <2>2, <2>3, InitialKeysType
<1> HIDE DEF initial
<1>5. NewChainKey(initial) \in ChainKeys
  BY <1>1, <1>4, KeyScheduleType
<1>6. pqrInitialState("B2A") \in PQStates
  BY DEF pqrInitialState, PQStates, newChainEpochDirection, Directions
<1>7. <<>> \in Seq(Chains) /\ Len(<<>>) = 0
  BY SeqEmpty
<1>8. st \in SessionStates
  BY <1>1, <1>2, <1>4, <1>5, <1>6, <1>7 DEF SessionStates
<1>9. st.base = pre.base /\ st.root = initial /\ st.recv = <<>> /\ st.pending = Nil
  BY <1>2
<1>10. WellFormed(st) /\ WithinCaps(st)
  BY <1>7, <1>9, BoundsAssumption DEF WellFormed, WithinCaps
<1> QED BY <1>4, <1>8, <1>9, <1>10, Zenon DEF st

-----------------------------------------------------------------------------
(***************************************************************************)
(* Types.                                                                  *)
(***************************************************************************)
\* The keys of the parties are keys.
LEMMA KeyTypes ==
  ASSUME TypeOK, NEW p \in Parties
  PROVE  /\ Peer(p) \in Parties /\ Peer(Peer(p)) = p /\ Peer(p) # p
         /\ IdentityKey(p) \in Keys /\ SignedPreKey(p) \in Keys /\ KyberPreKey(p) \in Keys
         /\ \A n \in Nat : KeyPair(p, n) \in Keys
         /\ NewRatchet(p) \in Keys
         /\ \A id \in PreKeyIDs \cup {Nil} : PreKey(p, id) \in Keys \cup {Nil}
         /\ \A id \in PreKeyIDs \cup {Nil} : Bundle(p, id) \in Bundles
<1>1. installation[p] \in Nat /\ fresh[p] \in Nat
  BY DEF TypeOK
<1>2. Peer(p) \in Parties /\ Peer(Peer(p)) = p /\ Peer(p) # p
  BY SessionAssumption DEF Peer, Parties
<1>3. IdentityKey(p) \in Keys /\ SignedPreKey(p) \in Keys /\ KyberPreKey(p) \in Keys
  BY <1>1 DEF IdentityKey, SignedPreKey, KyberPreKey, Keys
<1>4. \A n \in Nat : KeyPair(p, n) \in Keys
  BY DEF KeyPair, Keys
<1>5. NewRatchet(p) \in Keys
  BY <1>1, <1>4 DEF NewRatchet
<1>6. ASSUME NEW id \in PreKeyIDs \cup {Nil} PROVE PreKey(p, id) \in Keys \cup {Nil}
  BY <1>1, SessionAssumption DEF PreKey, Keys
<1>7. ASSUME NEW id \in PreKeyIDs \cup {Nil} PROVE Bundle(p, id) \in Bundles
  BY <1>3, <1>6 DEF Bundle, Bundles
<1> QED BY <1>2, <1>3, <1>4, <1>5, <1>6, <1>7

\* Spending from the budget keeps it a budget.
LEMMA SpendType ==
  ASSUME TypeOK, NEW p \in Parties, NEW moves, moves \subseteq Moves, Spend(p, moves)
  PROVE  budget' \in [Parties -> [Moves -> Nat]]
<1> DEFINE left == [m \in Moves |-> IF m \in moves THEN budget[p][m] - 1 ELSE budget[p][m]]
<1>1. budget \in [Parties -> [Moves -> Nat]]
  BY DEF TypeOK
<1>2. budget' = [budget EXCEPT ![p] = left] /\ \A m \in moves : budget[p][m] > 0
  BY DEF Spend
<1>3. left \in [Moves -> Nat]
  BY <1>1, <1>2
<1> QED BY <1>1, <1>2, <1>3

\* An aliasing store leaves either the stored record or the changed one.
LEMMA MutatedIsEither ==
  ASSUME NEW p, NEW r
  PROVE  Mutated(p, r) \in {r, record[p]}
  BY DEF Mutated

\* The fields of a message.
LEMMA MessageFields ==
  ASSUME TypeOK, NEW m \in net
  PROVE  /\ m \in Messages /\ m.to \in Parties /\ m.num \in 1 .. MaxSent
         /\ m.mac.gen \in ChainKeys
         /\ m.pre # Nil => /\ m.pre \in PreParts /\ m.pre.base \in Keys
                           /\ m.pre.identity \in Keys /\ m.pre.id \in PreKeyIDs \cup {Nil}
                           /\ m.pre.ct \in Ciphertexts
<1>1. m \in Messages
  BY DEF TypeOK
<1>2. /\ m.to \in Parties /\ m.num \in 1 .. MaxSent /\ m.mac \in Macs
      /\ m.pre \in PreParts \cup {Nil}
  BY <1>1 DEF Messages
<1>3. m.mac.gen \in ChainKeys
  BY <1>2 DEF Macs
<1>4. m.pre # Nil => m.pre \in PreParts
  BY <1>2
<1>5. m.pre \in PreParts => /\ m.pre.base \in Keys /\ m.pre.identity \in Keys
                            /\ m.pre.id \in PreKeyIDs \cup {Nil} /\ m.pre.ct \in Ciphertexts
  BY DEF PreParts
<1> QED BY <1>1, <1>2, <1>3, <1>4, <1>5

\* Decrypt finds a current session when it succeeds.
LEMMA DecryptResultType ==
  ASSUME TypeOK, NEW p \in Parties, NEW m \in net
  PROVE  LET d == DecryptResult(p, m)
         IN  /\ d.err \in Errors
             /\ d.err = "ok" =>
                   /\ record[p].current # Nil /\ record[p].current \in SessionStates
                   /\ d = decryptWithState(record[p].current, m, NewRatchet(p))
                   /\ d.st \in SessionStates
<1>1. record[p] \in Records
  BY DEF TypeOK
<1>2. CASE record[p].current = Nil
  BY <1>2, Zenon DEF DecryptResult, Errors
<1>3. CASE record[p].current # Nil
  <2>1. DecryptResult(p, m) = decryptWithState(record[p].current, m, NewRatchet(p))
    BY <1>3 DEF DecryptResult
  <2>2. record[p].current \in SessionStates
    BY <1>1, <1>3, RecordFields
  <2> QED BY <1>3, <2>1, <2>2, DecryptType, KeyTypes, MessageFields
<1> QED BY <1>2, <1>3

\* How a pre-key message that decrypts got there: from the session of its base
\* key, held by the record, or from a new one; and the record it leaves.
ResumedOrNew(p, m, w, st) ==
    LET d == decryptWithState(st, m, NewRatchet(p))
    IN  /\ st.base = m.pre.base /\ d.err = "ok"
        /\ w.r \in Records /\ w.r.current = d.st /\ d.st \in SessionStates
        /\ Archived(w.r) \subseteq Kept(record[p])
        /\ DistinctBases(record[p]) =>
              DistinctBases(w.r) /\ \A x \in Archived(w.r) : x.base # m.pre.base
        /\ RecordWithinCaps(record[p]) => RecordWithinCaps(w.r)
        /\ w.matched => st \in Live(p)
        /\ ~w.matched => /\ st = recipientPreKeyState(p, m.pre)
                         /\ \A x \in Live(p) : x.base # m.pre.base

\* The session a pre-key message creates.
LEMMA AcceptedState ==
  ASSUME TypeOK, NEW p \in Parties, NEW m \in net, m.pre # Nil
  PROVE  LET st == recipientPreKeyState(p, m.pre)
         IN  /\ st \in SessionStates /\ st.base = m.pre.base /\ st.pending = Nil
             /\ BaseOf(st.root.hs) = m.pre.ct.by /\ KyberOf(st.root.hs) = KyberPreKey(p)
             /\ WellFormed(st) /\ WithinCaps(st)
<1> DEFINE pre == m.pre
<1>1. pre \in PreParts /\ pre.id \in PreKeyIDs \cup {Nil}
  BY MessageFields
<1>2. /\ IdentityKey(p) \in Keys /\ SignedPreKey(p) \in Keys /\ KyberPreKey(p) \in Keys
      /\ PreKey(p, pre.id) \in Keys \cup {Nil}
  BY <1>1, KeyTypes
<1> HIDE DEF pre
<1>3. LET st == recipientPreKeyState(p, pre)
      IN  /\ st \in SessionStates /\ st.base = pre.base /\ st.pending = Nil
          /\ BaseOf(st.root.hs) = pre.ct.by /\ KyberOf(st.root.hs) = KyberPreKey(p)
          /\ WellFormed(st) /\ WithinCaps(st)
  BY <1>1, <1>2, RecipientState, ZenonT(40) DEF recipientPreKeyState
<1> QED BY <1>3 DEF pre

\* The working record of DecryptPreKey has a current session of the message's
\* base key.
LEMMA WorkingProperties ==
  ASSUME TypeOK, NEW p \in Parties, NEW m \in net, m.pre # Nil
  PROVE  LET w == Working(p, m)
         IN  /\ w.err \in Errors
             /\ w.err = "ok" =>
                   /\ w.r \in Records /\ w.r.current \in SessionStates
                   /\ w.r.current.base = m.pre.base
                   /\ Archived(w.r) \subseteq Kept(record[p])
                   /\ DistinctBases(record[p]) =>
                         DistinctBases(w.r) /\ \A x \in Archived(w.r) : x.base # m.pre.base
                   /\ RecordWithinCaps(record[p]) =>
                         RecordWithinCaps(w.r) /\ WithinCaps(w.r.current)
                   /\ w.matched => w.r.current \in Live(p)
                   /\ ~w.matched => /\ w.r.current = recipientPreKeyState(p, m.pre)
                                    /\ \A x \in Live(p) : x.base # m.pre.base
<1> DEFINE w == Working(p, m)
           r == record[p]
           found == promoteMatchingPreKeySession(r, m.pre.base)
           st == recipientPreKeyState(p, m.pre)
           n == PromoteState(r, st)
<1>1. r \in Records /\ m.pre \in PreParts /\ m.pre.id \in PreKeyIDs \cup {Nil}
  BY MessageFields, Zenon DEF TypeOK
<1>2. st \in SessionStates /\ st.base = m.pre.base /\ WithinCaps(st)
  BY AcceptedState, Zenon
<1>3. /\ found.matched =>
            /\ found.r \in Records
            /\ found.r.current \in SessionStates /\ found.r.current \in LiveStates(r)
            /\ found.r.current.base = m.pre.base
            /\ Archived(found.r) \subseteq Kept(r)
            /\ DistinctBases(r) =>
                  DistinctBases(found.r) /\ \A x \in Archived(found.r) : x.base # m.pre.base
            /\ RecordWithinCaps(r) => RecordWithinCaps(found.r)
      /\ ~found.matched => \A x \in LiveStates(r) : x.base # m.pre.base
  BY <1>1, MatchProperties, Zenon
<1>4. /\ n \in Records /\ n.current = st
      /\ Archived(n) \subseteq Kept(r)
      /\ (DistinctBases(r) /\ \A x \in LiveStates(r) : x.base # st.base)
            => DistinctBases(n) /\ \A x \in Archived(n) : x.base # st.base
      /\ (RecordWithinCaps(r) /\ WithinCaps(st)) => RecordWithinCaps(n)
  <2> HIDE DEF st
  <2> QED BY <1>1, <1>2, PromoteProperties
<1>5. \/ w.err \in {"ErrUntrustedIdentity", "ErrInvalidMessage", "ErrInvalidPreKeyID"}
      \/ w.err = "ok" /\ w.matched /\ found.matched /\ w.r = found.r
      \/ w.err = "ok" /\ ~w.matched /\ ~found.matched /\ w.r = n
  <2>1. \/ w.err \in {"ErrUntrustedIdentity", "ErrInvalidMessage", "ErrInvalidPreKeyID"}
        \/ w = [err |-> "ok", matched |-> found.matched,
                r |-> IF found.matched THEN found.r ELSE n]
    <3> HIDE DEF found, n
    <3> QED BY DEF Working, found, n, st, r
  <2> HIDE DEF w, found, n
  <2> QED BY <2>1
<1> HIDE DEF found, st, n, w
<1>6. ASSUME w.err = "ok", w.matched, found.matched, w.r = found.r
      PROVE  WithinCaps(w.r.current) \/ ~RecordWithinCaps(r)
  BY <1>3, <1>6 DEF RecordWithinCaps
<1>7. w.err \in Errors
  BY <1>5 DEF Errors
<1> QED BY <1>2, <1>3, <1>4, <1>5, <1>6, <1>7 DEF w, st, Live, Errors


\* What DecryptPreKey has computed when the message authenticates.
LEMMA PreKeyResultProperties ==
  ASSUME TypeOK, NEW p \in Parties, NEW m \in net, m.pre # Nil
  PROVE  LET w == PreKeyResult(p, m)
         IN  /\ w.err \in Errors
             /\ w.err = "ok" => \E st \in SessionStates : ResumedOrNew(p, m, w, st)
<1> DEFINE v == Working(p, m)
           st == v.r.current
           d == decryptWithState(st, m, NewRatchet(p))
           w == PreKeyResult(p, m)
<1>1. v.err \in Errors
  BY WorkingProperties
<1>2. CASE v.err # "ok"
  <2>1. w = v
    BY <1>2, Zenon DEF PreKeyResult
  <2> QED BY <1>1, <1>2, <2>1
<1>3. CASE v.err = "ok"
  <2>1. /\ v.r \in Records /\ st \in SessionStates
        /\ st.base = m.pre.base
        /\ Archived(v.r) \subseteq Kept(record[p])
        /\ DistinctBases(record[p]) =>
              DistinctBases(v.r) /\ \A x \in Archived(v.r) : x.base # m.pre.base
        /\ RecordWithinCaps(record[p]) => RecordWithinCaps(v.r) /\ WithinCaps(st)
        /\ v.matched => st \in Live(p)
        /\ ~v.matched => /\ st = recipientPreKeyState(p, m.pre)
                         /\ \A x \in Live(p) : x.base # m.pre.base
    BY <1>3, WorkingProperties
  <2>2. w = [err |-> d.err, matched |-> v.matched, r |-> SetCurrentState(v.r, d.st)]
    BY <1>3 DEF PreKeyResult
  <2> HIDE DEF v
  <2>3. /\ d.err \in Errors /\ d.st \in SessionStates /\ d.st.base = st.base
        /\ WithinCaps(st) => WithinCaps(d.st)
    <3> HIDE DEF st
    <3> QED BY <2>1, DecryptType, KeyTypes, MessageFields, ZenonT(40)
  <2> HIDE DEF d
  <2> DEFINE n == SetCurrentState(v.r, d.st)
  <2>4. /\ n \in Records /\ n.current = d.st /\ Archived(n) = Archived(v.r)
        /\ (DistinctBases(v.r) /\ \A x \in Archived(v.r) : x.base # d.st.base)
              => DistinctBases(n)
        /\ (RecordWithinCaps(v.r) /\ WithinCaps(d.st)) => RecordWithinCaps(n)
    BY <2>1, <2>3, SetCurrentProperties
  <2> HIDE DEF n, w, st
  <2>5. w.err = d.err /\ w.matched = v.matched /\ w.r = n
    BY <2>2, ZenonT(40) DEF n
  <2>6. w.err = "ok" => ResumedOrNew(p, m, w, st)
    BY <2>1, <2>3, <2>4, <2>5 DEF ResumedOrNew, d
  <2> QED BY <2>1, <2>3, <2>5, <2>6, ZenonT(40) DEF w
<1> QED BY <1>2, <1>3, Zenon

=============================================================================
