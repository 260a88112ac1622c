------------------------ MODULE SenderKeysProperties ------------------------
(***************************************************************************)
(* What the members of a group may rely on.                                *)
(***************************************************************************)
EXTENDS SenderKeys

Iterations == 0 .. MaxIteration

SenderKeyStates ==
    [chainID : ChainIDs, signingKey : 1 .. MaxChains, iteration : Iterations,
     keys : SUBSET Iterations, from : Iterations, place : Nat]
Announcements ==
    [chainID : ChainIDs, iteration : Iterations, signingKey : 1 .. MaxChains]
SenderKeyMessages ==
    [num : 1 .. MaxSent, chainID : ChainIDs, signingKey : 1 .. MaxChains,
     iteration : Iterations]

\* Every variable has the type the Go declarations give it; iterations never
\* leave 32 bits (SenderChainKey.next).
TypeOK ==
    /\ own \in SUBSET SenderKeyStates
    /\ record \in [Members -> SUBSET SenderKeyStates]
    /\ chains \in 0 .. MaxChains
    /\ skdms \in SUBSET Announcements
    /\ net \in SUBSET SenderKeyMessages
    /\ sent \in 0 .. MaxSent
    /\ delivered \in [Members -> [1 .. MaxSent -> 0 .. 2]]
    /\ dropped \in [Members -> SUBSET (1 .. MaxChains)]

\* A state can produce the message key of an iteration.
Holds(st, iteration) == iteration >= st.iteration \/ iteration \in st.keys

Distinct(rec) ==
    \A s, t \in rec : s # t => s.chainID # t.chainID /\ s.place # t.place

\* A record holds at most MaxSenderKeyStates states, one per chain id, so that
\* SenderKeyStateForChainID has one candidate, at the places 1, 2, ... in the
\* list; a state holds at most maxMessageKeys cached keys.
RecordsWellFormed ==
    \A r \in Members :
        /\ Distinct(record[r])
        /\ \A s \in record[r] : /\ s.place \in 1 .. MaxSenderKeyStates
                                /\ Cardinality(s.keys) <= maxMessageKeys

\* A member is never returned a message twice, unless it dropped the chain in
\* between, for a newer one of the same chain id or because of the cap, and
\* then processed an old distribution message of it again.
GroupAtMostOnce ==
    \A r \in Members : \A m \in net :
        delivered[r][m.num] > 1 => m.signingKey \in dropped[r]

\* The key of a message that a member was returned is gone from its record,
\* with the same exception.
GroupForwardSecrecy ==
    \A r \in Members : \A m \in net :
        (delivered[r][m.num] > 0 /\ m.signingKey \notin dropped[r]) =>
            \A s \in record[r] : s.signingKey = m.signingKey => ~Holds(s, m.iteration)

\* Two messages never share a message key, also across a store that starts
\* over and chain ids that repeat.
NoMessageKeyReuse ==
    \A m, n \in net :
        m.signingKey = n.signingKey /\ m.iteration = n.iteration => m = n

\* No member's chain is ahead of the sender's.
MembersFollow ==
    \A r \in Members : \A s \in own, t \in record[r] :
        s.signingKey = t.signingKey => t.iteration <= s.iteration

\* Below the caps, a message that was not returned yet, on a chain the member
\* holds, from the announced iteration on, is accepted in whatever order the
\* others arrive; and a message refused as a duplicate was returned before or
\* precedes the announced iteration.
GroupAnswers ==
    \A r \in Members : \A m \in net : \A s \in record[r] :
        s.signingKey = m.signingKey =>
            LET err == DecryptResult(record[r], m).err
            IN  /\ (m.iteration >= s.from /\ delivered[r][m.num] = 0) => err = "ok"
                /\ err = "ErrDuplicateMessage" =>
                      delivered[r][m.num] > 0 \/ m.iteration < s.from

\* While a member keeps a chain it regains no key of it: neither a repeated
\* distribution message nor a decryption moves the chain back.
RegainsNoKey ==
    \A r \in Members : \A s \in record[r], t \in record'[r] :
        s.signingKey = t.signingKey => \A i \in Iterations : Holds(t, i) => Holds(s, i)
KeysOnlyShrink == [][RegainsNoKey]_vars

-----------------------------------------------------------------------------
(***************************************************************************)
(* The inductive invariant behind the safety properties.                   *)
(***************************************************************************)
\* The signing keys in use anywhere, each with its chain id.
Tag(x) == <<x.signingKey, x.chainID>>
Tags   == {Tag(x) : x \in own \cup skdms \cup net}
            \cup UNION {{Tag(s) : s \in record[r]} : r \in Members}

\* A signing key has one chain id and was drawn by a provisioning; the sender
\* holds the latest one.
TagsSound ==
    /\ \A a, b \in Tags : a[1] = b[1] => a = b
    /\ \A a \in Tags : a[1] <= chains
    /\ \A s, t \in own : s = t
    /\ \A s \in own : s.signingKey = chains

\* Everything that was sent or announced on the sender's chain lies behind it,
\* and messages are told apart by number and by key.
MessagesSound ==
    /\ \A m \in net : m.num <= sent
    /\ \A m, n \in net : m.num = n.num => m = n
    /\ NoMessageKeyReuse
    /\ \A s \in own, m \in net : m.signingKey = s.signingKey => m.iteration < s.iteration
    /\ \A s \in own, d \in skdms : d.signingKey = s.signingKey => d.iteration <= s.iteration
    /\ MembersFollow

\* A member that was returned a message and did not drop its chain holds the
\* chain's state without the key.
DeliveriesSound ==
    /\ \A r \in Members : \A s \in record[r] : \A i \in s.keys : i < s.iteration
    /\ \A r \in Members : \A k \in 1 .. MaxSent : delivered[r][k] > 0 => k <= sent
    /\ \A r \in Members : \A m \in net :
          (delivered[r][m.num] > 0 /\ m.signingKey \notin dropped[r]) =>
              \E s \in record[r] : s.signingKey = m.signingKey /\ ~Holds(s, m.iteration)
    /\ GroupAtMostOnce

\* What Decrypt and ProcessSenderKeyDistributionMessage leave behind: a message
\* is returned at most once and its key is gone unless its chain was dropped, no
\* message key is used twice, no member is ahead of the sender, and records are
\* within their caps with one state per chain id.
GroupInv == TagsSound /\ RecordsWellFormed /\ MessagesSound /\ DeliveriesSound

-----------------------------------------------------------------------------
\* A member processes a distribution message of a chain it does not hold, and is
\* returned a message.
Join(r, g) ==
    /\ \A s \in record[r] : s.signingKey # g
    /\ \E d \in skdms : d.signingKey = g /\ ProcessSKDM(r, d)

Receive(r, k) ==
    /\ \E m \in net : m.num = k /\ Decrypt(r, m)
    /\ delivered'[r][k] # delivered[r][k]

\* The pairwise sessions bring every chain to every member at some time, and so
\* the service every message that the member would accept.
FairSpec ==
    /\ Spec
    /\ \A r \in Members : \A g \in 1 .. MaxChains : WF_vars(Join(r, g))
    /\ \A r \in Members : \A k \in 1 .. MaxSent : WF_vars(Receive(r, k))

\* Every message reaches every member in the end, unless the distribution
\* message that the member was given came too late for it or the member dropped
\* its chain.
GroupDelivers ==
    \A r \in Members : \A k \in 1 .. MaxSent :
        sent >= k ~>
            \/ delivered[r][k] > 0
            \/ \E m \in net : m.num = k /\ m.signingKey \in dropped[r]
            \/ \E m \in net : \E s \in record[r] :
                  m.num = k /\ s.signingKey = m.signingKey /\ m.iteration < s.from

=============================================================================
