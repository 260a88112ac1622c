----------------------------- MODULE SenderKeys -----------------------------
(***************************************************************************)
(* Group messaging with sender keys, groups/: one sender and the members   *)
(* that hold its chains for one distribution id.  Records are kept per     *)
(* sender and distribution, so that other senders and distributions do not *)
(* interact with this one.                                                 *)
(*                                                                         *)
(* A chain is named by its signing key, the number of the provisioning     *)
(* that drew chain id, chain key and signing key; of these only the chain  *)
(* id may repeat.  The chain key of iteration n is the pair of the signing *)
(* key and n, and so is the message key.  A signature verifies under the   *)
(* key that made it.                                                       *)
(*                                                                         *)
(* Messages and distribution messages stay in the network for ever and may *)
(* be received at any time, any number of times or never.  (A distribution *)
(* message travels inside pairwise messages; it is created again, with the *)
(* same content, whenever the host asks.)  A handler reads a copy of the   *)
(* record and writes it once, at its end: a failed write changes nothing.  *)
(***************************************************************************)
EXTENDS Integers, FiniteSets

CONSTANTS
    Members,               \* the receivers
    ChainIDs,              \* the 31-bit numbers randomChainID draws from
    MaxSenderKeyStates,    \* 5 in the code
    MaxForwardJumps,       \* 25000
    maxMessageKeys,        \* 2000
    MaxIteration,          \* 2^32 - 1
    MaxChains,             \* bound: chains the sender provisions
    MaxSent                \* bound: messages it sends

ASSUME SenderKeysAssumption ==
    /\ MaxSenderKeyStates \in Nat \ {0}
    /\ MaxForwardJumps \in Nat
    /\ maxMessageKeys \in Nat
    /\ MaxIteration \in Nat
    /\ MaxChains \in Nat
    /\ MaxSent \in Nat

VARIABLES
    own,         \* the sender's SenderKeyRecord
    record,      \* each member's SenderKeyRecord for the sender
    chains,      \* chains provisioned so far
    skdms,       \* distribution messages created so far
    net,         \* messages sent so far
    sent,        \* and their number
    delivered,   \* how often a member's Decrypt returned each message, 0, 1 or more (2)
    dropped      \* chains whose state a member once dropped (history)

vars == <<own, record, chains, skdms, net, sent, delivered, dropped>>

-----------------------------------------------------------------------------
(***************************************************************************)
(* A record is the set of its states, each with its place in the list, 1   *)
(* being the head; no record at all is the empty set.  The list of cached  *)
(* message keys of a state ascends, since the chain only moves forward: it *)
(* is the set of their iterations and its front is the least.  "from" is   *)
(* the iteration the state was added at, which the code does not keep.     *)
(***************************************************************************)
newSenderKeyState(chainID, iteration, signingKey) ==
    [chainID |-> chainID, signingKey |-> signingKey, iteration |-> iteration,
     keys |-> {}, from |-> iteration, place |-> 1]

\* The states nearer to the head than s.
Before(rec, s) == {t \in rec : t.place < s.place}

First(states) == CHOOSE s \in states : \A t \in states : s.place <= t.place

SenderKeyState(rec) == First(rec)

SenderKeyStateForChainID(rec, chainID) == First({s \in rec : s.chainID = chainID})

\* removeState and removeStatesWithChainID.
removeStatesWithChainID(rec, state) == {s \in rec : s.chainID # state.chainID}

\* Mutant: a known chain starts again where the distribution message says.
removeStateNot(rec, new) == {}

\* The states of the same chain id and signing key.
removeState(rec, new) ==
    {s \in rec : s.chainID = new.chainID /\ s.signingKey = new.signingKey}

\* AddSenderKeyState: the known state of the chain, or else the new one, goes
\* to the head; other states of the chain id leave, and the oldest beyond the
\* cap.
AddSenderKeyState(rec, new) ==
    LET existing == removeState(rec, new)
        state    == IF existing = {} THEN new ELSE First(existing)
        others   == removeStatesWithChainID(rec, state)
        kept     == {s \in others : Cardinality(Before(others, s)) < MaxSenderKeyStates - 1}
    IN  {[state EXCEPT !.place = 1]}
            \cup {[s EXCEPT !.place = Cardinality(Before(others, s)) + 2] : s \in kept}

\* addSenderMessageKey, for all skipped keys: the oldest beyond the cap leave.
addSenderMessageKeys(keys) ==
    {i \in keys : Cardinality({j \in keys : j > i}) < maxMessageKeys}

\* Mutant: the cached key stays.
removeSenderMessageKeyNot(keys, iteration) == keys

removeSenderMessageKey(keys, iteration) == keys \ {iteration}

\* Mutant: the counter wraps.
CanAdvanceAlways(iteration) == TRUE

\* SenderChainKey.next fails on the last iteration instead of wrapping.
CanAdvance(iteration) == iteration # MaxIteration

next(iteration) == iteration + 1

-----------------------------------------------------------------------------
\* Mutant: the last skipped key is not cached.
SkippedShort(st, iteration) == st.iteration .. iteration - 2

Skipped(st, iteration) == st.iteration .. iteration - 1

\* senderKeyForIteration: the error, and the state afterwards.
senderKeyForIteration(st, iteration) ==
    CASE st.iteration > iteration /\ iteration \notin st.keys ->
             [err |-> "ErrDuplicateMessage", st |-> st]
      [] st.iteration > iteration /\ iteration \in st.keys ->
             [err |-> "ok",
              st  |-> [st EXCEPT !.keys = removeSenderMessageKey(st.keys, iteration)]]
      [] st.iteration <= iteration /\ iteration - st.iteration > MaxForwardJumps ->
             [err |-> "ErrInvalidMessage", st |-> st]
      [] /\ st.iteration <= iteration /\ iteration - st.iteration <= MaxForwardJumps
         /\ ~CanAdvance(iteration) ->
             [err |-> "errChainTooLong", st |-> st]
      [] OTHER ->
             [err |-> "ok",
              st  |-> [st EXCEPT
                         !.iteration = iteration + 1,
                         !.keys = addSenderMessageKeys(st.keys \cup Skipped(st, iteration))]]

\* Decrypt, up to the write: the error, and the record afterwards.
DecryptResult(rec, m) ==
    LET matching == {s \in rec : s.chainID = m.chainID}
        st       == SenderKeyStateForChainID(rec, m.chainID)
        key      == senderKeyForIteration(st, m.iteration)
    IN  CASE matching = {} ->
                 [err |-> "ErrNoSenderKeyState", rec |-> rec]
          [] matching # {} /\ st.signingKey # m.signingKey ->
                 [err |-> "ErrSignatureInvalid", rec |-> rec]
          [] OTHER ->
                 [err |-> key.err, rec |-> (rec \ {st}) \cup {key.st}]

-----------------------------------------------------------------------------
Init ==
    /\ own       = {}
    /\ record    = [r \in Members |-> {}]
    /\ chains    = 0
    /\ skdms     = {}
    /\ net       = {}
    /\ sent      = 0
    /\ delivered = [r \in Members |-> [k \in 1 .. MaxSent |-> 0]]
    /\ dropped   = [r \in Members |-> {}]

Announcement(st) ==
    [chainID |-> st.chainID, iteration |-> st.iteration, signingKey |-> st.signingKey]

\* CreateSenderKeyDistributionMessage, for a record that exists and for one
\* that is provisioned first.
CreateSKDM ==
    /\ own # {}
    /\ skdms' = skdms \cup {Announcement(SenderKeyState(own))}
    /\ UNCHANGED <<own, record, chains, net, sent, delivered, dropped>>

ProvisionSKDM ==
    /\ own = {}
    /\ chains < MaxChains
    /\ \E id \in ChainIDs :
          own' = AddSenderKeyState({}, newSenderKeyState(id, 0, chains + 1))
    /\ chains' = chains + 1
    /\ skdms' = skdms \cup {Announcement(SenderKeyState(own'))}
    /\ UNCHANGED <<record, net, sent, delivered, dropped>>

\* The sender starts over with an empty store, and so with a new chain.
Renew ==
    /\ own # {}
    /\ own' = {}
    /\ UNCHANGED <<record, chains, skdms, net, sent, delivered, dropped>>

\* ProcessSenderKeyDistributionMessage.
ProcessSKDM(r, d) ==
    LET rec == AddSenderKeyState(record[r],
                                 newSenderKeyState(d.chainID, d.iteration, d.signingKey))
    IN  /\ record' = [record EXCEPT ![r] = rec]
        /\ dropped' = [dropped EXCEPT ![r] =
              @ \cup ({s.signingKey : s \in record[r]} \ {s.signingKey : s \in rec})]
        /\ UNCHANGED <<own, chains, skdms, net, sent, delivered>>

\* Encrypt fails without a record and on a chain that cannot advance.
Encrypt ==
    LET st == SenderKeyState(own)
    IN  /\ own # {}
        /\ CanAdvance(st.iteration)
        /\ sent < MaxSent
        /\ own' = (own \ {st}) \cup {[st EXCEPT !.iteration = next(@)]}
        /\ net' = net \cup {[num |-> sent + 1, chainID |-> st.chainID,
                             signingKey |-> st.signingKey, iteration |-> st.iteration]}
        /\ sent' = sent + 1
        /\ UNCHANGED <<record, chains, skdms, delivered, dropped>>

EncryptRejected ==
    /\ \A st \in own : ~CanAdvance(st.iteration)
    /\ UNCHANGED vars

CountOne(n) == IF n = 0 THEN 1 ELSE 2

Decrypt(r, m) ==
    LET d == DecryptResult(record[r], m)
    IN  \/ /\ d.err = "ok"
           /\ record' = [record EXCEPT ![r] = d.rec]
           /\ delivered' = [delivered EXCEPT ![r] = [@ EXCEPT ![m.num] = CountOne(delivered[r][m.num])]]
           /\ UNCHANGED <<own, chains, skdms, net, sent, dropped>>
        \/ /\ d.err # "ok"
           /\ UNCHANGED vars

Next ==
    \/ CreateSKDM
    \/ ProvisionSKDM
    \/ Renew
    \/ Encrypt
    \/ EncryptRejected
    \/ \E r \in Members :
          \/ \E d \in skdms : ProcessSKDM(r, d)
          \/ \E m \in net : Decrypt(r, m)

Spec == Init /\ [][Next]_vars

=============================================================================
