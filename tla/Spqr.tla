-------------------------------- MODULE Spqr --------------------------------
(***************************************************************************)
(* The SPQR ratchet of a session, spqr/spqr.go: the v1 state machine, the  *)
(* key chain and the version negotiation, composed as Send and Recv        *)
(* compose them, between two parties of possibly different versions.       *)
(*                                                                         *)
(* A serialized state is what EncodeState writes: the inner state (none at *)
(* version 0), the negotiation block while it is open, and the chain once  *)
(* there is one.  A party of a later version than 1 is not in this code; it*)
(* is modelled as the code expects it: it negotiates by the same rule and, *)
(* until it has come down, draws its keys from epoch 0 of the same chain.  *)
(***************************************************************************)
EXTENDS SpqrV1, SpqrChain

CONSTANTS
    Alice, Bob,         \* the initiator (A2B) and the responder (B2A)
    AuthKey,            \* the key both derived in PQXDH
    Future,             \* the inner state of a version above 1
    Offers,             \* what the parties may be set to: [version, min] each
    Params,             \* ChainParams: [maxJump, maxOOO]
    MaxMessages(_),     \* bound: messages each party sends, given the offers
    MaxLead,            \* bound: how many more than its peer a party has sent
    MaxLate             \* bound: how many messages are overtaken, or lost

Parties == {Alice, Bob}
Peer(p) == IF p = Alice THEN Bob ELSE Alice
Direction(p) == IF p = Alice THEN "A2B" ELSE "B2A"

ASSUME SpqrAssumption ==
    /\ Alice # Bob
    /\ Offers \subseteq [Parties -> [version : 0 .. 2, min : 0 .. 2]]
    /\ {MaxLead, MaxLate} \cup {MaxMessages(o) : o \in Offers} \subseteq Nat

VARIABLES
    offer,      \* the version and minimum each party was set to
    st,         \* the serialized state of each party
    net,        \* the messages that may still arrive
    sent,       \* how many messages each party has sent
    fresh,      \* how many random values were drawn
    overtaken,  \* how many messages were overtaken
    taken       \* the message keys each party has obtained from Recv

vars == <<offer, st, net, sent, fresh, overtaken, taken>>

-----------------------------------------------------------------------------
EmptyState == [inner |-> Nil, vn |-> Nil, chain |-> Nil]

initInner(v, dir, authKey) ==
    CASE v = 0 -> Nil
      [] v = 1 -> IF dir = "A2B" THEN newSendEkState(authKey) ELSE newSendCtState(authKey)
      [] v = 2 -> Future

InitialState(p, o) ==
    IF o.version = 0 THEN EmptyState
    ELSE [inner |-> initInner(o.version, Direction(p), AuthKey),
          vn    |-> [authKey |-> AuthKey, direction |-> Direction(p), min |-> o.min],
          chain |-> Nil]

stateVersion(s) == CASE s.inner = Nil    -> 0
                     [] s.inner = Future -> 2
                     [] OTHER            -> 1

chainFromVersionNegotiation(vn) == newChain(vn.authKey, vn.direction)

\* chainFrom and resolveSendChain: Nil stands for no chain; both fail when there
\* is neither a chain nor a negotiation block.
chainFrom(s) == IF s.chain # Nil THEN s.chain ELSE chainFromVersionNegotiation(s.vn)
resolveSendChain(s) ==
    IF s.chain = Nil /\ s.vn.min = 0 THEN Nil ELSE chainFrom(s)
Chainless(s) == s.chain = Nil /\ s.vn = Nil

SendError(err) == [err |-> err, state |-> EmptyState, msg |-> Nil, key |-> NoKey]
RecvErr(err)   == [err |-> err, state |-> EmptyState, key |-> NoKey]
SpqrMessage(version, index, body) == [version |-> version, index |-> index, body |-> body]

-----------------------------------------------------------------------------
\* Send.  The later version's step is external: it makes no epochs.

Step(s, random) ==
    IF s.inner = Future
    THEN [state |-> Future, msg |-> [epoch |-> 1, kind |-> "None", chunk |-> Nil], key |-> Nil]
    ELSE [send(s.inner, random) EXCEPT !.state = v1StateToProto(@)]

Samples(s) == stateVersion(s) = 1 /\ s.inner.tag \in {"KeysUnsampled", "HeaderReceived"}

SendWith(s, step, ch) ==
    LET added == IF step.key = Nil THEN [err |-> "ok", chain |-> ch]
                                   ELSE addEpoch(ch, step.key)
        drawn == sendKey(added.chain, step.msg.epoch - 1)
    IN  CASE ch = Nil /\ step.key # Nil -> SendError("ErrChainNotAvailable")
          [] ch = Nil /\ step.key = Nil ->
                 [err |-> "ok", key |-> NoKey,
                  state |-> [s EXCEPT !.inner = step.state],
                  msg   |-> SpqrMessage(stateVersion(s), 0, step.msg)]
          [] ch # Nil /\ added.err # "ok" -> SendError(added.err)
          [] ch # Nil /\ added.err = "ok" /\ drawn.err # "ok" -> SendError(drawn.err)
          [] OTHER ->
                 [err |-> "ok", key |-> drawn.key,
                  state |-> [s EXCEPT !.inner = step.state, !.chain = drawn.chain],
                  msg   |-> SpqrMessage(stateVersion(s), drawn.index, step.msg)]

SpqrSend(s, random) ==
    CASE stateVersion(s) = 0 ->
             [err |-> "ok", key |-> NoKey, state |-> EmptyState,
              msg |-> SpqrMessage(0, 0, Nil)]
      [] stateVersion(s) # 0 /\ Chainless(s) -> SendError("ErrChainNotAvailable")
      [] OTHER -> SendWith(s, Step(s, random), resolveSendChain(s))

-----------------------------------------------------------------------------
\* Recv.

\* The mutant lets a closed negotiation come down again.
negotiateRecvReopened(s, version) ==
    LET ourV        == stateVersion(s)
        minimum     == IF s.vn = Nil THEN 0 ELSE s.vn.min
        keep        == [err |-> "ok", state |-> s]
    IN  CASE version < minimum                -> [err |-> "ErrMinimumVersion", state |-> s]
          [] version >= minimum /\ (ourV = 0 \/ version >= ourV) -> keep
          [] OTHER -> [err |-> "ok", state |-> EmptyState]
negotiateRecv(s, version) ==
    LET ourV        == stateVersion(s)
        minimum     == IF s.vn = Nil THEN ourV ELSE s.vn.min
        negotiating == s.vn # Nil \/ ourV = 0
        keep        == [err |-> "ok", state |-> s]
    IN  CASE version < minimum -> [err |-> "ErrMinimumVersion", state |-> s]
          [] version >= minimum /\ version # ourV /\ ~negotiating ->
                 [err |-> "ErrVersionMismatch", state |-> s]
          [] /\ version >= minimum
             /\ version = ourV \/ negotiating
             /\ ourV = 0 \/ version >= ourV -> keep
          [] OTHER ->
                 [err   |-> "ok",
                  state |-> [inner |-> initInner(version, s.vn.direction, s.vn.authKey),
                             vn |-> Nil, chain |-> chainFrom(s)]]

\* A message of a later version: an epoch 0 key, and the negotiation stays open.
RecvHigher(s, m) ==
    LET drawn == recvKey(chainFrom(s), 0, m.index, Params)
    IN  IF Chainless(s) THEN RecvErr("ErrChainNotAvailable")
        ELSE IF drawn.err # "ok" THEN RecvErr(drawn.err)
             ELSE [err |-> "ok", key |-> drawn.key, state |-> [s EXCEPT !.chain = drawn.chain]]

\* A message of our version: a step of the v1 machine, whose secret is folded in
\* before the key is looked up; the negotiation closes.
RecvSame(s, m) ==
    LET step  == IF s.inner = Future THEN [err |-> "ok", state |-> Future, key |-> Nil]
                                     ELSE [recv(s.inner, m.body) EXCEPT !.state = v1StateToProto(@)]
        added == IF step.key = Nil THEN [err |-> "ok", chain |-> chainFrom(s)]
                                   ELSE addEpoch(chainFrom(s), step.key)
        drawn == recvKey(added.chain, m.body.epoch - 1, m.index, Params)
    IN  CASE step.err # "ok" -> RecvErr(step.err)
          [] step.err = "ok" /\ Chainless(s) -> RecvErr("ErrChainNotAvailable")
          [] step.err = "ok" /\ ~Chainless(s) /\ added.err # "ok" -> RecvErr(added.err)
          [] step.err = "ok" /\ ~Chainless(s) /\ added.err = "ok" /\ drawn.err # "ok" ->
                 RecvErr(drawn.err)
          [] OTHER -> [err |-> "ok", key |-> drawn.key,
                       state |-> [inner |-> step.state, vn |-> Nil, chain |-> drawn.chain]]

SpqrRecv(s, m) ==
    LET pre == negotiateRecv(s, m.version)
        s1  == pre.state
    IN  CASE pre.err # "ok" -> RecvErr(pre.err)
          [] pre.err = "ok" /\ stateVersion(s1) = 0 ->
                 [err |-> "ok", key |-> NoKey, state |-> EmptyState]
          [] pre.err = "ok" /\ stateVersion(s1) # 0 /\ m.version > stateVersion(s1) ->
                 RecvHigher(s1, m)
          [] OTHER -> RecvSame(s1, m)

-----------------------------------------------------------------------------
Init ==
    /\ offer \in Offers
    /\ st    = [p \in Parties |-> InitialState(p, offer[p])]
    /\ net   = {}
    /\ sent  = [p \in Parties |-> 0]
    /\ fresh = 0
    /\ overtaken = 0
    /\ taken = [p \in Parties |-> {}]

\* The network: a message may be overtaken by later ones, arrive at any time and
\* more than once, or never.  One that has arrived is forgotten when its sender
\* sends again.
Under(way, p) == {x \in net : x.to = p /\ x.way = way}
Overtake(p) ==
    /\ overtaken' = overtaken + Cardinality(Under("new", p))
    /\ overtaken' <= MaxLate

Send(p) ==
    LET r == SpqrSend(st[p], fresh + 1)
    IN  /\ sent[p] < MaxMessages(offer)
        /\ sent[p] < sent[Peer(p)] + MaxLead
        /\ r.err = "ok"
        /\ st'    = [st EXCEPT ![p] = r.state]
        /\ sent'  = [sent EXCEPT ![p] = @ + 1]
        /\ Overtake(Peer(p))
        /\ net'   = {x \in net : x.to = p} \cup Under("late", Peer(p))
                    \cup {[x EXCEPT !.way = "late"] : x \in Under("new", Peer(p))}
                    \cup {[to |-> Peer(p), msg |-> r.msg, key |-> r.key, way |-> "new"]}
        /\ fresh' = IF Samples(st[p]) THEN fresh + 1 ELSE fresh
        /\ UNCHANGED <<offer, taken>>

\* An error leaves the stored state as it was.
Recv(p, x) ==
    LET r == SpqrRecv(st[p], x.msg)
    IN  /\ x.to = p
        /\ r.err = "ok"
        /\ st'    = [st EXCEPT ![p] = r.state]
        /\ taken' = [taken EXCEPT ![p] = @ \cup ({r.key} \ {NoKey})]
        /\ net'   = (net \ {x}) \cup {[x EXCEPT !.way = "arrived"]}
        /\ UNCHANGED <<offer, sent, fresh, overtaken>>

Next == \E p \in Parties : Send(p) \/ \E x \in net : Recv(p, x)

Spec == Init /\ [][Next]_vars

=============================================================================
