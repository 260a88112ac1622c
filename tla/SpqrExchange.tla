---------------------------- MODULE SpqrExchange ----------------------------
(***************************************************************************)
(* Two v1 state machines that exchange epoch secrets over a network that   *)
(* loses, duplicates and reorders.  Every session message carries one SPQR *)
(* message, so a party sends whenever its user does, whatever it has or    *)
(* has not received.                                                       *)
(***************************************************************************)
EXTENDS SpqrV1

CONSTANTS
    Alice, Bob,         \* the initiator (A2B) and the responder (B2A)
    AuthKey,            \* the key both derived in PQXDH
    MaxEpoch            \* bound: the epochs explored

Parties == {Alice, Bob}
Peer(p) == IF p = Alice THEN Bob ELSE Alice

ASSUME ExchangeAssumption ==
    /\ Alice # Bob
    /\ MaxEpoch \in Nat \ {0}

\* "Nothing" is neither a ciphertext nor the secret of an epoch.
ASSUME NilAssumption ==
    /\ Nil \notin {"ct2"} \X Nat \X Nat \X Nat
    /\ Nil \notin [epoch : Nat, secret : ({"ss"} \X Nat \X Nat) \X Nat]

VARIABLES
    state,      \* the v1 state of each party
    net,        \* the messages under way, each with its receiver
    fresh,      \* how many random values were drawn
    secrets     \* the epoch secrets each party has handed to its chain

vars == <<state, net, fresh, secrets>>

Init ==
    /\ state   = [p \in Parties |-> IF p = Alice THEN newSendEkState(AuthKey)
                                                 ELSE newSendCtState(AuthKey)]
    /\ net     = {}
    /\ fresh   = 0
    /\ secrets = [p \in Parties |-> <<>>]

\* recv ignores a message of an epoch its receiver has left, so one that both
\* have left need not be kept.
Relevant(messages, s) == {x \in messages : \E p \in Parties : x.msg.epoch >= s[p].epoch}

Learn(p, key) ==
    secrets' = IF key = Nil THEN secrets ELSE [secrets EXCEPT ![p] = Append(@, key)]

Send(p) ==
    LET step == send(state[p], fresh + 1)
    IN  /\ state' = [state EXCEPT ![p] = v1StateToProto(step.state)]
        /\ net'   = Relevant(net \cup {[to |-> Peer(p), msg |-> step.msg]}, state')
        /\ fresh' = IF state[p].tag \in {"KeysUnsampled", "HeaderReceived"}
                    THEN fresh + 1 ELSE fresh
        /\ Learn(p, step.key)

\* An error leaves the stored state as it was.
Receive(p, x) ==
    LET step == recv(state[p], x.msg)
    IN  /\ x.to = p
        /\ step.err = "ok"
        /\ step.state.epoch <= MaxEpoch
        /\ state' = [state EXCEPT ![p] = v1StateToProto(step.state)]
        /\ net'   = Relevant(net, state')
        /\ Learn(p, step.key)
        /\ UNCHANGED fresh

Next ==
    \E p \in Parties : \/ Send(p)
                       \/ \E x \in net : Receive(p, x)

Spec == Init /\ [][Next]_vars

\* Both users keep sending, and a party that messages could move on receives one.
FairSpec ==
    /\ Spec
    /\ \A p \in Parties : WF_vars(Send(p)) /\ WF_vars(\E x \in net : Receive(p, x))

=============================================================================
