----------------------------- MODULE SpqrChain ------------------------------
(***************************************************************************)
(* The SPQR epoch key schedule: chain of spqr/chain.go.                    *)
(*                                                                         *)
(* A root is named by the secrets that were folded into it, in order: the  *)
(* initial key and then one secret per epoch.  The HKDF outputs of one     *)
(* root are two streams, one for each direction, and a key is named by its *)
(* stream and its position in it.                                          *)
(***************************************************************************)
EXTENDS KeyHistory, Sequences

CONSTANT EpochsToKeepPriorToSendEpoch       \* epochsToKeepPriorToSendEpoch: 1

ASSUME ChainAssumption == EpochsToKeepPriorToSendEpoch \in Nat

\* The peer's direction, and a mutant that forgets to switch.
switchDirectionNot(dir) == dir
switchDirection(dir) == IF dir = "A2B" THEN "B2A" ELSE "A2B"

\* A link of the chain: the root of its epoch and its two directions.  "live"
\* is FALSE once clearNext erased the send side.
chainEpoch(root) ==
    [root |-> root, send |-> newChainEpochDirection,
     recv |-> newChainEpochDirection, live |-> TRUE]

newChain(initialKey, dir) ==
    [dir |-> dir, currentEpoch |-> 0, sendEpoch |-> 0, nextRoot |-> <<initialKey>>,
     links |-> <<chainEpoch(<<initialKey>>)>>]

\* Chain.add_epoch.
addEpoch(c, es) ==
    IF es.epoch # c.currentEpoch + 1
    THEN [err |-> "ErrChainDecode", chain |-> c]
    ELSE LET root == Append(c.nextRoot, es.secret)
         IN  [err   |-> "ok",
              chain |-> [c EXCEPT !.currentEpoch = es.epoch, !.nextRoot = root,
                                  !.links = Append(@, chainEpoch(root))]]

\* The place of an epoch in links, 0 when it is not retained.
epochIdx(c, epoch) ==
    IF epoch > c.currentEpoch \/ c.currentEpoch - epoch >= Len(c.links)
    THEN 0
    ELSE Len(c.links) - (c.currentEpoch - epoch)

\* The trimming sendKey does when the send epoch moves: the links before the
\* kept ones go, and the send side of every older one is erased.  The mutant
\* forgets the links to drop.
TrimLinksNever(links, at) ==
    [i \in 1 .. Len(links) |-> [links[i] EXCEPT !.live = @ /\ i >= at]]
TrimLinks(links, at) ==
    LET first == IF at - 1 > EpochsToKeepPriorToSendEpoch
                 THEN at - EpochsToKeepPriorToSendEpoch ELSE 1
    IN  [i \in 1 .. Len(links) - first + 1 |->
            [links[i + first - 1] EXCEPT !.live = @ /\ i + first - 1 >= at]]

KeyName(root, dir, pos) == [root |-> root, dir |-> dir, pos |-> pos]
NoKey  == KeyName(<<>>, "none", 0)
Erased == KeyName(<<>>, "erased", 0)

\* Chain.send_key: [err, index, key, chain].  A key drawn after clearNext would
\* be derived from nothing.
sendKey(c, epoch) ==
    LET at     == epochIdx(c, epoch)
        moved  == c.sendEpoch # epoch
        links  == IF moved THEN TrimLinks(c.links, at) ELSE c.links
        here   == at - (Len(c.links) - Len(links))
        drawn  == DirectionNextKey(links[here].send)
    IN  CASE epoch < c.sendEpoch ->
                 [err |-> "ErrSendKeyEpochDecreased", index |-> 0, key |-> NoKey, chain |-> c]
          [] epoch >= c.sendEpoch /\ at = 0 ->
                 [err |-> "ErrEpochOutOfRange", index |-> 0, key |-> NoKey, chain |-> c]
          [] OTHER ->
                 [err   |-> "ok",
                  index |-> Wire(drawn.ctr),
                  key   |-> IF links[here].live
                            THEN KeyName(links[here].root, c.dir, drawn.ctr) ELSE Erased,
                  chain |-> [c EXCEPT !.sendEpoch = epoch,
                                      !.links = [links EXCEPT ![here].send = drawn]]]

\* Chain.recv_key: [err, key, chain].  Index 0 of epoch 0 is no key.
recvKey(c, epoch, index, params) ==
    LET at    == epochIdx(c, epoch)
        drawn == DirectionKey(c.links[at].recv, index, params)
    IN  CASE epoch = 0 /\ index = 0 ->
                 [err |-> "ok", key |-> NoKey, chain |-> c]
          [] ~(epoch = 0 /\ index = 0) /\ at = 0 ->
                 [err |-> "ErrEpochOutOfRange", key |-> NoKey, chain |-> c]
          [] ~(epoch = 0 /\ index = 0) /\ at # 0 /\ drawn.err # "ok" ->
                 [err |-> drawn.err, key |-> NoKey, chain |-> c]
          [] OTHER ->
                 [err   |-> "ok",
                  key   |-> KeyName(c.links[at].root, switchDirection(c.dir), drawn.pos),
                  chain |-> [c EXCEPT !.links[at].recv = drawn.d]]

=============================================================================
